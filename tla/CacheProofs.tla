----------------------------- MODULE CacheProofs -----------------------------
(***************************************************************************)
(* The server's caches, for any requests, sizes, lifetimes and failures:   *)
(* the archive reader takes out only what failed and holds nothing that    *)
(* did for long, the raster tiles are bounded and lose no walls, the       *)
(* readiness check closes what it opens and never says what was not true   *)
(* of a recent moment, and point queries use no index under an identity it *)
(* is older than.                                                          *)
(***************************************************************************)
EXTENDS Readiness, ArchiveReader, RasterTiles, PointQueries, FiniteSetTheorems, FunctionTheorems,
        SequenceTheorems, TLAPS

-----------------------------------------------------------------------------
(* What sequences do.                                                      *)

LEMMA SeqOf ==
    ASSUME NEW S, NEW T, NEW s \in Seq(S), \A i \in 1 .. Len(s) : s[i] \in T
    PROVE  s \in Seq(T)
<1>1. Len(s) \in Nat /\ DOMAIN s = 1 .. Len(s)
  OBVIOUS
<1>2. s = [i \in 1 .. Len(s) |-> s[i]]
  OBVIOUS
<1> QED BY <1>1, <1>2

LEMMA WiderSeq ==
    ASSUME NEW S, NEW T, S \subseteq T, NEW s \in Seq(S)
    PROVE  s \in Seq(T)
<1>1. \A i \in 1 .. Len(s) : s[i] \in T
  BY ElementOfSeq
<1> QED BY <1>1, SeqOf

\* What is left of a sequence without its first n elements.
LEMMA WithoutFirst ==
    ASSUME NEW S, NEW s \in Seq(S), NEW n \in 0 .. Len(s)
    PROVE  /\ SubSeq(s, n + 1, Len(s)) \in Seq(S)
           /\ Len(SubSeq(s, n + 1, Len(s))) = Len(s) - n
           /\ \A i \in 1 .. Len(s) - n : SubSeq(s, n + 1, Len(s))[i] = s[i + n]
<1>1. Len(s) \in Nat /\ \A i \in n + 1 .. Len(s) : s[i] \in S
  OBVIOUS
<1>2. /\ SubSeq(s, n + 1, Len(s)) \in Seq(S)
      /\ Len(SubSeq(s, n + 1, Len(s))) = IF n + 1 <= Len(s) THEN Len(s) - (n + 1) + 1 ELSE 0
      /\ \A i \in 1 .. Len(s) - (n + 1) + 1 : SubSeq(s, n + 1, Len(s))[i] = s[(n + 1) + i - 1]
  BY <1>1, SubSeqProperties
<1>3. \A i \in 1 .. Len(s) - n : (n + 1) + i - 1 = i + n
  BY <1>1
<1> QED BY <1>1, <1>2, <1>3

\* What is left of a sequence without its n-th element.
LEMMA WithoutOne ==
    ASSUME NEW S, NEW s \in Seq(S), NEW n \in 1 .. Len(s),
           NEW t, t = SubSeq(s, 1, n - 1) \o SubSeq(s, n + 1, Len(s))
    PROVE  /\ t \in Seq(S)
           /\ Len(t) = Len(s) - 1
           /\ \A i \in 1 .. Len(t) : t[i] = IF i < n THEN s[i] ELSE s[i + 1]
<1> DEFINE a == SubSeq(s, 1, n - 1)
           b == SubSeq(s, n + 1, Len(s))
<1>1. Len(s) \in Nat /\ \A i \in 1 .. Len(s) : s[i] \in S
  OBVIOUS
<1>2. a \in Seq(S) /\ Len(a) = n - 1 /\ \A i \in 1 .. n - 1 : a[i] = s[i]
  <2>1. \A i \in 1 .. n - 1 : s[i] \in S
    BY <1>1
  <2>2. /\ a \in Seq(S) /\ Len(a) = IF 1 <= n - 1 THEN n - 1 - 1 + 1 ELSE 0
        /\ \A i \in 1 .. n - 1 - 1 + 1 : a[i] = s[1 + i - 1]
    BY <2>1, SubSeqProperties
  <2>3. \A i \in 1 .. n - 1 : 1 + i - 1 = i
    OBVIOUS
  <2> QED BY <1>1, <2>2, <2>3
<1>3. b \in Seq(S) /\ Len(b) = Len(s) - n /\ \A i \in 1 .. Len(s) - n : b[i] = s[i + n]
  BY WithoutFirst
<1> HIDE DEF a, b
<1>4. t = a \o b
  BY DEF a, b
<1>l. PICK l \in Nat : l = Len(s)
  BY <1>1
<1>5. /\ t \in Seq(S) /\ Len(t) = (n - 1) + (l - n)
      /\ \A i \in 1 .. (n - 1) + (l - n) : t[i] = IF i <= n - 1 THEN a[i] ELSE b[i - (n - 1)]
  <2>1. /\ a \o b \in Seq(S) /\ Len(a \o b) = Len(a) + Len(b)
        /\ \A i \in 1 .. Len(a) + Len(b) : (a \o b)[i] = IF i <= Len(a) THEN a[i] ELSE b[i - Len(a)]
    BY <1>2, <1>3, ConcatProperties
  <2>2. Len(a) = n - 1 /\ Len(b) = l - n
    BY <1>2, <1>3, <1>l
  <2> QED BY <1>4, <2>1, <2>2
<1>6. Len(t) = l - 1 /\ n \in 1 .. l /\ (n - 1) + (l - n) = l - 1
  <2>1. n \in 1 .. l
    BY <1>l
  <2>2. (n - 1) + (l - n) = l - 1
    BY <2>1
  <2> QED BY ONLY <1>5, <2>1, <2>2, Zenon
<1>7. ASSUME NEW i \in 1 .. Len(t) PROVE t[i] = IF i < n THEN s[i] ELSE s[i + 1]
  <2>0. i \in 1 .. l - 1 /\ i \in 1 .. (n - 1) + (l - n)
    BY <1>6
  <2>1. CASE i < n
    <3>1. i \in 1 .. n - 1 /\ i <= n - 1
      BY <2>0, <2>1, <1>6
    <3>2. t[i] = a[i] /\ a[i] = s[i]
      BY <1>2, <1>5, <2>0, <3>1
    <3> QED BY <2>1, <3>2
  <2>2. CASE ~(i < n)
    <3>1. i - (n - 1) \in 1 .. l - n /\ (i - (n - 1)) + n = i + 1 /\ ~(i <= n - 1)
      BY <1>6, <2>0, <2>2
    <3>2. t[i] = b[i - (n - 1)]
      BY <1>5, <2>0, <3>1
    <3>3. b[i - (n - 1)] = s[i + 1]
      BY <1>3, <1>l, <3>1
    <3> QED BY <2>2, <3>2, <3>3
  <2> QED BY <2>1, <2>2
<1> QED BY <1>l, <1>5, <1>6, <1>7

-----------------------------------------------------------------------------
(* The archive reader: its inductive invariant.  Whatever is cached and    *)
(* cannot answer, or cannot answer yet, is awaited by a request that will  *)
(* find out; and an instance is in the cache once.                         *)

ArEntries == [key : Archives, instance : ArInstances]
ArStages == [stage : {"none"}] \cup [stage : {"opening", "open", "broken", "shut"}, key : Archives]

ArOnce == \A m, n \in DOMAIN arCache :
              arCache[m].key = arCache[n].key \/ arCache[m].instance = arCache[n].instance => m = n
ArNamed == \A n \in DOMAIN arCache : /\ arStage[arCache[n].instance].stage # "none"
                                     /\ arStage[arCache[n].instance].key = arCache[n].key
ArAwaited == \A n \in DOMAIN arCache : arStage[arCache[n].instance].stage = "opening" =>
                 \E c \in TileRequests : arWaits[c] = arCache[n].instance
ArRequests ==
    /\ arWaits \in [TileRequests -> {0} \cup ArInstances]
    /\ \A c \in TileRequests : arWaits[c] # 0 => arStage[arWaits[c]].stage # "none"
    /\ arDoomed \subseteq TileRequests
    /\ \A c \in arDoomed : arWaits[c] # 0 /\ arStage[arWaits[c]].stage \in {"broken", "shut"}

ArInv ==
    /\ arCache \in Seq(ArEntries) /\ Len(arCache) <= ArchiveMax
    /\ arStage \in [ArInstances -> ArStages]
    /\ arReadable \subseteq Archives
    /\ ArOnce /\ ArNamed /\ ArAwaited /\ ArRequests /\ FailuresDoNotStick

LEMMA ArBounds == ArchiveMax \in Nat /\ ArchiveMax >= 1 /\ 0 \notin ArInstances
BY FS_CardinalityType, ArchiveAssumption DEF ArchiveAssumption, ArInstances

\* Steps that leave the cache and the instances alone.
LEMMA ArSameInstances ==
    ASSUME ArInv, UNCHANGED <<arCache, arStage>>, arReadable' \subseteq Archives, ArRequests',
           \A c \in TileRequests : arWaits[c] # 0 /\ arWaits'[c] # arWaits[c] =>
               arStage[arWaits[c]].stage \in {"open", "broken"} /\ c \notin arDoomed,
           arDoomed \subseteq arDoomed'
    PROVE  ArInv' /\ ~TakesOutHealthy
<1>1. ~TakesOutHealthy
  BY DEF ArInv, TakesOutHealthy
<1>2. (ArOnce /\ ArNamed)'
  BY DEF ArInv, ArOnce, ArNamed
<1>0. \A n \in DOMAIN arCache : arCache[n].instance # 0
  <2>1. arCache \in Seq(ArEntries) /\ DOMAIN arCache = 1 .. Len(arCache)
    BY DEF ArInv
  <2>2. \A n \in DOMAIN arCache : arCache[n] \in ArEntries
    BY <2>1, ElementOfSeq
  <2> QED BY <2>2, ArBounds DEF ArEntries
<1>3. ArAwaited'
  BY <1>0 DEF ArInv, ArAwaited
<1>4. FailuresDoNotStick'
  <2> SUFFICES ASSUME NEW n \in DOMAIN arCache, arStage[arCache[n].instance].stage \in {"broken", "shut"}
               PROVE  \E c \in TileRequests : arWaits'[c] = arCache[n].instance
                          /\ (c \in arDoomed' \/ arStage[arWaits'[c]].stage = "shut")
    BY DEF FailuresDoNotStick
  <2>1. PICK c \in TileRequests : arWaits[c] = arCache[n].instance
                                  /\ (c \in arDoomed \/ arStage[arWaits[c]].stage = "shut")
    BY DEF ArInv, FailuresDoNotStick
  <2>2. arWaits'[c] = arWaits[c]
    BY <1>0, <2>1
  <2> QED BY <2>1, <2>2
<1> QED BY <1>1, <1>2, <1>3, <1>4 DEF ArInv

LEMMA OpenKeeps ==
    ASSUME ArInv, NEW c \in TileRequests, NEW k \in Archives, OpenInstance(c, k)
    PROVE  ArInv' /\ ~TakesOutHealthy
<1>0. /\ arCache \in Seq(ArEntries) /\ Len(arCache) <= ArchiveMax /\ arStage \in [ArInstances -> ArStages]
      /\ arReadable \subseteq Archives
      /\ ArOnce /\ ArNamed /\ ArAwaited /\ ArRequests /\ FailuresDoNotStick
      /\ Len(arCache) \in Nat /\ DOMAIN arCache = 1 .. Len(arCache)
  BY DEF ArInv
<1>1. PICK i \in ArInstances : /\ ArGarbage(i)
                               /\ arStage' = [arStage EXCEPT ![i] = [stage |-> "opening", key |-> k]]
                               /\ arCache' = WithNewest(k, i)
                               /\ arWaits' = [arWaits EXCEPT ![c] = i]
  BY DEF OpenInstance
<1>2. arWaits[c] = 0 /\ ArHolding(k) = {} /\ arDoomed' = arDoomed /\ arReadable' = arReadable
  BY DEF OpenInstance
<1>n. PICK n \in Nat : n = Len(arCache)
  BY <1>0
<1>c. \A j \in 1 .. n : arCache[j] \in ArEntries /\ arCache[j].key # k /\ arCache[j].instance # i
  BY <1>0, <1>1, <1>2, <1>n, ElementOfSeq DEF ArHolding, ArGarbage
<1>s. /\ arStage'[i] = [stage |-> "opening", key |-> k]
      /\ \A m \in ArInstances \ {i} : arStage'[m] = arStage[m]
      /\ arStage' \in [ArInstances -> ArStages]
  <2>1. [stage |-> "opening", key |-> k] \in ArStages
    BY DEF ArStages
  <2> QED BY <1>0, <1>1, <2>1
<1>e. ArEntry(k, i) \in ArEntries /\ ArEntry(k, i).key = k /\ ArEntry(k, i).instance = i
  BY DEF ArEntry, ArEntries
\* d: whether the oldest entry gives way.
<1>3. PICK d \in {0, 1} : d = IF n + 1 > ArchiveMax THEN 1 ELSE 0
  OBVIOUS
<1>4. /\ arCache' \in Seq(ArEntries) /\ Len(arCache') = n + 1 - d
      /\ \A j \in 1 .. n - d : arCache'[j] = arCache[j + d]
      /\ arCache'[n + 1 - d] = ArEntry(k, i)
  <2>1. PICK all : all = Append(arCache, ArEntry(k, i))
    OBVIOUS
  <2>2. /\ all \in Seq(ArEntries) /\ Len(all) = n + 1
        /\ (\A j \in 1 .. n : all[j] = arCache[j]) /\ all[n + 1] = ArEntry(k, i)
    BY <1>0, <1>e, <1>n, <2>1, AppendProperties
  <2>3. CASE d = 0
    <3>1. arCache' = all
      BY <1>1, <1>3, <2>1, <2>2, <2>3, ArBounds DEF WithNewest
    <3> QED BY <2>2, <2>3, <3>1
  <2>4. CASE d = 1
    <3>1. arCache' = Tail(all) /\ all # <<>>
      BY <1>1, <1>3, <2>1, <2>2, <2>4, ArBounds DEF WithNewest
    <3>2. Tail(all) \in Seq(ArEntries) /\ Len(Tail(all)) = n /\ \A j \in 1 .. n : Tail(all)[j] = all[j + 1]
      BY <2>2, <3>1, HeadTailProperties
    <3>3. n >= 1
      BY <1>3, <2>4, ArBounds
    <3> QED BY <2>2, <2>4, <3>1, <3>2, <3>3
  <2> QED BY <2>3, <2>4
<1>l. PICK l \in Nat : l = n - d
  BY <1>3, ArBounds
<1>5. /\ Len(arCache') = l + 1 /\ DOMAIN arCache' = 1 .. l + 1 /\ l + 1 <= ArchiveMax
      /\ \A j \in 1 .. l : arCache'[j] = arCache[j + d] /\ j + d \in 1 .. n
      /\ arCache'[l + 1] = ArEntry(k, i)
  <2>1. Len(arCache') = l + 1 /\ n + 1 - d = l + 1 /\ n = l + d
    BY <1>3, <1>4, <1>l
  <2>2. DOMAIN arCache' = 1 .. l + 1
    BY <1>4, <2>1
  <2>3. l + 1 <= ArchiveMax
    BY <1>0, <1>3, <1>n, <2>1, ArBounds
  <2>4. \A j \in 1 .. l : j + d \in 1 .. n
    BY <1>3, <2>1
  <2> QED BY <1>4, <1>l, <2>1, <2>2, <2>3, <2>4
<1>6. ASSUME NEW j \in 1 .. l + 1
      PROVE  \/ j = l + 1
             \/ j \in 1 .. l /\ \E m \in 1 .. n : m = j + d /\ arCache'[j] = arCache[m]
                    /\ arCache'[j].key # k /\ arCache'[j].instance # i /\ arCache'[j].instance \in ArInstances
  <2>1. CASE j \in 1 .. l
    BY <1>5, <1>c, <2>1 DEF ArEntries
  <2> QED BY <2>1
<1>7. ArOnce'
  <2> SUFFICES ASSUME NEW a \in 1 .. l + 1, NEW b \in 1 .. l + 1,
                      arCache'[a].key = arCache'[b].key \/ arCache'[a].instance = arCache'[b].instance
               PROVE  a = b
    BY <1>5 DEF ArOnce
  <2>1. CASE a \in 1 .. l /\ b \in 1 .. l
    <3>1. a + d \in DOMAIN arCache /\ b + d \in DOMAIN arCache
      BY <1>0, <1>5, <1>n, <2>1
    <3>2. arCache'[a] = arCache[a + d] /\ arCache'[b] = arCache[b + d]
      BY <1>5, <2>1
    <3>3. a + d = b + d
      BY <1>0, <3>1, <3>2 DEF ArOnce
    <3> QED BY <3>3
  <2>2. CASE a = l + 1 \/ b = l + 1
    BY <1>5, <1>6, <1>e, <2>2
  <2> QED BY <2>1, <2>2
<1>8. ArNamed'
  <2> SUFFICES ASSUME NEW a \in 1 .. l + 1
               PROVE  /\ arStage'[arCache'[a].instance].stage # "none"
                      /\ arStage'[arCache'[a].instance].key = arCache'[a].key
    BY <1>5 DEF ArNamed
  <2>1. CASE a = l + 1
    BY <1>5, <1>e, <1>s, <2>1
  <2>2. CASE a # l + 1
    <3>1. PICK m \in DOMAIN arCache : arCache'[a] = arCache[m] /\ arCache'[a].instance \in ArInstances \ {i}
      BY <1>0, <1>6, <1>n, <2>2
    <3> QED BY <1>0, <1>s, <3>1 DEF ArNamed
  <2> QED BY <2>1, <2>2
<1>w. arWaits'[c] = i /\ \A b \in TileRequests \ {c} : arWaits'[b] = arWaits[b]
  BY <1>0, <1>1 DEF ArRequests
<1>9. ArAwaited'
  <2> SUFFICES ASSUME NEW a \in 1 .. l + 1, arStage'[arCache'[a].instance].stage = "opening"
               PROVE  \E b \in TileRequests : arWaits'[b] = arCache'[a].instance
    BY <1>5 DEF ArAwaited
  <2>1. CASE a = l + 1
    BY <1>5, <1>e, <1>w, <2>1
  <2>2. CASE a # l + 1
    <3>1. PICK m \in DOMAIN arCache : arCache'[a] = arCache[m] /\ arCache'[a].instance \in ArInstances \ {i}
      BY <1>0, <1>6, <1>n, <2>2
    <3>2. PICK b \in TileRequests : arWaits[b] = arCache[m].instance
      BY <1>0, <1>s, <3>1 DEF ArAwaited
    <3>3. b # c
      BY <1>2, <3>1, <3>2, ArBounds
    <3> QED BY <1>w, <3>1, <3>2, <3>3
  <2> QED BY <2>1, <2>2
<1>10. ArRequests'
  <2>1. arWaits' \in [TileRequests -> {0} \cup ArInstances]
    BY <1>0, <1>1 DEF ArRequests
  <2>2. \A b \in TileRequests : b # c => arWaits[b] # i
    BY <1>1 DEF ArGarbage
  <2>3. ASSUME NEW b \in TileRequests, arWaits'[b] # 0 PROVE arStage'[arWaits'[b]].stage # "none"
    <3>1. CASE b = c
      BY <1>s, <1>w, <3>1
    <3>2. CASE b # c
      BY <1>0, <1>s, <1>w, <2>2, <2>3, <3>2 DEF ArRequests
    <3> QED BY <3>1, <3>2
  <2>4. ASSUME NEW b \in arDoomed PROVE arWaits'[b] # 0 /\ arStage'[arWaits'[b]].stage \in {"broken", "shut"}
    <3>1. b \in TileRequests /\ b # c /\ arWaits[b] \in ArInstances \ {i}
      BY <1>0, <1>2, <2>2 DEF ArRequests
    <3> QED BY <1>0, <1>s, <1>w, <3>1 DEF ArRequests
  <2> QED BY <1>0, <1>2, <2>1, <2>3, <2>4 DEF ArRequests
<1>11. FailuresDoNotStick'
  <2> SUFFICES ASSUME NEW a \in 1 .. l + 1, arStage'[arCache'[a].instance].stage \in {"broken", "shut"}
               PROVE  \E b \in TileRequests : arWaits'[b] = arCache'[a].instance
                          /\ (b \in arDoomed' \/ arStage'[arWaits'[b]].stage = "shut")
    BY <1>5 DEF FailuresDoNotStick
  <2>1. a # l + 1
    BY <1>5, <1>e, <1>s
  <2>2. PICK m \in DOMAIN arCache : arCache'[a] = arCache[m] /\ arCache'[a].instance \in ArInstances \ {i}
    BY <1>0, <1>6, <1>n, <2>1
  <2>3. PICK b \in TileRequests : arWaits[b] = arCache[m].instance
                                  /\ (b \in arDoomed \/ arStage[arWaits[b]].stage = "shut")
    BY <1>0, <1>s, <2>2 DEF FailuresDoNotStick
  <2>4. b # c
    BY <1>2, <2>2, <2>3, ArBounds
  <2> QED BY <1>2, <1>s, <1>w, <2>2, <2>3, <2>4
<1>12. ~TakesOutHealthy
  BY <1>0, <1>3, <1>4, <1>n DEF TakesOutHealthy
<1> QED BY <1>0, <1>2, <1>4, <1>5, <1>7, <1>8, <1>9, <1>10, <1>11, <1>12, <1>s DEF ArInv

\* An instance whose header is read, or whose leaf fails.
LEMMA HeaderKeeps ==
    ASSUME ArInv, NEW i \in ArInstances, ReadHeader(i)
    PROVE  ArInv' /\ ~TakesOutHealthy
<1>0. /\ arStage \in [ArInstances -> ArStages] /\ ArRequests /\ arStage[i].stage = "opening"
      /\ arCache' = arCache /\ arWaits' = arWaits /\ arDoomed' = arDoomed /\ arReadable' = arReadable
  BY DEF ArInv, ReadHeader
<1>1. PICK stage \in {"open", "shut"} : arStage' = [arStage EXCEPT ![i].stage = stage]
  BY DEF ReadHeader
<1>2. /\ arStage' \in [ArInstances -> ArStages] /\ arStage'[i].stage = stage /\ arStage'[i].key = arStage[i].key
      /\ \A m \in ArInstances \ {i} : arStage'[m] = arStage[m]
  <2>1. arStage[i] \in [stage : {"opening", "open", "broken", "shut"}, key : Archives]
    BY <1>0 DEF ArStages
  <2>2. /\ [arStage[i] EXCEPT !.stage = stage] \in ArStages
        /\ [arStage[i] EXCEPT !.stage = stage].stage = stage
        /\ [arStage[i] EXCEPT !.stage = stage].key = arStage[i].key
    BY <2>1 DEF ArStages
  <2>3. arStage' = [arStage EXCEPT ![i] = [arStage[i] EXCEPT !.stage = stage]]
    BY <1>1
  <2> QED BY <1>0, <2>2, <2>3
<1>3. \A n \in DOMAIN arCache : arCache[n].instance \in ArInstances
  <2>1. arCache \in Seq(ArEntries) /\ DOMAIN arCache = 1 .. Len(arCache)
    BY DEF ArInv
  <2>2. \A n \in DOMAIN arCache : arCache[n] \in ArEntries
    BY <2>1, ElementOfSeq
  <2> QED BY <2>2 DEF ArEntries
<1>4. ArOnce' /\ ArNamed'
  BY <1>0, <1>2, <1>3 DEF ArInv, ArOnce, ArNamed
<1>5. ArAwaited'
  BY <1>0, <1>2, <1>3 DEF ArInv, ArAwaited
<1>6. ArRequests'
  <2>1. ASSUME NEW c \in TileRequests, arWaits[c] # 0
        PROVE  arWaits[c] \in ArInstances /\ arStage'[arWaits[c]].stage # "none"
    BY <1>0, <1>2, <2>1 DEF ArRequests
  <2>2. ASSUME NEW c \in arDoomed
        PROVE  arWaits[c] # 0 /\ arStage'[arWaits[c]].stage \in {"broken", "shut"}
    <3>1. c \in TileRequests /\ arWaits[c] # 0 /\ arStage[arWaits[c]].stage \in {"broken", "shut"}
      BY <1>0 DEF ArRequests
    <3>2. arWaits[c] \in ArInstances \ {i}
      BY <1>0, <2>1, <3>1
    <3> QED BY <1>2, <3>1, <3>2
  <2> QED BY <1>0, <2>1, <2>2 DEF ArRequests
<1>7. FailuresDoNotStick'
  <2> SUFFICES ASSUME NEW n \in DOMAIN arCache, arStage'[arCache[n].instance].stage \in {"broken", "shut"}
               PROVE  \E c \in TileRequests : arWaits[c] = arCache[n].instance
                          /\ (c \in arDoomed \/ arStage'[arWaits[c]].stage = "shut")
    BY <1>0 DEF FailuresDoNotStick
  <2>1. CASE arCache[n].instance = i
    <3>1. PICK c \in TileRequests : arWaits[c] = arCache[n].instance
      BY <1>0, <2>1 DEF ArInv, ArAwaited
    <3> QED BY <1>2, <2>1, <3>1
  <2>2. CASE arCache[n].instance # i
    BY <1>0, <1>2, <1>3, <2>2 DEF ArInv, FailuresDoNotStick
  <2> QED BY <2>1, <2>2
<1>8. ~TakesOutHealthy
  BY <1>0 DEF ArInv, TakesOutHealthy
<1> QED BY <1>0, <1>2, <1>4, <1>5, <1>6, <1>7, <1>8 DEF ArInv

LEMMA LeafKeeps ==
    ASSUME ArInv, NEW c \in TileRequests, LeafFails(c)
    PROVE  ArInv' /\ ~TakesOutHealthy
<1> DEFINE i == arWaits[c]
<1>0. /\ arStage \in [ArInstances -> ArStages] /\ ArRequests /\ arStage[i].stage \in {"open", "broken"}
      /\ arCache' = arCache /\ arWaits' = arWaits /\ arReadable' = arReadable
      /\ arDoomed' = arDoomed \cup {c} /\ arWaits[c] # 0 /\ i \in ArInstances
  BY DEF ArInv, ArRequests, LeafFails
<1>1. /\ arStage' \in [ArInstances -> ArStages] /\ arStage'[i].stage = "broken" /\ arStage'[i].key = arStage[i].key
      /\ \A m \in ArInstances \ {i} : arStage'[m] = arStage[m]
  <2>1. arStage[i] \in [stage : {"opening", "open", "broken", "shut"}, key : Archives]
    BY <1>0 DEF ArStages
  <2>2. /\ [arStage[i] EXCEPT !.stage = "broken"] \in ArStages
        /\ [arStage[i] EXCEPT !.stage = "broken"].stage = "broken"
        /\ [arStage[i] EXCEPT !.stage = "broken"].key = arStage[i].key
    BY <2>1 DEF ArStages
  <2>3. arStage' = [arStage EXCEPT ![i] = [arStage[i] EXCEPT !.stage = "broken"]]
    BY DEF LeafFails
  <2> QED BY <1>0, <2>2, <2>3
<1> HIDE DEF i
<1>3. \A n \in DOMAIN arCache : arCache[n].instance \in ArInstances
  <2>1. arCache \in Seq(ArEntries) /\ DOMAIN arCache = 1 .. Len(arCache)
    BY DEF ArInv
  <2>2. \A n \in DOMAIN arCache : arCache[n] \in ArEntries
    BY <2>1, ElementOfSeq
  <2> QED BY <2>2 DEF ArEntries
<1>4. ArOnce' /\ ArNamed'
  BY <1>0, <1>1, <1>3 DEF ArInv, ArOnce, ArNamed
<1>5. ArAwaited'
  BY <1>0, <1>1, <1>3 DEF ArInv, ArAwaited
<1>6. ArRequests'
  BY <1>0, <1>1 DEF ArRequests, i
<1>7. FailuresDoNotStick'
  <2> SUFFICES ASSUME NEW n \in DOMAIN arCache, arStage'[arCache[n].instance].stage \in {"broken", "shut"}
               PROVE  \E b \in TileRequests : arWaits[b] = arCache[n].instance
                          /\ (b \in arDoomed' \/ arStage'[arWaits[b]].stage = "shut")
    BY <1>0 DEF FailuresDoNotStick
  <2>1. CASE arCache[n].instance = i
    BY <1>0, <2>1 DEF i
  <2>2. CASE arCache[n].instance # i
    BY <1>0, <1>1, <1>3, <2>2 DEF ArInv, FailuresDoNotStick
  <2> QED BY <2>1, <2>2
<1>8. ~TakesOutHealthy
  BY <1>0 DEF ArInv, TakesOutHealthy
<1> QED BY <1>0, <1>1, <1>4, <1>5, <1>6, <1>7, <1>8 DEF ArInv

\* What goes with a failure: the failed instance, if it is still there.
LEMMA AfterFailureIs ==
    ASSUME ArInv, NEW x
    PROVE  /\ AfterFailure(x) \in Seq(ArEntries) /\ Len(AfterFailure(x)) <= Len(arCache)
           /\ \A i \in 1 .. Len(AfterFailure(x)) :
                  \E j \in 1 .. Len(arCache) : AfterFailure(x)[i] = arCache[j] /\ arCache[j].instance # x
           /\ \A j \in 1 .. Len(arCache) :
                  arCache[j].instance # x => \E i \in 1 .. Len(AfterFailure(x)) : AfterFailure(x)[i] = arCache[j]
           /\ \A i, j \in 1 .. Len(AfterFailure(x)) :
                  \/ AfterFailure(x)[i].key = AfterFailure(x)[j].key
                  \/ AfterFailure(x)[i].instance = AfterFailure(x)[j].instance
                  => i = j
<1>0. /\ arCache \in Seq(ArEntries) /\ DOMAIN arCache = 1 .. Len(arCache) /\ Len(arCache) \in Nat
      /\ \A i, j \in 1 .. Len(arCache) :
             arCache[i].key = arCache[j].key \/ arCache[i].instance = arCache[j].instance => i = j
  BY DEF ArInv, ArOnce
<1>1. CASE ArPlaces(x) = {}
  <2>1. AfterFailure(x) = arCache /\ \A j \in 1 .. Len(arCache) : arCache[j].instance # x
    BY <1>0, <1>1 DEF AfterFailure, ArWithout, ArPlaces
  <2> QED BY <1>0, <1>1, <2>1
<1>2. CASE ArPlaces(x) # {}
  <2>1. PICK n : n = CHOOSE i \in ArPlaces(x) : TRUE
    OBVIOUS
  <2>2. n \in 1 .. Len(arCache) /\ arCache[n].instance = x
    BY <1>0, <1>2, <2>1 DEF ArPlaces
  <2>3. PICK t : t = AfterFailure(x)
    OBVIOUS
  <2>4. t = SubSeq(arCache, 1, n - 1) \o SubSeq(arCache, n + 1, Len(arCache))
    BY <1>2, <2>1, <2>3 DEF AfterFailure, ArWithout
  <2>5. /\ t \in Seq(ArEntries) /\ Len(t) = Len(arCache) - 1
        /\ \A i \in 1 .. Len(t) : t[i] = IF i < n THEN arCache[i] ELSE arCache[i + 1]
    <3>1. arCache \in Seq(ArEntries) /\ n \in 1 .. Len(arCache)
      BY <1>0, <2>2
    <3> QED BY ONLY <2>4, <3>1, WithoutOne
  <2>l. PICK l \in Nat : l = Len(arCache)
    BY <1>0
  <2>6. ASSUME NEW i \in 1 .. Len(t) PROVE \E j \in 1 .. Len(arCache) : t[i] = arCache[j] /\ arCache[j].instance # x
    <3>1. CASE i < n
      <4>1. i \in 1 .. l /\ i # n /\ t[i] = arCache[i]
        BY <2>2, <2>5, <2>6, <2>l, <3>1
      <4> QED BY <1>0, <2>2, <2>l, <4>1
    <3>2. CASE ~(i < n)
      <4>1. i + 1 \in 1 .. l /\ i + 1 # n /\ t[i] = arCache[i + 1]
        BY <2>2, <2>5, <2>6, <2>l, <3>2
      <4> QED BY <1>0, <2>2, <2>l, <4>1
    <3> QED BY <3>1, <3>2
  <2>7. ASSUME NEW j \in 1 .. Len(arCache), arCache[j].instance # x PROVE \E i \in 1 .. Len(t) : t[i] = arCache[j]
    <3>0. j # n /\ j \in 1 .. l /\ n \in 1 .. l
      BY <2>2, <2>7, <2>l
    <3>1. CASE j < n
      <4>1. j \in 1 .. l - 1 /\ j \in 1 .. Len(t) /\ t[j] = arCache[j]
        BY <2>5, <2>l, <3>0, <3>1
      <4> QED BY <4>1
    <3>2. CASE j > n
      <4>1. j - 1 \in 1 .. l - 1 /\ ~(j - 1 < n) /\ (j - 1) + 1 = j
        BY <3>0, <3>2
      <4>2. t[j - 1] = arCache[j] /\ j - 1 \in 1 .. Len(t)
        BY <2>5, <2>l, <4>1
      <4> QED BY <4>2
    <3> QED BY <3>0, <3>1, <3>2
  <2>8. ASSUME NEW i \in 1 .. Len(t), NEW j \in 1 .. Len(t), t[i].key = t[j].key \/ t[i].instance = t[j].instance
        PROVE  i = j
    <3>0. \A c \in 1 .. Len(t) : \E a \in 1 .. l : t[c] = arCache[a] /\ a = IF c < n THEN c ELSE c + 1
      <4> SUFFICES ASSUME NEW c \in 1 .. Len(t)
                   PROVE  \E a \in 1 .. l : t[c] = arCache[a] /\ a = IF c < n THEN c ELSE c + 1
        OBVIOUS
      <4>1. PICK a : a = IF c < n THEN c ELSE c + 1
        OBVIOUS
      <4>2. a \in 1 .. l
        BY <2>2, <2>5, <2>l, <4>1
      <4>3. t[c] = arCache[a]
        BY <2>5, <4>1
      <4> QED BY <4>1, <4>2, <4>3
    <3>1. PICK a \in 1 .. l : t[i] = arCache[a] /\ a = IF i < n THEN i ELSE i + 1
      BY <3>0
    <3>2. PICK b \in 1 .. l : t[j] = arCache[b] /\ b = IF j < n THEN j ELSE j + 1
      BY <3>0
    <3>3. a = b
      BY <1>0, <2>8, <2>l, <3>1, <3>2
    <3> QED BY <2>2, <2>5, <2>8, <2>l, <3>1, <3>2, <3>3
  <2>9. Len(t) <= Len(arCache)
    BY <1>0, <2>5
  <2> QED BY <2>3, <2>5, <2>6, <2>7, <2>8, <2>9
<1> QED BY <1>1, <1>2

LEMMA FailKeeps ==
    ASSUME ArInv, NEW c \in TileRequests, FailRequest(c)
    PROVE  ArInv' /\ ~TakesOutHealthy
<1>0. /\ arCache \in Seq(ArEntries) /\ DOMAIN arCache = 1 .. Len(arCache) /\ Len(arCache) <= ArchiveMax
      /\ Len(arCache) \in Nat /\ ArRequests
      /\ c \in arDoomed /\ arDoomed' = arDoomed \ {c} /\ arWaits' = [arWaits EXCEPT ![c] = 0]
      /\ arStage' = arStage /\ arReadable' = arReadable
  BY DEF ArInv, FailRequest
<1>x. PICK x : x = arWaits[c] /\ x # 0 /\ arStage[x].stage \in {"broken", "shut"}
  BY <1>0 DEF ArRequests
<1>q. PICK q : q = AfterFailure(x)
  OBVIOUS
<1>1. arCache' = q
  BY <1>x, <1>q DEF FailRequest
<1>a. /\ q \in Seq(ArEntries) /\ Len(q) <= Len(arCache)
      /\ \A i \in 1 .. Len(q) : \E j \in 1 .. Len(arCache) : q[i] = arCache[j] /\ arCache[j].instance # x
      /\ \A j \in 1 .. Len(arCache) :
             arCache[j].instance # x => \E i \in 1 .. Len(q) : q[i] = arCache[j]
      /\ \A i, j \in 1 .. Len(q) : q[i].key = q[j].key \/ q[i].instance = q[j].instance => i = j
  <2>1. /\ AfterFailure(x) \in Seq(ArEntries) /\ Len(AfterFailure(x)) <= Len(arCache)
        /\ \A i \in 1 .. Len(AfterFailure(x)) :
               \E j \in 1 .. Len(arCache) : AfterFailure(x)[i] = arCache[j] /\ arCache[j].instance # x
        /\ \A j \in 1 .. Len(arCache) :
               arCache[j].instance # x => \E i \in 1 .. Len(AfterFailure(x)) : AfterFailure(x)[i] = arCache[j]
        /\ \A i, j \in 1 .. Len(AfterFailure(x)) :
               \/ AfterFailure(x)[i].key = AfterFailure(x)[j].key
               \/ AfterFailure(x)[i].instance = AfterFailure(x)[j].instance
               => i = j
    <3> HIDE <1>0, <1>x, <1>q, <1>1
    <3> QED BY ONLY ArInv, AfterFailureIs, Zenon
  <2> QED BY <1>q, <2>1
<1>2. /\ arCache' \in Seq(ArEntries) /\ Len(arCache') <= Len(arCache)
      /\ \A i \in 1 .. Len(arCache') :
             \E j \in 1 .. Len(arCache) : arCache'[i] = arCache[j] /\ arCache[j].instance # x
      /\ \A j \in 1 .. Len(arCache) :
             arCache[j].instance # x => \E i \in 1 .. Len(arCache') : arCache'[i] = arCache[j]
      /\ \A i, j \in 1 .. Len(arCache') :
             arCache'[i].key = arCache'[j].key \/ arCache'[i].instance = arCache'[j].instance => i = j
  BY <1>1, <1>a
<1>3. DOMAIN arCache' = 1 .. Len(arCache') /\ Len(arCache') \in Nat
  BY <1>2
<1>4. Len(arCache') <= ArchiveMax
  BY <1>0, <1>2, <1>3, ArBounds
<1>5. ArOnce'
  BY <1>2, <1>3 DEF ArOnce
<1>6. ArNamed'
  <2>1. ASSUME NEW a \in 1 .. Len(arCache')
        PROVE  arStage[arCache'[a].instance].stage # "none" /\ arStage[arCache'[a].instance].key = arCache'[a].key
    <3>1. PICK j \in 1 .. Len(arCache) : arCache'[a] = arCache[j]
      BY <1>2
    <3> QED BY <1>0, <3>1 DEF ArInv, ArNamed
  <2> QED BY <1>0, <1>3, <2>1 DEF ArNamed
<1>w. arWaits'[c] = 0 /\ \A b \in TileRequests \ {c} : arWaits'[b] = arWaits[b]
  BY <1>0 DEF ArRequests
<1>i. \A n \in DOMAIN arCache : arCache[n].instance # 0
  <2>1. \A n \in DOMAIN arCache : arCache[n] \in ArEntries
    BY <1>0, ElementOfSeq
  <2> QED BY <2>1, ArBounds DEF ArEntries
<1>7. ArAwaited'
  <2> SUFFICES ASSUME NEW a \in 1 .. Len(arCache'), arStage[arCache'[a].instance].stage = "opening"
               PROVE  \E b \in TileRequests : arWaits'[b] = arCache'[a].instance
    BY <1>0, <1>3 DEF ArAwaited
  <2>1. PICK j \in 1 .. Len(arCache) : arCache'[a] = arCache[j] /\ arCache[j].instance # x
    BY <1>2
  <2>2. PICK b \in TileRequests : arWaits[b] = arCache[j].instance
    BY <1>0, <2>1 DEF ArInv, ArAwaited
  <2> QED BY <1>w, <1>x, <2>1, <2>2
<1>8. ArRequests'
  BY <1>0, <1>w DEF ArRequests
<1>9. FailuresDoNotStick'
  <2> SUFFICES ASSUME NEW a \in 1 .. Len(arCache'), arStage[arCache'[a].instance].stage \in {"broken", "shut"}
               PROVE  \E b \in TileRequests : arWaits'[b] = arCache'[a].instance
                          /\ (b \in arDoomed' \/ arStage[arWaits'[b]].stage = "shut")
    BY <1>0, <1>3 DEF FailuresDoNotStick
  <2>1. PICK j \in 1 .. Len(arCache) : arCache'[a] = arCache[j] /\ arCache[j].instance # x
    BY <1>2
  <2>2. PICK b \in TileRequests : arWaits[b] = arCache[j].instance
                                  /\ (b \in arDoomed \/ arStage[arWaits[b]].stage = "shut")
    BY <1>0, <2>1 DEF ArInv, FailuresDoNotStick
  <2> QED BY <1>0, <1>w, <1>x, <2>1, <2>2
<1>10. ~TakesOutHealthy
  <2> SUFFICES ASSUME NEW n \in 1 .. Len(arCache), arStage[arCache[n].instance].stage \in {"opening", "open"}
               PROVE  \E m \in DOMAIN arCache' : arCache'[m] = arCache[n]
    BY <1>0 DEF TakesOutHealthy
  <2>1. arCache[n].instance # x
    BY <1>x
  <2> QED BY <1>2, <1>3, <2>1
<1> QED BY <1>0, <1>2, <1>4, <1>5, <1>6, <1>7, <1>8, <1>9, <1>10 DEF ArInv

LEMMA ArInitInv == ArInit => ArInv
<1> SUFFICES ASSUME ArInit PROVE ArInv
  OBVIOUS
<1> USE ArBounds DEF ArInit
<1>1. arStage \in [ArInstances -> ArStages]
  BY DEF ArStages
<1>2. ArRequests
  BY DEF ArRequests
<1>3. ArOnce /\ ArNamed /\ ArAwaited /\ FailuresDoNotStick
  BY DEF ArOnce, ArNamed, ArAwaited, FailuresDoNotStick
<1> QED BY <1>1, <1>2, <1>3 DEF ArInv

LEMMA ArStepInv == ArInv /\ [ArNext]_arVars => ArInv' /\ ~TakesOutHealthy
<1> SUFFICES ASSUME ArInv, [ArNext]_arVars PROVE ArInv' /\ ~TakesOutHealthy
  OBVIOUS
<1>0. ArRequests /\ arReadable \subseteq Archives /\ arCache \in Seq(ArEntries) /\ ArNamed
      /\ arStage \in [ArInstances -> ArStages]
  BY DEF ArInv
<1>1. CASE \E k \in Archives : ArFile(k)
  <2>1. UNCHANGED <<arCache, arStage, arWaits, arDoomed>> /\ arReadable' \subseteq Archives
    BY <1>0, <1>1 DEF ArFile
  <2>2. ArRequests'
    BY <1>0, <2>1 DEF ArRequests
  <2> QED BY <2>1, <2>2, ArSameInstances
<1>2. CASE \E c \in TileRequests, k \in Archives : JoinInstance(c, k)
  <2> PICK c \in TileRequests, k \in Archives : JoinInstance(c, k)
    BY <1>2
  <2>1. PICK n \in DOMAIN arCache : arWaits' = [arWaits EXCEPT ![c] = arCache[n].instance]
    BY DEF JoinInstance, ArHolding
  <2>2. arWaits[c] = 0 /\ UNCHANGED <<arCache, arStage, arDoomed, arReadable>>
    BY DEF JoinInstance
  <2>3. arCache[n].instance \in ArInstances /\ arStage[arCache[n].instance].stage # "none"
    <3>1. DOMAIN arCache = 1 .. Len(arCache)
      BY <1>0
    <3>2. arCache[n] \in ArEntries
      BY <1>0, <3>1, ElementOfSeq
    <3> QED BY <1>0, <3>2 DEF ArEntries, ArNamed
  <2>4. ArRequests'
    BY <1>0, <2>1, <2>2, <2>3 DEF ArRequests
  <2>5. \A b \in TileRequests : arWaits[b] # 0 => arWaits'[b] = arWaits[b]
    BY <1>0, <2>1, <2>2 DEF ArRequests
  <2> QED BY <1>0, <2>2, <2>4, <2>5, ArSameInstances
<1>3. CASE \E c \in TileRequests, k \in Archives : OpenInstance(c, k)
  BY <1>3, OpenKeeps
<1>4. CASE \E i \in ArInstances : ReadHeader(i)
  BY <1>4, HeaderKeeps
<1>5. CASE \E c \in TileRequests : LeafRead(c)
  <2> PICK c \in TileRequests : LeafRead(c)
    BY <1>5
  <2>1. /\ arWaits' = [arWaits EXCEPT ![c] = 0] /\ UNCHANGED <<arCache, arStage, arDoomed, arReadable>>
        /\ arStage[arWaits[c]].stage \in {"open", "broken"} /\ c \notin arDoomed
    BY DEF LeafRead
  <2>2. ArRequests'
    BY <1>0, <2>1 DEF ArRequests
  <2>3. \A b \in TileRequests : b # c => arWaits'[b] = arWaits[b]
    BY <1>0, <2>1 DEF ArRequests
  <2> QED BY <1>0, <2>1, <2>2, <2>3, ArSameInstances
<1>6. CASE \E c \in TileRequests : LeafFails(c)
  BY <1>6, LeafKeeps
<1>7. CASE \E c \in TileRequests : MeetRejected(c)
  <2> PICK c \in TileRequests : MeetRejected(c)
    BY <1>7
  <2>1. /\ arDoomed' = arDoomed \cup {c} /\ UNCHANGED <<arCache, arStage, arWaits, arReadable>>
        /\ arWaits[c] # 0 /\ arStage[arWaits[c]].stage \in {"broken", "shut"}
    BY DEF MeetRejected
  <2>2. ArRequests'
    BY <1>0, <2>1 DEF ArRequests
  <2> QED BY <1>0, <2>1, <2>2, ArSameInstances
<1>8. CASE \E c \in TileRequests : FailRequest(c)
  BY <1>8, FailKeeps
<1>9. CASE UNCHANGED arVars
  <2>1. UNCHANGED <<arCache, arStage, arWaits, arDoomed, arReadable>>
    BY <1>9 DEF arVars
  <2>2. ArRequests'
    BY <1>0, <2>1 DEF ArRequests
  <2> QED BY <1>0, <2>1, <2>2, ArSameInstances
<1> QED BY <1>1, <1>2, <1>3, <1>4, <1>5, <1>6, <1>7, <1>8, <1>9 DEF ArNext

LEMMA ArAlways == ArSpec => []ArInv
<1>1. ArInv /\ [ArNext]_arVars => ArInv'
  BY ArStepInv
<1> QED BY <1>1, ArInitInv, PTL DEF ArSpec

LEMMA ArInvTypes == ArInv => ArTypeOK
<1> SUFFICES ASSUME ArInv PROVE ArTypeOK
  OBVIOUS
<1>0. arCache \in Seq(ArEntries) /\ DOMAIN arCache = 1 .. Len(arCache) /\ ArOnce /\ ArNamed /\ ArRequests
      /\ Len(arCache) <= ArchiveMax /\ arReadable \subseteq Archives
  BY DEF ArInv
<1>1. \A n \in DOMAIN arCache : arCache[n].instance \in ArInstances
  <2>1. \A n \in DOMAIN arCache : arCache[n] \in ArEntries
    BY <1>0, ElementOfSeq
  <2> QED BY <2>1 DEF ArEntries
<1>2. ASSUME NEW k \in Archives PROVE Cardinality(ArHolding(k)) <= 1
  <2>1. CASE ArHolding(k) = {}
    BY <2>1, FS_EmptySet
  <2>2. CASE ArHolding(k) # {}
    <3>1. PICK n : n \in ArHolding(k)
      BY <2>2
    <3>2. ArHolding(k) = {n}
      BY <1>0, <3>1 DEF ArHolding, ArOnce
    <3> QED BY <3>2, FS_Singleton
  <2> QED BY <2>1, <2>2
<1>3. arDoomed \subseteq {c \in TileRequests : arWaits[c] # 0}
  BY <1>0 DEF ArRequests
<1> QED BY <1>0, <1>1, <1>2, <1>3 DEF ArTypeOK, ArNamed, ArRequests

\* The archive cache stays within its limit, an archive is in it once, and
\* every entry is the instance of its own archive (heatmap-pmtiles.ts).
THEOREM ArchiveTypesHold == ArSpec => []ArTypeOK
BY ArAlways, ArInvTypes, PTL

\* No failure takes a sound instance from those who share it: the catch of a
\* failed request deletes only the very promise it awaited (readHeatmapTile).
THEOREM OnlyTheFailedGo == ArSpec => OnlyFailedGo
<1>1. ArInv /\ [ArNext]_arVars => [~TakesOutHealthy]_arVars
  BY ArStepInv
<1> QED BY <1>1, ArAlways, PTL DEF ArSpec, OnlyFailedGo

-----------------------------------------------------------------------------
(* The raster tiles: their inductive invariant.  Rasters are counted as    *)
(* the tiles that are held, since a tile is in the cache once; and the     *)
(* cells of the one load are final when it is loaded, which is the only    *)
(* time a tile of walls is drawn.                                          *)

SourceTiles == LandTiles \cup SeaTiles
RtOnce == \A m, n \in DOMAIN rtCache : rtCache[m] = rtCache[n] => m = n
HeldTiles == {t \in LandTiles : \E n \in 1 .. Len(rtCache) : rtCache[n] = t}

RtTilesInv ==
    /\ rtCache \in Seq(SourceTiles) /\ RtOnce
    /\ rtReads \in [TileReads -> LandTiles \cup {NoTile}]
    /\ Cardinality(HeldTiles) + Cardinality(ReadsUnderWay) <= MaxTiles - 1 + Cardinality(TileReads)

RtWallsInv ==
    /\ rtLoad \in {"none", "loading", "loaded", "failed"}
    /\ rtFound \cup rtSkipped \subseteq WallCells
    /\ rtLoad = "loaded" => WallCells \subseteq rtFound \cup rtSkipped
    /\ rtPng \subseteq {rtFound}
    /\ rtPng # {} => rtLoad = "loaded"

RtInv == RtTilesInv /\ RtWallsInv /\ rtWaits \subseteq TileReads \ ReadsUnderWay

\* A tile is in the cache once: as many tiles are held as places hold a raster.
LEMMA HeldIs ==
    rtCache \in Seq(SourceTiles) /\ RtOnce =>
        /\ IsFiniteSet(HeldTiles)
        /\ Cardinality(HeldTiles) = RastersHeld
        /\ Cardinality(HeldTiles) \in Nat
        /\ Cardinality(HeldTiles) <= Len(rtCache)
<1> SUFFICES ASSUME rtCache \in Seq(SourceTiles), RtOnce
             PROVE  /\ IsFiniteSet(HeldTiles)
                    /\ Cardinality(HeldTiles) = RastersHeld
                    /\ Cardinality(HeldTiles) \in Nat
                    /\ Cardinality(HeldTiles) <= Len(rtCache)
  OBVIOUS
<1>1. DOMAIN rtCache = 1 .. Len(rtCache) /\ Len(rtCache) \in Nat
  OBVIOUS
<1> DEFINE I == {n \in DOMAIN rtCache : rtCache[n] \in LandTiles}
           f == [n \in I |-> rtCache[n]]
<1>2. IsFiniteSet(1 .. Len(rtCache)) /\ Cardinality(1 .. Len(rtCache)) = Len(rtCache)
  <2>1. PICK l \in Nat : l = Len(rtCache)
    BY <1>1
  <2>2. IsFiniteSet(1 .. l) /\ Cardinality(1 .. l) = IF 1 > l THEN 0 ELSE l - 1 + 1
    BY FS_Interval
  <2> QED BY <2>1, <2>2
<1>3. I \in SUBSET (1 .. Len(rtCache))
  BY <1>1
<1>4. IsFiniteSet(I) /\ Cardinality(I) <= Len(rtCache)
  <2> HIDE DEF I
  <2> QED BY <1>2, <1>3, FS_Subset
<1>5. f \in [I -> HeldTiles]
  BY <1>1 DEF HeldTiles
<1>6. \A a, b \in I : f[a] = f[b] => a = b
  BY DEF RtOnce
<1>7. \A t \in HeldTiles : \E n \in I : f[n] = t
  BY <1>1 DEF HeldTiles
<1>8. Cardinality(I) = RastersHeld
  BY DEF RastersHeld
<1> HIDE DEF I, f
<1>9. ExistsBijection(I, HeldTiles)
  BY <1>5, <1>6, <1>7, Fun_IsBij DEF ExistsBijection
<1>10. IsFiniteSet(HeldTiles) /\ Cardinality(HeldTiles) = Cardinality(I)
  BY <1>4, <1>9, FS_Bijection
<1>11. Cardinality(HeldTiles) \in Nat
  BY <1>10, FS_CardinalityType
<1> QED BY <1>4, <1>8, <1>10, <1>11

LEMMA HeldIsNext ==
    (rtCache \in Seq(SourceTiles) /\ RtOnce)' => (Cardinality(HeldTiles) \in Nat /\ Cardinality(HeldTiles) <= Len(rtCache))'
  BY HeldIs, PTL

\* Reads under way are some of the reads there are.
LEMMA ReadsCounted ==
    ASSUME rtReads \in [TileReads -> LandTiles \cup {NoTile}]
    PROVE  /\ IsFiniteSet(ReadsUnderWay)
           /\ Cardinality(ReadsUnderWay) \in Nat
           /\ Cardinality(ReadsUnderWay) <= Cardinality(TileReads)
           /\ Cardinality(TileReads) \in Nat
<1>1. ReadsUnderWay \in SUBSET TileReads
  BY DEF ReadsUnderWay
<1> QED BY <1>1, RasterAssumption, FS_Subset, FS_CardinalityType

\* A read that ends is one less under way.
LEMMA ReadEnds ==
    ASSUME rtReads \in [TileReads -> LandTiles \cup {NoTile}], NEW c \in ReadsUnderWay,
           rtReads' = [rtReads EXCEPT ![c] = NoTile]
    PROVE  /\ ReadsUnderWay' = ReadsUnderWay \ {c}
           /\ Cardinality(ReadsUnderWay') = Cardinality(ReadsUnderWay) - 1
           /\ rtReads' \in [TileReads -> LandTiles \cup {NoTile}]
<1>1. ReadsUnderWay' = ReadsUnderWay \ {c}
  BY DEF ReadsUnderWay
<1>2. Cardinality(ReadsUnderWay \ {c}) = Cardinality(ReadsUnderWay) - 1
  BY ReadsCounted, FS_RemoveElement
<1> QED BY <1>1, <1>2

LEMMA PromoteKeeps ==
    ASSUME RtInv, NEW c, NEW t \in SourceTiles, PromoteTile(c, t)
    PROVE  RtTilesInv'
<1>0. /\ rtCache \in Seq(SourceTiles) /\ DOMAIN rtCache = 1 .. Len(rtCache) /\ Len(rtCache) \in Nat
      /\ \A i, j \in 1 .. Len(rtCache) : rtCache[i] = rtCache[j] => i = j
      /\ rtReads' = rtReads
  BY DEF RtInv, RtTilesInv, RtOnce, PromoteTile
<1>1. PICK n \in 1 .. Len(rtCache) :
          /\ rtCache[n] = t
          /\ rtCache' = Append(SubSeq(rtCache, 1, n - 1) \o SubSeq(rtCache, n + 1, Len(rtCache)), t)
  BY <1>0 DEF PromoteTile
<1>2. PICK q : q = SubSeq(rtCache, 1, n - 1) \o SubSeq(rtCache, n + 1, Len(rtCache))
  OBVIOUS
<1>3. /\ q \in Seq(SourceTiles) /\ Len(q) = Len(rtCache) - 1
      /\ \A i \in 1 .. Len(q) : q[i] = IF i < n THEN rtCache[i] ELSE rtCache[i + 1]
  <2>1. rtCache \in Seq(SourceTiles) /\ n \in 1 .. Len(rtCache)
    BY <1>0
  <2> HIDE DEF SourceTiles
  <2> QED BY <1>2, <2>1, WithoutOne
<1>l. PICK l \in Nat : l = Len(rtCache)
  BY <1>0
<1>4. rtCache' = Append(q, t)
  BY <1>1, <1>2
<1> HIDE DEF SourceTiles
<1>5. /\ rtCache' \in Seq(SourceTiles) /\ Len(rtCache') = l /\ rtCache'[l] = t
      /\ \A i \in 1 .. l - 1 : rtCache'[i] = IF i < n THEN rtCache[i] ELSE rtCache[i + 1]
  <2>1. Append(q, t) \in Seq(SourceTiles) /\ Len(Append(q, t)) = Len(q) + 1
        /\ (\A i \in 1 .. Len(q) : Append(q, t)[i] = q[i]) /\ Append(q, t)[Len(q) + 1] = t
    BY <1>3, AppendProperties
  <2>2. Len(q) = l - 1 /\ Len(q) + 1 = l
    BY <1>3, <1>l
  <2> QED BY <1>3, <1>4, <2>1, <2>2
\* Where each entry of the new cache was in the old one.
<1>6. \A i \in 1 .. l : \E j \in 1 .. l : rtCache'[i] = rtCache[j]
                            /\ j = IF i = l THEN n ELSE IF i < n THEN i ELSE i + 1
  <2> SUFFICES ASSUME NEW i \in 1 .. l
               PROVE  \E j \in 1 .. l : rtCache'[i] = rtCache[j]
                          /\ j = IF i = l THEN n ELSE IF i < n THEN i ELSE i + 1
    OBVIOUS
  <2>1. CASE i = l
    BY <1>1, <1>5, <1>l, <2>1
  <2>2. CASE i # l
    <3>1. i \in 1 .. l - 1 /\ n \in 1 .. l /\ i \in 1 .. l /\ i + 1 \in 1 .. l
      BY <1>l, <2>2
    <3>2. CASE i < n
      <4>1. rtCache'[i] = rtCache[i]
        BY <1>5, <3>1, <3>2
      <4> QED BY <2>2, <3>1, <3>2, <4>1
    <3>3. CASE ~(i < n)
      <4>1. rtCache'[i] = rtCache[i + 1]
        BY <1>5, <3>1, <3>3
      <4> QED BY <2>2, <3>1, <3>3, <4>1
    <3> QED BY <3>2, <3>3
  <2> QED BY <2>1, <2>2
<1>7. ASSUME NEW i \in 1 .. l, NEW j \in 1 .. l, rtCache'[i] = rtCache'[j] PROVE i = j
  <2>1. PICK a \in 1 .. l : rtCache'[i] = rtCache[a] /\ a = IF i = l THEN n ELSE IF i < n THEN i ELSE i + 1
    BY <1>6
  <2>2. PICK b \in 1 .. l : rtCache'[j] = rtCache[b] /\ b = IF j = l THEN n ELSE IF j < n THEN j ELSE j + 1
    BY <1>6
  <2>3. a = b
    BY <1>0, <1>7, <1>l, <2>1, <2>2
  <2> QED BY <1>1, <1>l, <2>1, <2>2, <2>3
<1>8. RtOnce'
  <2>1. DOMAIN rtCache' = 1 .. l
    BY <1>5
  <2> QED BY <1>7, <2>1 DEF RtOnce
<1>9. \A j \in 1 .. l : \E i \in 1 .. l : rtCache'[i] = rtCache[j]
  <2> SUFFICES ASSUME NEW j \in 1 .. l PROVE \E i \in 1 .. l : rtCache'[i] = rtCache[j]
    OBVIOUS
  <2>0. n \in 1 .. l
    BY <1>l
  <2>1. CASE j = n
    <3>1. rtCache'[l] = rtCache[j]
      BY <1>1, <1>5, <2>1
    <3>2. l \in 1 .. l
      BY <2>0
    <3> QED BY <3>1, <3>2
  <2>2. CASE j < n
    <3>1. j \in 1 .. l - 1
      BY <2>0, <2>2
    <3> QED BY <1>5, <2>2, <3>1
  <2>3. CASE j > n
    <3>1. j - 1 \in 1 .. l - 1 /\ ~(j - 1 < n) /\ (j - 1) + 1 = j /\ j - 1 \in 1 .. l
      BY <2>0, <2>3
    <3>2. rtCache'[j - 1] = rtCache[j]
      BY <1>5, <3>1
    <3> QED BY <3>1, <3>2
  <2> QED BY <2>0, <2>1, <2>2, <2>3
<1>10. HeldTiles' = HeldTiles
  <2>1. \A i \in 1 .. l : \E j \in 1 .. l : rtCache'[i] = rtCache[j]
    BY <1>6
  <2> QED BY <1>5, <1>9, <1>l, <2>1 DEF HeldTiles
<1>11. ReadsUnderWay' = ReadsUnderWay
  BY <1>0 DEF ReadsUnderWay
<1> QED BY <1>0, <1>5, <1>8, <1>10, <1>11 DEF RtInv, RtTilesInv

\* Appending a tile that is not in the cache.
LEMMA AppendedTile ==
    ASSUME RtTilesInv, NEW t \in SourceTiles, ~InCache(t), rtCache' = Append(rtCache, t)
    PROVE  /\ rtCache' \in Seq(SourceTiles)
           /\ RtOnce'
           /\ HeldTiles' = IF t \in LandTiles THEN HeldTiles \cup {t} ELSE HeldTiles
<1>0. /\ rtCache \in Seq(SourceTiles) /\ DOMAIN rtCache = 1 .. Len(rtCache) /\ Len(rtCache) \in Nat
      /\ \A i, j \in 1 .. Len(rtCache) : rtCache[i] = rtCache[j] => i = j
  BY DEF RtTilesInv, RtOnce
<1>l. PICK l \in Nat : l = Len(rtCache)
  BY <1>0
<1> HIDE DEF SourceTiles
<1>1. /\ rtCache' \in Seq(SourceTiles) /\ Len(rtCache') = l + 1 /\ rtCache'[l + 1] = t
      /\ \A i \in 1 .. l : rtCache'[i] = rtCache[i]
  BY <1>0, <1>l, AppendProperties
<1>2. \A i \in 1 .. l : rtCache[i] # t
  BY <1>0, <1>l DEF InCache
<1>3. DOMAIN rtCache' = 1 .. l + 1
  BY <1>1
<1>4. \A i \in 1 .. l + 1 : i = l + 1 \/ i \in 1 .. l
  OBVIOUS
<1>5. RtOnce'
  BY <1>0, <1>1, <1>2, <1>3, <1>4, <1>l DEF RtOnce
<1>6. \A x : (\E n \in 1 .. Len(rtCache') : rtCache'[n] = x) <=> x = t \/ \E n \in 1 .. Len(rtCache) : rtCache[n] = x
  <2> SUFFICES ASSUME NEW x
               PROVE  (\E n \in 1 .. Len(rtCache') : rtCache'[n] = x) <=> x = t \/ \E n \in 1 .. Len(rtCache) : rtCache[n] = x
    OBVIOUS
  <2>1. ASSUME NEW n \in 1 .. l + 1, rtCache'[n] = x PROVE x = t \/ \E m \in 1 .. l : rtCache[m] = x
    BY <1>1, <1>4, <2>1
  <2>2. ASSUME NEW m \in 1 .. l, rtCache[m] = x PROVE \E n \in 1 .. l + 1 : rtCache'[n] = x
    <3>1. m \in 1 .. l + 1 /\ rtCache'[m] = x
      BY <1>1, <2>2
    <3> QED BY <3>1
  <2>3. l + 1 \in 1 .. l + 1
    OBVIOUS
  <2> QED BY <1>1, <1>l, <2>1, <2>2, <2>3
<1>7. HeldTiles' = IF t \in LandTiles THEN HeldTiles \cup {t} ELSE HeldTiles
  BY <1>6 DEF HeldTiles
<1> QED BY <1>1, <1>5, <1>7

LEMMA AbsenceKeeps ==
    ASSUME RtInv, NEW c, NEW t, CacheAbsence(c, t)
    PROVE  RtTilesInv'
<1>1. /\ t \in SeaTiles /\ ~InCache(t) /\ rtCache' = Append(rtCache, t) /\ rtReads' = rtReads
      /\ RtTilesInv /\ t \in SourceTiles /\ t \notin LandTiles
  BY RasterAssumption DEF CacheAbsence, RtInv, SourceTiles
<1>2. rtCache' \in Seq(SourceTiles) /\ RtOnce' /\ HeldTiles' = HeldTiles
  BY <1>1, AppendedTile
<1>3. ReadsUnderWay' = ReadsUnderWay
  BY <1>1 DEF ReadsUnderWay
<1> QED BY <1>1, <1>2, <1>3 DEF RtTilesInv

\* Room is made: what is left is the newest of the cache.
LEMMA EvictedIs ==
    ASSUME RtTilesInv, rtCache' = EvictIfNeeded
    PROVE  rtCache' \in Seq(SourceTiles) /\ RtOnce' /\ Len(rtCache') <= MaxTiles - 1
<1>0. /\ rtCache \in Seq(SourceTiles) /\ DOMAIN rtCache = 1 .. Len(rtCache) /\ Len(rtCache) \in Nat
      /\ \A i, j \in 1 .. Len(rtCache) : rtCache[i] = rtCache[j] => i = j
      /\ MaxTiles \in Nat \ {0}
  BY RasterAssumption DEF RtTilesInv, RtOnce
<1>l. PICK l \in Nat : l = Len(rtCache)
  BY <1>0
<1>m. PICK m \in Nat : m = MaxTiles - 1
  BY <1>0
<1>1. CASE l > m
  <2>1. rtCache' = SubSeq(rtCache, l - m + 1, l)
    BY <1>1, <1>l, <1>m DEF EvictIfNeeded, Newest
  <2>2. PICK d \in 0 .. l : d = l - m
    BY <1>1
  <2>3. rtCache' = SubSeq(rtCache, d + 1, Len(rtCache)) /\ d \in 0 .. Len(rtCache)
    BY <1>l, <2>1, <2>2
  <2>4. /\ rtCache' \in Seq(SourceTiles) /\ Len(rtCache') = Len(rtCache) - d
        /\ \A i \in 1 .. Len(rtCache) - d : rtCache'[i] = rtCache[i + d]
    <3>1. rtCache \in Seq(SourceTiles) /\ d \in 0 .. Len(rtCache)
      BY <1>0, <2>3
    <3> HIDE DEF SourceTiles
    <3>2. /\ SubSeq(rtCache, d + 1, Len(rtCache)) \in Seq(SourceTiles)
          /\ Len(SubSeq(rtCache, d + 1, Len(rtCache))) = Len(rtCache) - d
          /\ \A i \in 1 .. Len(rtCache) - d : SubSeq(rtCache, d + 1, Len(rtCache))[i] = rtCache[i + d]
      BY <3>1, WithoutFirst
    <3> QED BY <2>3, <3>2
  <2>5. Len(rtCache') = m /\ DOMAIN rtCache' = 1 .. m /\ \A i \in 1 .. m : rtCache'[i] = rtCache[i + d]
    BY <1>1, <1>l, <2>2, <2>4
  <2>6. \A i \in 1 .. m : i + d \in 1 .. l
    BY <2>2
  <2>7. RtOnce'
    BY <1>0, <1>l, <2>5, <2>6 DEF RtOnce
  <2> QED BY <1>m, <2>4, <2>5, <2>7
<1>2. CASE ~(l > m)
  <2>1. rtCache' = rtCache
    BY <1>2, <1>l, <1>m DEF EvictIfNeeded, Newest
  <2>2. RtOnce'
    BY <1>0, <2>1 DEF RtOnce
  <2> QED BY <1>0, <1>2, <1>l, <1>m, <2>1, <2>2
<1> QED BY <1>1, <1>2

LEMMA BeginKeeps ==
    ASSUME RtInv, NEW c \in TileReads, NEW t, BeginRead(c, t)
    PROVE  RtTilesInv'
<1>1. /\ rtCache' = EvictIfNeeded /\ rtReads' = [rtReads EXCEPT ![c] = t] /\ t \in LandTiles
      /\ RtTilesInv /\ rtReads \in [TileReads -> LandTiles \cup {NoTile}]
  BY DEF BeginRead, RtInv, RtTilesInv
<1>2. rtCache' \in Seq(SourceTiles) /\ RtOnce' /\ Len(rtCache') <= MaxTiles - 1
  BY <1>1, EvictedIs
<1>3. rtReads' \in [TileReads -> LandTiles \cup {NoTile}]
  BY <1>1
<1>4. Cardinality(HeldTiles') \in Nat /\ Cardinality(HeldTiles') <= Len(rtCache')
  BY <1>2, HeldIsNext
<1>5. ReadsUnderWay' \in SUBSET TileReads
  BY <1>3 DEF ReadsUnderWay
<1>6. Cardinality(ReadsUnderWay') \in Nat /\ Cardinality(ReadsUnderWay') <= Cardinality(TileReads)
      /\ Cardinality(TileReads) \in Nat
  BY <1>5, RasterAssumption, FS_Subset, FS_CardinalityType
<1>7. Cardinality(HeldTiles') + Cardinality(ReadsUnderWay') <= MaxTiles - 1 + Cardinality(TileReads)
  <2>1. PICK h \in Nat : h = Cardinality(HeldTiles')
    BY <1>4
  <2>2. PICK u \in Nat : u = Cardinality(ReadsUnderWay')
    BY <1>6
  <2>3. PICK l \in Nat : l = Len(rtCache')
    BY <1>2
  <2> QED BY <1>2, <1>4, <1>6, <2>1, <2>2, <2>3, RasterAssumption
<1> QED BY <1>2, <1>3, <1>7 DEF RtTilesInv

LEMMA ArriveKeeps ==
    ASSUME RtInv, NEW c, ReadArrives(c) \/ ReadFails(c)
    PROVE  RtTilesInv' /\ ReadsUnderWay' \subseteq ReadsUnderWay
<1>0. /\ RtTilesInv /\ rtReads \in [TileReads -> LandTiles \cup {NoTile}] /\ c \in ReadsUnderWay
      /\ rtReads' = [rtReads EXCEPT ![c] = NoTile]
  BY DEF RtInv, RtTilesInv, ReadArrives, ReadFails
<1>1. /\ ReadsUnderWay' = ReadsUnderWay \ {c}
      /\ Cardinality(ReadsUnderWay') = Cardinality(ReadsUnderWay) - 1
      /\ rtReads' \in [TileReads -> LandTiles \cup {NoTile}]
  BY <1>0, ReadEnds
<1>2. PICK t : t = rtReads[c]
  OBVIOUS
<1>3. t \in LandTiles
  BY <1>0, <1>2 DEF ReadsUnderWay
<1>4. /\ IsFiniteSet(HeldTiles) /\ Cardinality(HeldTiles) \in Nat
      /\ Cardinality(HeldTiles) + Cardinality(ReadsUnderWay) <= MaxTiles - 1 + Cardinality(TileReads)
  BY <1>0, HeldIs DEF RtTilesInv
<1>5. /\ Cardinality(ReadsUnderWay) \in Nat /\ Cardinality(TileReads) \in Nat
  BY <1>0, ReadsCounted
<1>6. CASE rtCache' = Append(rtCache, t) /\ ~InCache(t)
  <2>1. /\ rtCache' \in Seq(SourceTiles) /\ RtOnce'
        /\ HeldTiles' = HeldTiles \cup {t}
    <3>1. t \in SourceTiles
      BY <1>3 DEF SourceTiles
    <3> QED BY <1>0, <1>3, <1>6, <3>1, AppendedTile
  <2>2. Cardinality(HeldTiles \cup {t}) <= Cardinality(HeldTiles) + 1 /\ Cardinality(HeldTiles \cup {t}) \in Nat
    BY <1>4, FS_AddElement
  <2>3. Cardinality(HeldTiles') + Cardinality(ReadsUnderWay') <= MaxTiles - 1 + Cardinality(TileReads)
    BY <1>1, <1>4, <1>5, <2>1, <2>2, RasterAssumption
  <2> QED BY <1>1, <2>1, <2>3 DEF RtTilesInv
<1>7. CASE rtCache' = rtCache
  <2>1. rtCache' \in Seq(SourceTiles) /\ RtOnce' /\ HeldTiles' = HeldTiles
    BY <1>0, <1>7 DEF RtTilesInv, RtOnce, HeldTiles
  <2>2. Cardinality(HeldTiles') + Cardinality(ReadsUnderWay') <= MaxTiles - 1 + Cardinality(TileReads)
    BY <1>1, <1>4, <1>5, <2>1, RasterAssumption
  <2> QED BY <1>1, <2>1, <2>2 DEF RtTilesInv
<1> QED BY <1>1, <1>2, <1>6, <1>7 DEF ReadArrives, ReadFails

\* The tiles and the walls are each left alone by the other's steps.
LEMMA SameTiles ==
    ASSUME RtTilesInv, UNCHANGED rtTiles
    PROVE  RtTilesInv' /\ ReadsUnderWay' = ReadsUnderWay
  BY DEF RtTilesInv, RtOnce, HeldTiles, ReadsUnderWay, rtTiles

LEMMA WallsKeep ==
    ASSUME RtWallsInv,
           \/ PreloadBarriers \/ WallsLoaded \/ WallsFail \/ ForgetPng \/ (\E w \in WallCells : LoadCell(w))
           \/ \E c \in TileReads : AskWalls(c) \/ DrawWalls(c) \/ FailWalls(c)
    PROVE  RtWallsInv' /\ UNCHANGED rtTiles
<1> USE DEF RtWallsInv
<1>1. CASE PreloadBarriers
  BY <1>1 DEF PreloadBarriers
<1>2. CASE WallsLoaded
  BY <1>2 DEF WallsLoaded
<1>3. CASE WallsFail
  BY <1>3 DEF WallsFail
<1>4. CASE ForgetPng
  BY <1>4 DEF ForgetPng
<1>5. CASE \E w \in WallCells : LoadCell(w)
  BY <1>5 DEF LoadCell
<1>6. CASE \E c \in TileReads : AskWalls(c)
  BY <1>6 DEF AskWalls
<1>7. CASE \E c \in TileReads : DrawWalls(c)
  BY <1>7 DEF DrawWalls, MayDraw
<1>8. CASE \E c \in TileReads : FailWalls(c)
  BY <1>8 DEF FailWalls
<1> QED BY <1>1, <1>2, <1>3, <1>4, <1>5, <1>6, <1>7, <1>8

LEMMA RtInitInv == RtInit => RtInv
<1> SUFFICES ASSUME RtInit PROVE RtInv
  OBVIOUS
<1> USE DEF RtInit
<1>1. rtCache \in Seq(SourceTiles) /\ RtOnce /\ HeldTiles = {}
  BY DEF RtOnce, HeldTiles
<1>2. rtReads \in [TileReads -> LandTiles \cup {NoTile}] /\ ReadsUnderWay = {}
  BY DEF ReadsUnderWay
<1>3. Cardinality(HeldTiles) = 0 /\ Cardinality(ReadsUnderWay) = 0 /\ Cardinality(TileReads) \in Nat
  BY <1>1, <1>2, FS_EmptySet, FS_CardinalityType, RasterAssumption
<1>4. Cardinality(HeldTiles) + Cardinality(ReadsUnderWay) <= MaxTiles - 1 + Cardinality(TileReads)
  BY <1>3, RasterAssumption
<1>5. RtWallsInv
  BY DEF RtWallsInv
<1> QED BY <1>1, <1>2, <1>4, <1>5 DEF RtInv, RtTilesInv

LEMMA RtStepInv == RtInv /\ [RtNext]_rtVars => RtInv'
<1> SUFFICES ASSUME RtInv, [RtNext]_rtVars PROVE RtInv'
  OBVIOUS
<1>0. RtTilesInv /\ RtWallsInv /\ rtWaits \subseteq TileReads \ ReadsUnderWay
      /\ rtReads \in [TileReads -> LandTiles \cup {NoTile}]
  BY DEF RtInv, RtTilesInv
<1>1. CASE \E c \in TileReads, t \in LandTiles \cup SeaTiles : PromoteTile(c, t) \/ CacheAbsence(c, t)
  <2> PICK c \in TileReads, t \in LandTiles \cup SeaTiles : PromoteTile(c, t) \/ CacheAbsence(c, t)
    BY <1>1
  <2>1. RtTilesInv'
    BY PromoteKeeps, AbsenceKeeps DEF SourceTiles
  <2>2. UNCHANGED <<rtReads, rtLoad, rtFound, rtSkipped, rtWaits, rtPng>>
    BY DEF PromoteTile, CacheAbsence, rtWalls
  <2> QED BY <1>0, <2>1, <2>2 DEF RtInv, RtWallsInv, ReadsUnderWay
<1>2. CASE \E c \in TileReads, t \in LandTiles \cup SeaTiles : BeginRead(c, t)
  <2> PICK c \in TileReads, t \in LandTiles \cup SeaTiles : BeginRead(c, t)
    BY <1>2
  <2>1. RtTilesInv'
    BY BeginKeeps
  <2>2. UNCHANGED <<rtLoad, rtFound, rtSkipped, rtWaits, rtPng>> /\ rtReads' = [rtReads EXCEPT ![c] = t]
        /\ c \notin rtWaits
    BY DEF BeginRead, rtWalls, AtRest
  <2>3. rtWaits' \subseteq TileReads \ ReadsUnderWay'
    BY <1>0, <2>2 DEF ReadsUnderWay
  <2> QED BY <1>0, <2>1, <2>2, <2>3 DEF RtInv, RtWallsInv
<1>3. CASE \E c \in TileReads : ReadArrives(c) \/ ReadFails(c)
  <2> PICK c \in TileReads : ReadArrives(c) \/ ReadFails(c)
    BY <1>3
  <2>1. RtTilesInv' /\ ReadsUnderWay' \subseteq ReadsUnderWay
    BY ArriveKeeps
  <2>2. UNCHANGED <<rtLoad, rtFound, rtSkipped, rtWaits, rtPng>>
    BY DEF ReadArrives, ReadFails, rtWalls
  <2> QED BY <1>0, <2>1, <2>2 DEF RtInv, RtWallsInv
<1>4. CASE \/ PreloadBarriers \/ WallsLoaded \/ WallsFail \/ ForgetPng \/ (\E w \in WallCells : LoadCell(w))
           \/ \E c \in TileReads : AskWalls(c) \/ DrawWalls(c) \/ FailWalls(c)
  <2>1. RtWallsInv' /\ UNCHANGED rtTiles
    BY <1>0, <1>4, WallsKeep
  <2>2. RtTilesInv' /\ ReadsUnderWay' = ReadsUnderWay
    BY <1>0, <2>1, SameTiles
  <2>3. rtWaits' \subseteq TileReads \ ReadsUnderWay
    BY <1>0, <1>4 DEF PreloadBarriers, WallsLoaded, WallsFail, ForgetPng, LoadCell, AskWalls, DrawWalls,
                      FailWalls, AtRest
  <2> QED BY <2>1, <2>2, <2>3 DEF RtInv
<1>5. CASE UNCHANGED rtVars
  <2>1. UNCHANGED rtTiles /\ UNCHANGED <<rtLoad, rtFound, rtSkipped, rtWaits, rtPng>>
    BY <1>5 DEF rtVars, rtTiles
  <2>2. RtTilesInv' /\ ReadsUnderWay' = ReadsUnderWay
    BY <1>0, <2>1, SameTiles
  <2> QED BY <1>0, <2>1, <2>2 DEF RtInv, RtWallsInv
<1> QED BY <1>1, <1>2, <1>3, <1>4, <1>5 DEF RtNext

LEMMA RtAlways == RtSpec => []RtInv
BY RtInitInv, RtStepInv, PTL DEF RtSpec

LEMMA RtInvTypes == RtInv => RtTypeOK
<1> SUFFICES ASSUME RtInv PROVE RtTypeOK
  OBVIOUS
<1>1. rtCache \in Seq(SourceTiles) /\ DOMAIN rtCache = 1 .. Len(rtCache)
  BY DEF RtInv, RtTilesInv
<1>2. \A n \in DOMAIN rtCache : rtCache[n] \in LandTiles \cup SeaTiles
  BY <1>1, ElementOfSeq DEF SourceTiles
<1>3. rtPng \subseteq SUBSET WallCells
  BY DEF RtInv, RtWallsInv
<1> QED BY <1>2, <1>3 DEF RtInv, RtTilesInv, RtWallsInv, RtOnce, RtTypeOK

LEMMA RtInvBounds == RtInv => RastersAreBounded
BY HeldIs DEF RtInv, RtTilesInv, RastersAreBounded

LEMMA RtInvWalls == RtInv => NoWallsLost
BY DEF RtInv, RtWallsInv, NoWallsLost

\* The rendered walls are drawn from every cell that could be read, and the
\* rasters in memory and on their way are bounded by the cache's limit and the
\* reads in progress (readSourceTile, renderBarrierTile).
THEOREM RastersAlwaysBounded == RtSpec => [](RtTypeOK /\ RastersAreBounded /\ NoWallsLost)
BY RtAlways, RtInvTypes, RtInvBounds, RtInvWalls, PTL

-----------------------------------------------------------------------------
(* Readiness: its inductive invariant.  A reader knows every pin that was  *)
(* current since it began, and so what it opened, joins or meets is one of *)
(* them; whatever a cache still counts as good was in order at most as     *)
(* long ago as the cache is old, and the check adds what it took.          *)

ReaderStates == [pc : {"idle", "open", "stat", "load"}, got : {"none", "missing", "error", "manifest"},
                 key : PinKeys \cup {NoKey}, again : BOOLEAN, seen : SUBSET (0 .. MaxPins),
                 spoiled : BOOLEAN]
LoadStages == {"none", "validate", "stat", "done", "changed", "failed"}
Checks == [pc : {"idle", "files", "engine", "probe"}, left : SUBSET (FileParts \cup {"pmtiles"}),
           failed : SUBSET (FileParts \cup {"pmtiles", "engine"}), span : 0 .. MaxSpan,
           spoiled : SUBSET AllParts]

WorldTypes ==
    /\ rdPin \in 0 .. MaxPins /\ rdLast \in 1 .. MaxPins /\ rdPin <= rdLast
    /\ rdGood \subseteq 1 .. rdLast
    /\ rdUp \subseteq FileParts \cup {"worker"}
    /\ rdBreaks \in 0 .. MaxEvents
ManifestTypes ==
    /\ rdRead \in [Readers -> ReaderStates]
    /\ rdLoads \in [PinKeys -> LoadStages]
    /\ rdCache \in [key : PinKeys \cup {NoKey}, age : 0 .. PinCache]
CheckTypes ==
    /\ rdCheck \in Checks
    /\ rdAsk \subseteq Monitors
    /\ rdAsk # {} <=> rdCheck.pc # "idle"
    /\ rdFs \in 0 .. FsCache /\ rdEngine \in 0 .. EngineCache /\ rdRetry \in 0 .. EngineRetry
    /\ rdOkAge \in [AllParts -> Nat]
    /\ \A c \in AllParts : rdOkAge[c] <= AgeMax(c)

\* What a reader has seen of the pins.
HasSeen(r) ==
    /\ rdPin \in rdRead[r].seen
    /\ rdRead[r].seen \subseteq 0 .. rdPin
    /\ rdRead[r].pc \in {"stat", "load"} => rdRead[r].key \in PinKeys /\ rdRead[r].key[1] \in rdRead[r].seen
    /\ rdRead[r].pc = "load" => rdLoads[rdRead[r].key] # "none"
    /\ rdRead[r].again =>
          \E u \in rdRead[r].seen : u < IF rdRead[r].pc = "open" THEN rdPin ELSE rdRead[r].key[1]
\* What would excuse an error.
HasExcuse(r) ==
    /\ \A v \in rdRead[r].seen : v \notin rdGood => rdRead[r].spoiled
    /\ \A k \in PinKeys : rdLoads[k] = "failed" /\ k[1] \in rdRead[r].seen => rdRead[r].spoiled
ReadersInv == \A r \in Readers : rdRead[r].pc # "idle" => HasSeen(r) /\ HasExcuse(r)

PmAge == rdOkAge["pmtiles"]
LoadsInv ==
    \A k \in PinKeys :
        /\ rdLoads[k] # "none" => k[1] <= rdPin /\ (k[2] \/ k[1] < rdPin)
        /\ rdLoads[k] = "changed" => k[2] /\ k[1] < rdPin
        /\ rdLoads[k] \in {"stat", "done"} => k[1] \in rdGood \/ PmAge = 0
PinCacheInv == rdCache.age < PinCache => rdCache.key[1] \in rdGood \/ PmAge <= rdCache.age

\* The readiness check reads the manifest while it waits for the files.
CheckerInv ==
    /\ rdRead[Checker].pc # "idle" =>
          /\ rdCheck.pc = "files" /\ "pmtiles" \in rdCheck.left
          /\ \A v \in rdRead[Checker].seen : v \in rdGood => PmAge <= rdCheck.span
    /\ rdCheck.pc = "files" /\ "pmtiles" \in rdCheck.left /\ rdRead[Checker].pc = "idle"
          /\ rdRead[Checker].got = "manifest" => PmAge <= PinCache - 1 + rdCheck.span
FilesInv ==
    rdCheck.pc = "files" =>
        /\ "pmtiles" \notin rdCheck.left \cup rdCheck.failed => PmAge <= PinCache - 1 + rdCheck.span
        /\ \A c \in FileParts : c \notin rdCheck.left \cup rdCheck.failed => rdOkAge[c] <= rdCheck.span
EngineInv ==
    rdCheck.pc \in {"engine", "probe"} /\ rdCheck.failed = {} =>
        /\ PmAge <= FsCache - 1 + PinCache - 1 + rdCheck.span
        /\ \A c \in FileParts : rdOkAge[c] <= FsCache - 1 + rdCheck.span
BlameInv ==
    rdCheck.pc # "idle" =>
        /\ (FileParts \cup {"worker"}) \ rdUp \subseteq rdCheck.spoiled
        /\ rdCheck.failed \cap FileParts \subseteq rdCheck.spoiled
LeftInv == rdCheck.pc # "files" => rdCheck.left = {}

\* What the clocks and the caches of the check say of the parts.
ClocksInv ==
    /\ \A c \in rdUp : rdOkAge[c] = 0
    /\ PinInOrder => PmAge = 0
    /\ rdFs < FsCache => /\ PmAge <= PinCache - 1 + rdFs
                         /\ \A c \in FileParts : rdOkAge[c] <= rdFs
    /\ rdEngine > 0 => rdOkAge["worker"] <= EngineCache - rdEngine

RdInv ==
    /\ WorldTypes /\ ManifestTypes /\ CheckTypes
    /\ ReadersInv /\ LoadsInv /\ PinCacheInv
    /\ CheckerInv /\ FilesInv /\ EngineInv /\ BlameInv /\ LeftInv /\ ClocksInv

LEMMA RdBounds ==
    /\ {PinCache, FsCache, EngineCache, EngineRetry, MaxPins} \subseteq Nat \ {0}
    /\ MaxEvents \in Nat /\ MaxSpan \in Nat
    /\ Checker \in Readers /\ Checker \notin Routes /\ Routes \subseteq Readers
    /\ "pmtiles" \in AllParts /\ "worker" \in AllParts /\ FileParts \subseteq AllParts
    /\ "pmtiles" \notin FileParts /\ "worker" \notin FileParts
    /\ AllParts = FileParts \cup {"pmtiles", "worker"}
BY ReadinessAssumption DEF Readers, AllParts

LEMMA AgeMaxIs ==
    /\ AgeMax("pmtiles") = FsCache + PinCache - 1 + MaxSpan
    /\ AgeMax("worker") = EngineCache
    /\ \A c \in FileParts : AgeMax(c) = FsCache + MaxSpan
    /\ \A c \in AllParts : AgeMax(c) \in Nat
<1>1. AgeMax("pmtiles") = FsCache + PinCache - 1 + MaxSpan /\ AgeMax("worker") = EngineCache
  BY DEF AgeMax
<1>2. \A c \in FileParts : AgeMax(c) = FsCache + MaxSpan
  BY RdBounds DEF AgeMax
<1>3. FsCache + PinCache - 1 + MaxSpan \in Nat /\ EngineCache \in Nat /\ FsCache + MaxSpan \in Nat
  BY RdBounds
<1> QED BY <1>1, <1>2, <1>3, RdBounds

LEMMA PinKeysAre ==
    /\ \A k \in PinKeys : k[1] \in 1 .. MaxPins /\ k[2] \in BOOLEAN /\ k = <<k[1], k[2]>>
    /\ \A v \in 1 .. MaxPins, b \in BOOLEAN : <<v, b>> \in PinKeys
    /\ NoKey[1] = 0 /\ NoKey \notin PinKeys
BY DEF PinKeys, NoKey

\* A new pin is seen by whoever has begun, and excuses them if it is bad.
LEMMA PublishKeeps ==
    ASSUME RdInv, PublishPin
    PROVE  RdInv'
<1>0. WorldTypes /\ ManifestTypes /\ CheckTypes /\ ReadersInv /\ LoadsInv /\ PinCacheInv /\ CheckerInv
      /\ FilesInv /\ EngineInv /\ BlameInv /\ LeftInv /\ ClocksInv
  BY DEF RdInv
<1>u. UNCHANGED <<rdUp, rdLoads, rdCache, rdHandles, rdCheck, rdAsk, rdFs, rdEngine, rdRetry>>
  BY DEF PublishPin, rdWorld, rdClocks
<1>a. /\ rdLast \in 1 .. MaxPins /\ rdLast < MaxPins /\ rdLast + 1 \in 1 .. MaxPins
      /\ rdPin \in 0 .. MaxPins /\ rdPin <= rdLast
      /\ rdLast' = rdLast + 1 /\ rdPin' = rdLast + 1
      /\ rdGood' \in {rdGood, rdGood \cup {rdLast + 1}}
  <2>1. /\ rdLast \in 1 .. MaxPins /\ rdPin \in 0 .. MaxPins /\ rdPin <= rdLast /\ MaxPins \in Nat
    BY <1>0, RdBounds DEF WorldTypes
  <2>2. rdLast < MaxPins /\ rdLast' = rdLast + 1 /\ rdPin' = rdLast + 1
        /\ (rdGood' = rdGood \/ rdGood' = rdGood \cup {rdLast + 1})
    BY DEF PublishPin
  <2> QED BY <2>1, <2>2
<1>b. rdBreaks' \in 0 .. MaxEvents
  <2>1. /\ rdLast \in 1 .. MaxPins /\ rdBreaks \in 0 .. MaxEvents /\ MaxPins \in Nat /\ MaxEvents \in Nat
    BY <1>0, RdBounds DEF WorldTypes
  <2>2. rdLast - 1 + rdBreaks < MaxEvents /\ (rdBreaks' = rdBreaks \/ rdBreaks' = rdBreaks + 1)
    BY DEF PublishPin, MayHappen
  <2> QED BY <2>1, <2>2
<1>c. \A r \in Readers : rdRead[r].pc = "idle" => rdRead'[r] = rdRead[r]
  BY DEF PublishPin
<1>d. \A r \in Readers : rdRead[r].pc # "idle" =>
          rdRead'[r] = [rdRead[r] EXCEPT !.seen = @ \cup {rdLast + 1}, !.spoiled = @ \/ rdLast + 1 \notin rdGood']
  BY DEF PublishPin
<1>e. \A r \in Readers : rdRead[r] \in ReaderStates
  BY <1>0 DEF ManifestTypes
<1>f. \A r \in Readers : rdRead[r].pc # "idle" =>
          /\ rdRead'[r] \in ReaderStates
          /\ rdRead'[r].pc = rdRead[r].pc /\ rdRead'[r].got = rdRead[r].got /\ rdRead'[r].key = rdRead[r].key
          /\ rdRead'[r].again = rdRead[r].again
          /\ rdRead'[r].seen = rdRead[r].seen \cup {rdLast + 1}
          /\ rdRead'[r].spoiled = (rdRead[r].spoiled \/ rdLast + 1 \notin rdGood')
  <2> SUFFICES ASSUME NEW r \in Readers, rdRead[r].pc # "idle"
               PROVE  /\ rdRead'[r] \in ReaderStates
                      /\ rdRead'[r].pc = rdRead[r].pc /\ rdRead'[r].got = rdRead[r].got
                      /\ rdRead'[r].key = rdRead[r].key /\ rdRead'[r].again = rdRead[r].again
                      /\ rdRead'[r].seen = rdRead[r].seen \cup {rdLast + 1}
                      /\ rdRead'[r].spoiled = (rdRead[r].spoiled \/ rdLast + 1 \notin rdGood')
    OBVIOUS
  <2>1. rdRead[r] \in ReaderStates /\ rdLast + 1 \in 0 .. MaxPins
    BY <1>a, <1>e
  <2>2. rdRead'[r] = [rdRead[r] EXCEPT !.seen = @ \cup {rdLast + 1}, !.spoiled = @ \/ rdLast + 1 \notin rdGood']
    BY <1>d
  <2>3. PICK s : s = rdRead[r]
    OBVIOUS
  <2>4. PICK b \in BOOLEAN : b = (rdLast + 1 \notin rdGood')
    OBVIOUS
  <2>5. s \in ReaderStates /\ rdRead'[r] = [s EXCEPT !.seen = s.seen \cup {rdLast + 1}, !.spoiled = s.spoiled \/ b]
    BY <2>1, <2>2, <2>3, <2>4
  <2>6. s.seen \cup {rdLast + 1} \in SUBSET (0 .. MaxPins) /\ (s.spoiled \/ b) \in BOOLEAN
    BY <2>1, <2>5 DEF ReaderStates
  <2>7. PICK x, y : x = s.seen \cup {rdLast + 1} /\ y = (s.spoiled \/ b)
    OBVIOUS
  <2>8. rdRead'[r] = [s EXCEPT !.seen = x, !.spoiled = y] /\ x \in SUBSET (0 .. MaxPins) /\ y \in BOOLEAN
    BY <2>5, <2>6, <2>7
  <2>9. /\ rdRead'[r] \in ReaderStates /\ rdRead'[r].pc = s.pc /\ rdRead'[r].got = s.got
        /\ rdRead'[r].key = s.key /\ rdRead'[r].again = s.again /\ rdRead'[r].seen = x
        /\ rdRead'[r].spoiled = y
    BY <2>5, <2>8 DEF ReaderStates
  <2> QED BY <2>3, <2>4, <2>7, <2>9
<1>g. DOMAIN rdRead' = Readers /\ rdRead' = [r \in Readers |-> rdRead'[r]]
  BY DEF PublishPin
<1>h. /\ rdOkAge' \in [AllParts -> Nat]
      /\ \A c \in AllParts : rdOkAge'[c] <= rdOkAge[c]
      /\ rdLast + 1 \in rdGood' => rdOkAge'["pmtiles"] = 0
  <2>1. rdOkAge \in [AllParts -> Nat] /\ "pmtiles" \in AllParts
    BY <1>0, RdBounds DEF CheckTypes
  <2>2. rdOkAge' = IF rdLast + 1 \in rdGood' THEN [rdOkAge EXCEPT !["pmtiles"] = 0] ELSE rdOkAge
    BY <1>a DEF PublishPin
  <2>3. CASE rdLast + 1 \in rdGood'
    BY <2>1, <2>2, <2>3
  <2>4. CASE rdLast + 1 \notin rdGood'
    BY <2>1, <2>2, <2>4
  <2> QED BY <2>3, <2>4
<1>i. rdLast + 1 \notin rdGood
  BY <1>0, <1>a DEF WorldTypes
<1>1. WorldTypes'
  BY <1>0, <1>u, <1>a, <1>b DEF WorldTypes
<1>2. ManifestTypes'
  BY <1>0, <1>u, <1>c, <1>e, <1>f, <1>g DEF ManifestTypes
<1>3. CheckTypes'
  BY <1>0, <1>u, <1>h, AgeMaxIs DEF CheckTypes
<1>4. ReadersInv'
  <2> SUFFICES ASSUME NEW r \in Readers, rdRead'[r].pc # "idle"
               PROVE  HasSeen(r)' /\ HasExcuse(r)'
    BY DEF ReadersInv
  <2>1. rdRead[r].pc # "idle" /\ HasSeen(r) /\ HasExcuse(r)
    BY <1>0, <1>c DEF ReadersInv
  <2>2. HasSeen(r)'
    <3>1. \A u \in 0 .. rdPin : u \in 0 .. rdLast + 1 /\ u < rdLast + 1
      BY <1>a
    <3>2. rdRead'[r].seen \subseteq 0 .. rdLast + 1 /\ rdLast + 1 \in rdRead'[r].seen
      BY <1>a, <1>f, <2>1, <3>1 DEF HasSeen
    <3>3. rdRead'[r].again =>
             \E u \in rdRead'[r].seen : u < IF rdRead'[r].pc = "open" THEN rdLast + 1 ELSE rdRead'[r].key[1]
      <4> SUFFICES ASSUME rdRead[r].again
                   PROVE  \E u \in rdRead'[r].seen : u < IF rdRead'[r].pc = "open" THEN rdLast + 1 ELSE rdRead'[r].key[1]
        BY <1>f, <2>1
      <4>1. PICK u \in rdRead[r].seen : u < IF rdRead[r].pc = "open" THEN rdPin ELSE rdRead[r].key[1]
        BY <2>1 DEF HasSeen
      <4>2. u \in rdRead'[r].seen /\ u < rdLast + 1
        BY <1>f, <2>1, <3>1, <4>1 DEF HasSeen
      <4> QED BY <1>f, <2>1, <4>1, <4>2
    <3> QED BY <1>a, <1>f, <1>u, <2>1, <3>2, <3>3 DEF HasSeen
  <2>3. HasExcuse(r)'
    <3>1. \A k \in PinKeys : rdLoads[k] # "none" => k[1] # rdLast + 1
      BY <1>0, <1>a, PinKeysAre DEF LoadsInv
    <3> QED BY <1>a, <1>f, <1>u, <2>1, <3>1 DEF HasExcuse
  <2> QED BY <2>2, <2>3
<1>5. LoadsInv'
  <2>1. \A k \in PinKeys : k[1] \in 1 .. MaxPins
    BY PinKeysAre
  <2>2. rdOkAge["pmtiles"] = 0 => rdOkAge'["pmtiles"] = 0
    BY <1>0, <1>h, RdBounds DEF CheckTypes
  <2> QED BY <1>0, <1>u, <1>a, <2>1, <2>2 DEF LoadsInv, PmAge
<1>6. PinCacheInv'
  <2>1. rdOkAge'["pmtiles"] <= rdOkAge["pmtiles"] /\ rdOkAge["pmtiles"] \in Nat /\ rdOkAge'["pmtiles"] \in Nat
        /\ rdCache.age \in Nat
    BY <1>0, <1>h, RdBounds DEF CheckTypes, ManifestTypes
  <2> QED BY <1>0, <1>u, <1>a, <2>1 DEF PinCacheInv, PmAge
<1>7. CheckerInv'
  <2>1. rdOkAge'["pmtiles"] <= rdOkAge["pmtiles"] /\ rdOkAge["pmtiles"] \in Nat /\ rdOkAge'["pmtiles"] \in Nat
        /\ rdCheck.span \in Nat /\ PinCache \in Nat
    BY <1>0, <1>h, RdBounds DEF CheckTypes, Checks
  <2>2. rdRead'[Checker].pc = rdRead[Checker].pc /\ rdRead'[Checker].got = rdRead[Checker].got
    BY <1>c, <1>f, RdBounds
  <2>3. ASSUME rdRead[Checker].pc # "idle", NEW v \in rdRead'[Checker].seen, v \in rdGood'
        PROVE  rdOkAge'["pmtiles"] <= rdCheck.span
    <3>1. CASE v = rdLast + 1
      BY <1>h, <2>1, <2>3, <3>1
    <3>2. CASE v # rdLast + 1
      <4>1. v \in rdRead[Checker].seen /\ v \in rdGood
        BY <1>a, <1>f, <2>3, <3>2, RdBounds
      <4>2. rdOkAge["pmtiles"] <= rdCheck.span
        BY <1>0, <2>3, <4>1 DEF CheckerInv, PmAge
      <4> QED BY <2>1, <4>2
    <3> QED BY <3>1, <3>2
  <2>4. rdCheck.pc = "files" /\ "pmtiles" \in rdCheck.left /\ rdRead[Checker].pc = "idle"
          /\ rdRead[Checker].got = "manifest" => rdOkAge'["pmtiles"] <= PinCache - 1 + rdCheck.span
    BY <1>0, <2>1 DEF CheckerInv, PmAge
  <2>5. rdRead[Checker].pc # "idle" => rdCheck.pc = "files" /\ "pmtiles" \in rdCheck.left
    BY <1>0 DEF CheckerInv
  <2> QED BY <1>u, <2>2, <2>3, <2>4, <2>5 DEF CheckerInv, PmAge
<1>8. FilesInv'
  <2>1. rdCheck.span \in Nat /\ PinCache \in Nat /\ \A c \in AllParts : rdOkAge'[c] <= rdOkAge[c]
            /\ rdOkAge[c] \in Nat /\ rdOkAge'[c] \in Nat
    BY <1>0, <1>h, RdBounds DEF CheckTypes, Checks
  <2> QED BY <1>0, <1>u, <2>1, RdBounds DEF FilesInv, PmAge
<1>9. EngineInv'
  <2>1. rdCheck.span \in Nat /\ PinCache \in Nat /\ FsCache \in Nat
        /\ \A c \in AllParts : rdOkAge'[c] <= rdOkAge[c] /\ rdOkAge[c] \in Nat /\ rdOkAge'[c] \in Nat
    BY <1>0, <1>h, RdBounds DEF CheckTypes, Checks
  <2> QED BY <1>0, <1>u, <2>1, RdBounds DEF EngineInv, PmAge
<1>10. BlameInv'
  BY <1>0, <1>u DEF BlameInv
<1>11. LeftInv'
  BY <1>0, <1>u DEF LeftInv
<1>12. ClocksInv'
  <2>1. \A c \in AllParts : rdOkAge'[c] <= rdOkAge[c] /\ rdOkAge[c] \in Nat /\ rdOkAge'[c] \in Nat
    BY <1>0, <1>h DEF CheckTypes
  <2>2. rdFs \in Nat /\ rdEngine \in Nat /\ PinCache \in Nat /\ EngineCache \in Nat
    BY <1>0, RdBounds DEF CheckTypes
  <2>3. \A c \in rdUp : rdOkAge'[c] = 0
    BY <1>0, <2>1, RdBounds DEF ClocksInv, WorldTypes
  <2>4. PinInOrder' => rdOkAge'["pmtiles"] = 0
    BY <1>a, <1>h DEF PinInOrder
  <2>5. rdFs < FsCache => /\ rdOkAge'["pmtiles"] <= PinCache - 1 + rdFs
                          /\ \A c \in FileParts : rdOkAge'[c] <= rdFs
    BY <1>0, <2>1, <2>2, RdBounds DEF ClocksInv, PmAge
  <2>6. rdEngine > 0 => rdOkAge'["worker"] <= EngineCache - rdEngine
    BY <1>0, <2>1, <2>2, RdBounds DEF ClocksInv
  <2> QED BY <1>u, <2>3, <2>4, <2>5, <2>6 DEF ClocksInv, PmAge
<1> QED BY <1>1, <1>2, <1>3, <1>4, <1>5, <1>6, <1>7, <1>8, <1>9, <1>10, <1>11, <1>12 DEF RdInv

\* What goes out of order is marked for whoever is looking, and nothing else.
LEMMA SpoilIs ==
    ASSUME RdInv, NEW part \in AllParts, Spoil(part)
    PROVE  /\ rdCheck' \in Checks
           /\ rdCheck'.pc = rdCheck.pc /\ rdCheck'.left = rdCheck.left /\ rdCheck'.failed = rdCheck.failed
           /\ rdCheck'.span = rdCheck.span /\ rdCheck.spoiled \subseteq rdCheck'.spoiled
           /\ rdCheck.pc # "idle" => part \in rdCheck'.spoiled
           /\ rdRead' \in [Readers -> ReaderStates]
           /\ \A r \in Readers :
                  /\ rdRead'[r].pc = rdRead[r].pc /\ rdRead'[r].got = rdRead[r].got
                  /\ rdRead'[r].key = rdRead[r].key /\ rdRead'[r].again = rdRead[r].again
                  /\ rdRead'[r].seen = rdRead[r].seen
                  /\ rdRead[r].spoiled => rdRead'[r].spoiled
                  /\ part = "pmtiles" /\ rdRead[r].pc # "idle" => rdRead'[r].spoiled
<1>0. rdCheck \in Checks /\ rdRead \in [Readers -> ReaderStates]
  BY DEF RdInv, CheckTypes, ManifestTypes
<1>1. /\ rdCheck' \in Checks
      /\ rdCheck'.pc = rdCheck.pc /\ rdCheck'.left = rdCheck.left /\ rdCheck'.failed = rdCheck.failed
      /\ rdCheck'.span = rdCheck.span /\ rdCheck.spoiled \subseteq rdCheck'.spoiled
      /\ rdCheck.pc # "idle" => part \in rdCheck'.spoiled
  <2>1. CASE rdCheck.pc = "idle"
    BY <1>0, <2>1 DEF Spoil
  <2>2. CASE rdCheck.pc # "idle"
    <3>1. PICK p : p = rdCheck.spoiled \cup {part}
      OBVIOUS
    <3>2. rdCheck' = [rdCheck EXCEPT !.spoiled = p] /\ p \in SUBSET AllParts
      BY <1>0, <2>2, <3>1 DEF Spoil, Checks
    <3>3. /\ rdCheck' \in Checks /\ rdCheck'.pc = rdCheck.pc /\ rdCheck'.left = rdCheck.left
          /\ rdCheck'.failed = rdCheck.failed /\ rdCheck'.span = rdCheck.span /\ rdCheck'.spoiled = p
      BY <1>0, <3>2 DEF Checks
    <3> QED BY <3>1, <3>3
  <2> QED BY <2>1, <2>2
<1>2. CASE part # "pmtiles"
  <2>1. rdRead' = rdRead
    BY <1>2 DEF Spoil
  <2> QED BY <1>0, <1>1, <1>2, <2>1
<1>3. CASE part = "pmtiles"
  <2>1. rdRead' = [r \in Readers |-> IF rdRead[r].pc = "idle" THEN rdRead[r]
                                    ELSE [rdRead[r] EXCEPT !.spoiled = TRUE]]
    BY <1>3 DEF Spoil
  <2>2. ASSUME NEW r \in Readers
        PROVE  /\ rdRead'[r] \in ReaderStates
               /\ rdRead'[r].pc = rdRead[r].pc /\ rdRead'[r].got = rdRead[r].got
               /\ rdRead'[r].key = rdRead[r].key /\ rdRead'[r].again = rdRead[r].again
               /\ rdRead'[r].seen = rdRead[r].seen
               /\ rdRead[r].spoiled => rdRead'[r].spoiled
               /\ rdRead[r].pc # "idle" => rdRead'[r].spoiled
    <3>1. CASE rdRead[r].pc = "idle"
      BY <1>0, <2>1, <3>1
    <3>2. CASE rdRead[r].pc # "idle"
      <4>1. rdRead'[r] = [rdRead[r] EXCEPT !.spoiled = TRUE] /\ rdRead[r] \in ReaderStates
        BY <1>0, <2>1, <3>2
      <4> QED BY <4>1 DEF ReaderStates
    <3> QED BY <3>1, <3>2
  <2>3. rdRead' \in [Readers -> ReaderStates]
    BY <2>1, <2>2
  <2> QED BY <1>1, <1>3, <2>2, <2>3
<1> QED BY <1>2, <1>3

LEMMA PinBreakKeeps ==
    ASSUME RdInv, PinBreaks
    PROVE  RdInv'
<1>0. WorldTypes /\ ManifestTypes /\ CheckTypes /\ ReadersInv /\ LoadsInv /\ PinCacheInv /\ CheckerInv
      /\ FilesInv /\ EngineInv /\ BlameInv /\ LeftInv /\ ClocksInv
  BY DEF RdInv
<1>u. UNCHANGED <<rdPin, rdLast, rdUp, rdLoads, rdCache, rdHandles, rdAsk, rdFs, rdEngine, rdRetry, rdOkAge>>
  BY DEF PinBreaks, rdWorld, rdClocks
<1>s. /\ rdCheck' \in Checks
      /\ rdCheck'.pc = rdCheck.pc /\ rdCheck'.left = rdCheck.left /\ rdCheck'.failed = rdCheck.failed
      /\ rdCheck'.span = rdCheck.span /\ rdCheck.spoiled \subseteq rdCheck'.spoiled
      /\ rdCheck.pc # "idle" => "pmtiles" \in rdCheck'.spoiled
      /\ rdRead' \in [Readers -> ReaderStates]
      /\ \A r \in Readers :
             /\ rdRead'[r].pc = rdRead[r].pc /\ rdRead'[r].got = rdRead[r].got
             /\ rdRead'[r].key = rdRead[r].key /\ rdRead'[r].again = rdRead[r].again
             /\ rdRead'[r].seen = rdRead[r].seen
             /\ rdRead[r].spoiled => rdRead'[r].spoiled
             /\ "pmtiles" = "pmtiles" /\ rdRead[r].pc # "idle" => rdRead'[r].spoiled
  <2>1. Spoil("pmtiles") /\ "pmtiles" \in AllParts
    BY RdBounds DEF PinBreaks
  <2> QED BY <2>1, SpoilIs
<1>b. rdBreaks' \in 0 .. MaxEvents
  <2>1. /\ rdLast \in 1 .. MaxPins /\ rdBreaks \in 0 .. MaxEvents /\ MaxPins \in Nat /\ MaxEvents \in Nat
    BY <1>0, RdBounds DEF WorldTypes
  <2>2. rdLast - 1 + rdBreaks < MaxEvents /\ rdBreaks' = rdBreaks + 1
    BY DEF PinBreaks, MayHappen
  <2> QED BY <2>1, <2>2
<1>g. rdGood' = rdGood \ {rdPin} /\ rdOkAge["pmtiles"] = 0
  BY <1>0 DEF PinBreaks, ClocksInv, PmAge
<1>1. WorldTypes'
  BY <1>0, <1>u, <1>b, <1>g DEF WorldTypes
<1>2. ManifestTypes'
  BY <1>0, <1>u, <1>s DEF ManifestTypes
<1>3. CheckTypes'
  BY <1>0, <1>u, <1>s DEF CheckTypes
<1>4. ReadersInv'
  BY <1>0, <1>u, <1>s DEF ReadersInv, HasSeen, HasExcuse
<1>5. LoadsInv'
  BY <1>0, <1>u, <1>g DEF LoadsInv, PmAge
<1>6. PinCacheInv'
  BY <1>0, <1>u, <1>g DEF PinCacheInv, PmAge, ManifestTypes
<1>7. CheckerInv'
  <2>1. rdCheck.span \in Nat /\ PinCache \in Nat /\ PinCache >= 1
    BY <1>0, RdBounds DEF CheckTypes, Checks
  <2>2. 0 <= rdCheck.span /\ 0 <= PinCache - 1 + rdCheck.span
    BY <2>1
  <2> QED BY <1>0, <1>u, <1>s, <1>g, <2>2, RdBounds DEF CheckerInv, PmAge
<1>8. FilesInv'
  BY <1>0, <1>u, <1>s DEF FilesInv, PmAge
<1>9. EngineInv'
  BY <1>0, <1>u, <1>s DEF EngineInv, PmAge
<1>10. BlameInv'
  BY <1>0, <1>u, <1>s DEF BlameInv
<1>11. LeftInv'
  BY <1>0, <1>s DEF LeftInv
<1>12. ClocksInv'
  BY <1>0, <1>u, <1>g DEF ClocksInv, PmAge, PinInOrder
<1> QED BY <1>1, <1>2, <1>3, <1>4, <1>5, <1>6, <1>7, <1>8, <1>9, <1>10, <1>11, <1>12 DEF RdInv

LEMMA PartBreakKeeps ==
    ASSUME RdInv, NEW part \in FileParts \cup {"worker"}, PartBreaks(part)
    PROVE  RdInv'
<1>0. WorldTypes /\ ManifestTypes /\ CheckTypes /\ ReadersInv /\ LoadsInv /\ PinCacheInv /\ CheckerInv
      /\ FilesInv /\ EngineInv /\ BlameInv /\ LeftInv /\ ClocksInv
  BY DEF RdInv
<1>u. UNCHANGED <<rdPin, rdLast, rdGood, rdLoads, rdCache, rdHandles, rdAsk, rdFs, rdEngine, rdRetry, rdOkAge>>
  BY DEF PartBreaks, rdWorld, rdClocks
<1>s. /\ rdCheck' \in Checks
      /\ rdCheck'.pc = rdCheck.pc /\ rdCheck'.left = rdCheck.left /\ rdCheck'.failed = rdCheck.failed
      /\ rdCheck'.span = rdCheck.span /\ rdCheck.spoiled \subseteq rdCheck'.spoiled
      /\ rdCheck.pc # "idle" => part \in rdCheck'.spoiled
      /\ rdRead' \in [Readers -> ReaderStates]
      /\ \A r \in Readers :
             /\ rdRead'[r].pc = rdRead[r].pc /\ rdRead'[r].got = rdRead[r].got
             /\ rdRead'[r].key = rdRead[r].key /\ rdRead'[r].again = rdRead[r].again
             /\ rdRead'[r].seen = rdRead[r].seen
             /\ rdRead[r].spoiled => rdRead'[r].spoiled
             /\ part = "pmtiles" /\ rdRead[r].pc # "idle" => rdRead'[r].spoiled
  <2>1. Spoil(part) /\ part \in AllParts
    BY RdBounds DEF PartBreaks
  <2> QED BY <2>1, SpoilIs
<1>b. rdBreaks' \in 0 .. MaxEvents
  <2>1. /\ rdLast \in 1 .. MaxPins /\ rdBreaks \in 0 .. MaxEvents /\ MaxPins \in Nat /\ MaxEvents \in Nat
    BY <1>0, RdBounds DEF WorldTypes
  <2>2. rdLast - 1 + rdBreaks < MaxEvents /\ rdBreaks' = rdBreaks + 1
    BY DEF PartBreaks, MayHappen
  <2> QED BY <2>1, <2>2
<1>g. rdUp' = rdUp \ {part}
  BY DEF PartBreaks
<1>1. WorldTypes'
  BY <1>0, <1>u, <1>b, <1>g DEF WorldTypes
<1>2. ManifestTypes'
  BY <1>0, <1>u, <1>s DEF ManifestTypes
<1>3. CheckTypes'
  BY <1>0, <1>u, <1>s DEF CheckTypes
<1>4. ReadersInv'
  BY <1>0, <1>u, <1>s DEF ReadersInv, HasSeen, HasExcuse
<1>5. LoadsInv'
  BY <1>0, <1>u DEF LoadsInv, PmAge
<1>6. PinCacheInv'
  BY <1>0, <1>u DEF PinCacheInv, PmAge
<1>7. CheckerInv'
  BY <1>0, <1>u, <1>s, RdBounds DEF CheckerInv, PmAge
<1>8. FilesInv'
  BY <1>0, <1>u, <1>s DEF FilesInv, PmAge
<1>9. EngineInv'
  BY <1>0, <1>u, <1>s DEF EngineInv, PmAge
<1>10. BlameInv'
  BY <1>0, <1>g, <1>s DEF BlameInv
<1>11. LeftInv'
  BY <1>0, <1>s DEF LeftInv
<1>12. ClocksInv'
  BY <1>0, <1>u, <1>g DEF ClocksInv, PmAge, PinInOrder
<1> QED BY <1>1, <1>2, <1>3, <1>4, <1>5, <1>6, <1>7, <1>8, <1>9, <1>10, <1>11, <1>12 DEF RdInv

LEMMA PinHealKeeps ==
    ASSUME RdInv, PinHeals
    PROVE  RdInv'
<1>0. WorldTypes /\ ManifestTypes /\ CheckTypes /\ ReadersInv /\ LoadsInv /\ PinCacheInv /\ CheckerInv
      /\ FilesInv /\ EngineInv /\ BlameInv /\ LeftInv /\ ClocksInv
  BY DEF RdInv
<1>u. UNCHANGED <<rdPin, rdLast, rdUp, rdBreaks, rdRead, rdLoads, rdCache, rdHandles, rdCheck, rdAsk, rdFs, rdEngine, rdRetry>>
  BY DEF PinHeals, rdWorld, rdClocks
<1>h. /\ rdOkAge' \in [AllParts -> Nat] /\ rdOkAge'["pmtiles"] = 0
      /\ \A c \in AllParts : rdOkAge'[c] <= rdOkAge[c] /\ rdOkAge[c] \in Nat
  <2>1. rdOkAge \in [AllParts -> Nat] /\ "pmtiles" \in AllParts
    BY <1>0, RdBounds DEF CheckTypes
  <2>2. rdOkAge' = [rdOkAge EXCEPT !["pmtiles"] = 0]
    BY DEF PinHeals
  <2> QED BY <2>1, <2>2
<1>n. rdCheck.span \in Nat /\ PinCache \in Nat /\ PinCache >= 1 /\ FsCache \in Nat /\ FsCache >= 1
      /\ rdFs \in Nat /\ rdEngine \in Nat /\ EngineCache \in Nat
  BY <1>0, RdBounds DEF CheckTypes, Checks
<1>g. rdGood' = rdGood \cup {rdPin} /\ rdPin # 0
  BY DEF PinHeals
<1>1. WorldTypes'
  <2>1. rdPin \in 1 .. rdLast
    BY <1>0, <1>g DEF WorldTypes
  <2> QED BY <1>0, <1>u, <1>g, <2>1 DEF WorldTypes
<1>2. ManifestTypes'
  BY <1>0, <1>u DEF ManifestTypes
<1>3. CheckTypes'
  BY <1>0, <1>u, <1>h, AgeMaxIs DEF CheckTypes
<1>4. ReadersInv'
  BY <1>0, <1>u, <1>g DEF ReadersInv, HasSeen, HasExcuse
<1>5. LoadsInv'
  BY <1>0, <1>u, <1>g, <1>h DEF LoadsInv, PmAge
<1>6. PinCacheInv'
  BY <1>0, <1>u, <1>h DEF PinCacheInv, PmAge, ManifestTypes
<1>7. CheckerInv'
  <2>2. 0 <= rdCheck.span /\ 0 <= PinCache - 1 + rdCheck.span
    BY <1>n
  <2> QED BY <1>0, <1>u, <1>h, <2>2, RdBounds DEF CheckerInv, PmAge
<1>8. FilesInv'
  <2>1. \A c \in AllParts : rdOkAge'[c] <= rdOkAge[c] /\ rdOkAge[c] \in Nat /\ rdOkAge'[c] \in Nat
    BY <1>h
  <2> QED BY <1>0, <1>u, <1>n, <2>1, RdBounds DEF FilesInv, PmAge
<1>9. EngineInv'
  <2>1. \A c \in AllParts : rdOkAge'[c] <= rdOkAge[c] /\ rdOkAge[c] \in Nat /\ rdOkAge'[c] \in Nat
    BY <1>h
  <2> QED BY <1>0, <1>u, <1>n, <2>1, RdBounds DEF EngineInv, PmAge
<1>10. BlameInv'
  BY <1>0, <1>u DEF BlameInv
<1>11. LeftInv'
  BY <1>0, <1>u DEF LeftInv
<1>12. ClocksInv'
  <2>1. \A c \in AllParts : rdOkAge'[c] <= rdOkAge[c] /\ rdOkAge[c] \in Nat /\ rdOkAge'[c] \in Nat
    BY <1>h
  <2>3. \A c \in rdUp' : rdOkAge'[c] = 0
    BY <1>0, <1>u, <2>1, RdBounds DEF ClocksInv, WorldTypes
  <2>4. PinInOrder' => rdOkAge'["pmtiles"] = 0
    BY <1>h
  <2>5. rdFs < FsCache => /\ rdOkAge'["pmtiles"] <= PinCache - 1 + rdFs
                          /\ \A c \in FileParts : rdOkAge'[c] <= rdFs
    BY <1>0, <1>n, <2>1, RdBounds DEF ClocksInv, PmAge
  <2>6. rdEngine > 0 => rdOkAge'["worker"] <= EngineCache - rdEngine
    BY <1>0, <1>n, <2>1, RdBounds DEF ClocksInv
  <2> QED BY <1>u, <2>3, <2>4, <2>5, <2>6 DEF ClocksInv, PmAge
<1> QED BY <1>1, <1>2, <1>3, <1>4, <1>5, <1>6, <1>7, <1>8, <1>9, <1>10, <1>11, <1>12 DEF RdInv

LEMMA PartHealKeeps ==
    ASSUME RdInv, NEW part \in FileParts \cup {"worker"}, PartHeals(part)
    PROVE  RdInv'
<1>0. WorldTypes /\ ManifestTypes /\ CheckTypes /\ ReadersInv /\ LoadsInv /\ PinCacheInv /\ CheckerInv
      /\ FilesInv /\ EngineInv /\ BlameInv /\ LeftInv /\ ClocksInv
  BY DEF RdInv
<1>u. UNCHANGED <<rdPin, rdLast, rdGood, rdBreaks, rdRead, rdLoads, rdCache, rdHandles, rdCheck, rdAsk, rdFs, rdEngine, rdRetry>>
  BY DEF PartHeals, rdWorld, rdClocks
<1>h. /\ rdOkAge' \in [AllParts -> Nat] /\ rdOkAge'[part] = 0
      /\ \A c \in AllParts : rdOkAge'[c] <= rdOkAge[c] /\ rdOkAge[c] \in Nat
  <2>1. rdOkAge \in [AllParts -> Nat] /\ part \in AllParts
    BY <1>0, RdBounds DEF CheckTypes
  <2>2. rdOkAge' = [rdOkAge EXCEPT ![part] = 0]
    BY DEF PartHeals
  <2> QED BY <2>1, <2>2
<1>n. rdCheck.span \in Nat /\ PinCache \in Nat /\ PinCache >= 1 /\ FsCache \in Nat /\ FsCache >= 1
      /\ rdFs \in Nat /\ rdEngine \in Nat /\ EngineCache \in Nat
  BY <1>0, RdBounds DEF CheckTypes, Checks
<1>g. rdUp' = rdUp \cup {part}
  BY DEF PartHeals
<1>p. rdOkAge'["pmtiles"] = rdOkAge["pmtiles"]
  BY <1>0, RdBounds DEF PartHeals, CheckTypes
<1>1. WorldTypes'
  BY <1>0, <1>u, <1>g DEF WorldTypes
<1>2. ManifestTypes'
  BY <1>0, <1>u DEF ManifestTypes
<1>3. CheckTypes'
  BY <1>0, <1>u, <1>h, AgeMaxIs DEF CheckTypes
<1>4. ReadersInv'
  BY <1>0, <1>u DEF ReadersInv, HasSeen, HasExcuse
<1>5. LoadsInv'
  BY <1>0, <1>u, <1>p DEF LoadsInv, PmAge
<1>6. PinCacheInv'
  BY <1>0, <1>u, <1>p DEF PinCacheInv, PmAge
<1>7. CheckerInv'
  BY <1>0, <1>u, <1>p DEF CheckerInv, PmAge
<1>8. FilesInv'
  <2>1. \A c \in AllParts : rdOkAge'[c] <= rdOkAge[c] /\ rdOkAge[c] \in Nat /\ rdOkAge'[c] \in Nat
    BY <1>h
  <2> QED BY <1>0, <1>u, <1>n, <2>1, RdBounds DEF FilesInv, PmAge
<1>9. EngineInv'
  <2>1. \A c \in AllParts : rdOkAge'[c] <= rdOkAge[c] /\ rdOkAge[c] \in Nat /\ rdOkAge'[c] \in Nat
    BY <1>h
  <2> QED BY <1>0, <1>u, <1>n, <2>1, RdBounds DEF EngineInv, PmAge
<1>10. BlameInv'
  BY <1>0, <1>u, <1>g DEF BlameInv
<1>11. LeftInv'
  BY <1>0, <1>u DEF LeftInv
<1>12. ClocksInv'
  <2>1. \A c \in AllParts : rdOkAge'[c] <= rdOkAge[c] /\ rdOkAge[c] \in Nat /\ rdOkAge'[c] \in Nat
    BY <1>h
  <2>3. \A c \in rdUp' : rdOkAge'[c] = 0
    BY <1>0, <1>g, <1>h, <2>1, RdBounds DEF ClocksInv, WorldTypes
  <2>4. PinInOrder' => rdOkAge'["pmtiles"] = 0
    BY <1>0, <1>u, <1>p DEF ClocksInv, PmAge, PinInOrder
  <2>5. rdFs < FsCache => /\ rdOkAge'["pmtiles"] <= PinCache - 1 + rdFs
                          /\ \A c \in FileParts : rdOkAge'[c] <= rdFs
    BY <1>0, <1>n, <2>1, RdBounds DEF ClocksInv, PmAge
  <2>6. rdEngine > 0 => rdOkAge'["worker"] <= EngineCache - rdEngine
    BY <1>0, <1>n, <2>1, RdBounds DEF ClocksInv
  <2> QED BY <1>u, <2>3, <2>4, <2>5, <2>6 DEF ClocksInv, PmAge
<1> QED BY <1>1, <1>2, <1>3, <1>4, <1>5, <1>6, <1>7, <1>8, <1>9, <1>10, <1>11, <1>12 DEF RdInv

LEMMA RestingIs ==
    ASSUME NEW got \in {"none", "missing", "error", "manifest"}, NEW key \in PinKeys \cup {NoKey}
    PROVE  /\ Resting(got, key) \in ReaderStates
           /\ Resting(got, key).pc = "idle" /\ Resting(got, key).got = got /\ Resting(got, key).key = key
BY DEF Resting, ReaderState, ReaderStates

LEMMA BegunIs ==
    ASSUME WorldTypes
    PROVE  /\ Begun \in ReaderStates
           /\ Begun.pc = "open" /\ Begun.got = "none" /\ Begun.again = FALSE /\ Begun.seen = {rdPin}
           /\ Begun.spoiled = (~PinInOrder \/ FailedLoad)
<1>1. PICK b \in BOOLEAN : b = (~PinInOrder \/ FailedLoad)
  OBVIOUS
<1>2. Begun = [pc |-> "open", got |-> "none", key |-> NoKey, again |-> FALSE, seen |-> {rdPin}, spoiled |-> b]
  BY <1>1 DEF Begun, ReaderState
<1> QED BY <1>1, <1>2 DEF WorldTypes, ReaderStates

\* Who begins has seen the pin, and is excused by what is already wrong.
LEMMA BegunFits ==
    ASSUME RdInv, NEW r \in Readers, rdRead' = [rdRead EXCEPT ![r] = Begun],
           UNCHANGED <<rdPin, rdGood, rdLoads>>
    PROVE  /\ ReadersInv'
           /\ rdRead' \in [Readers -> ReaderStates]
           /\ rdRead'[r].pc = "open" /\ rdRead'[r].seen = {rdPin}
           /\ \A q \in Readers \ {r} : rdRead'[q] = rdRead[q]
<1>0. WorldTypes /\ ManifestTypes /\ ReadersInv
  BY DEF RdInv
<1>1. /\ rdRead' \in [Readers -> ReaderStates] /\ rdRead'[r] = Begun
      /\ \A q \in Readers \ {r} : rdRead'[q] = rdRead[q]
  BY <1>0, BegunIs DEF ManifestTypes
<1>2. /\ rdRead'[r].pc = "open" /\ rdRead'[r].again = FALSE /\ rdRead'[r].seen = {rdPin}
      /\ rdRead'[r].spoiled = (~PinInOrder \/ FailedLoad)
  BY <1>0, <1>1, BegunIs
<1>3. HasSeen(r)'
  BY <1>0, <1>2 DEF HasSeen, WorldTypes
<1>4. HasExcuse(r)'
  BY <1>2 DEF HasExcuse, PinInOrder, FailedLoad
<1>5. \A q \in Readers \ {r} : rdRead'[q].pc # "idle" => HasSeen(q)' /\ HasExcuse(q)'
  BY <1>0, <1>1 DEF ReadersInv, HasSeen, HasExcuse
<1> QED BY <1>1, <1>2, <1>3, <1>4, <1>5 DEF ReadersInv

LEMMA AskKeepsReady ==
    ASSUME RdInv, NEW r \in Routes, AskManifest(r)
    PROVE  RdInv'
<1>0. WorldTypes /\ ManifestTypes /\ CheckTypes /\ ReadersInv /\ LoadsInv /\ PinCacheInv /\ CheckerInv
      /\ FilesInv /\ EngineInv /\ BlameInv /\ LeftInv /\ ClocksInv
  BY DEF RdInv
<1>u. UNCHANGED <<rdPin, rdLast, rdGood, rdUp, rdBreaks, rdLoads, rdCache, rdHandles, rdCheck, rdAsk, rdFs, rdEngine, rdRetry, rdOkAge>>
  BY DEF AskManifest, rdWorld, rdClocks
<1>a. /\ ReadersInv' /\ rdRead' \in [Readers -> ReaderStates]
      /\ \A q \in Readers \ {r} : rdRead'[q] = rdRead[q]
  <2>1. rdRead' = [rdRead EXCEPT ![r] = Begun] /\ r \in Readers
    BY RdBounds DEF AskManifest
  <2> QED BY <1>u, <2>1, BegunFits
<1>b. rdRead'[Checker] = rdRead[Checker]
  BY <1>a, RdBounds
<1>1. WorldTypes'
  BY <1>0, <1>u DEF WorldTypes
<1>2. ManifestTypes'
  BY <1>0, <1>u, <1>a DEF ManifestTypes
<1>3. CheckTypes'
  BY <1>0, <1>u DEF CheckTypes
<1>4. ReadersInv'
  BY <1>a
<1>5. LoadsInv'
  BY <1>0, <1>u DEF LoadsInv, PmAge
<1>6. PinCacheInv'
  BY <1>0, <1>u DEF PinCacheInv, PmAge
<1>7. CheckerInv'
  BY <1>0, <1>u, <1>b DEF CheckerInv, PmAge
<1>8. FilesInv'
  BY <1>0, <1>u DEF FilesInv, PmAge
<1>9. EngineInv'
  BY <1>0, <1>u DEF EngineInv, PmAge
<1>10. BlameInv'
  BY <1>0, <1>u DEF BlameInv
<1>11. LeftInv'
  BY <1>0, <1>u DEF LeftInv
<1>12. ClocksInv'
  BY <1>0, <1>u DEF ClocksInv, PmAge, PinInOrder
<1> QED BY <1>1, <1>2, <1>3, <1>4, <1>5, <1>6, <1>7, <1>8, <1>9, <1>10, <1>11, <1>12 DEF RdInv

LEMMA OpenKeepsReady ==
    ASSUME RdInv, NEW r \in Readers, OpenPin(r)
    PROVE  RdInv'
<1>0. WorldTypes /\ ManifestTypes /\ CheckTypes /\ ReadersInv /\ LoadsInv /\ PinCacheInv /\ CheckerInv
      /\ FilesInv /\ EngineInv /\ BlameInv /\ LeftInv /\ ClocksInv
  BY DEF RdInv
<1>u. UNCHANGED <<rdPin, rdLast, rdGood, rdUp, rdBreaks, rdLoads, rdCache, rdCheck, rdAsk, rdFs, rdEngine, rdRetry, rdOkAge>>
  BY DEF OpenPin, rdWorld, rdClocks
<1>a. /\ rdRead[r].pc = "open" /\ HasSeen(r) /\ HasExcuse(r) /\ rdRead \in [Readers -> ReaderStates]
      /\ rdRead[r] \in ReaderStates
  BY <1>0 DEF ReadersInv, ManifestTypes, OpenPin
<1>b. \/ rdPin = 0 /\ rdRead' = [rdRead EXCEPT ![r] = Resting("missing", NoKey)]
      \/ rdPin # 0 /\ rdRead' = [rdRead EXCEPT ![r] = [rdRead[r] EXCEPT !.pc = "stat", !.key = <<rdPin, FALSE>>]]
  BY <1>a DEF OpenPin
<1>c. \A q \in Readers \ {r} : rdRead'[q] = rdRead[q]
  BY <1>a, <1>b
<1>d. ASSUME rdPin = 0 PROVE ManifestTypes' /\ ReadersInv' /\ CheckerInv'
  <2>1. rdRead' = [rdRead EXCEPT ![r] = Resting("missing", NoKey)]
    BY <1>b, <1>d
  <2>2. rdRead'[r] = Resting("missing", NoKey) /\ rdRead' \in [Readers -> ReaderStates]
    BY <1>a, <2>1, RestingIs
  <2>3. rdRead'[r].pc = "idle" /\ rdRead'[r].got = "missing"
    BY <2>2, RestingIs
  <2> HIDE DEF Resting
  <2>m. ManifestTypes'
    BY <1>0, <1>u, <2>2 DEF ManifestTypes
  <2>9. ASSUME NEW q \in Readers \ {r}, rdRead'[q].pc # "idle" PROVE HasSeen(q)' /\ HasExcuse(q)'
    BY <1>0, <1>u, <1>c, <2>9 DEF ReadersInv, HasSeen, HasExcuse
  <2>r. ReadersInv'
    BY <2>3, <2>9 DEF ReadersInv
  <2>c. CheckerInv'
    <3>1. CASE r = Checker
      BY <1>u, <2>3, <3>1 DEF CheckerInv, PmAge
    <3>2. CASE r # Checker
      BY <1>0, <1>c, <1>u, <3>2, RdBounds DEF CheckerInv, PmAge
    <3> QED BY <3>1, <3>2
  <2> QED BY <2>m, <2>r, <2>c
<1>e. ASSUME rdPin # 0 PROVE ManifestTypes' /\ ReadersInv' /\ CheckerInv'
  <2>1. PICK k : k = <<rdPin, FALSE>>
    OBVIOUS
  <2>2. k \in PinKeys /\ k[1] = rdPin
    <3>1. rdPin \in 1 .. MaxPins
      BY <1>0, <1>e, RdBounds DEF WorldTypes
    <3> QED BY <2>1, <3>1, PinKeysAre
  <2>3. rdRead' = [rdRead EXCEPT ![r] = [rdRead[r] EXCEPT !.pc = "stat", !.key = k]]
    BY <1>b, <1>e, <2>1
  <2>4. rdRead'[r] = [rdRead[r] EXCEPT !.pc = "stat", !.key = k]
    BY <1>a, <2>3
  <2>5. /\ rdRead'[r] \in ReaderStates
        /\ rdRead'[r].pc = "stat" /\ rdRead'[r].key = k /\ rdRead'[r].seen = rdRead[r].seen
        /\ rdRead'[r].again = rdRead[r].again /\ rdRead'[r].spoiled = rdRead[r].spoiled
    BY <1>a, <2>2, <2>4 DEF ReaderStates
  <2>6. rdRead' \in [Readers -> ReaderStates]
    BY <1>a, <2>3, <2>5
  <2>m. ManifestTypes'
    BY <1>0, <1>u, <2>6 DEF ManifestTypes
  <2>9. ASSUME NEW q \in Readers \ {r}, rdRead'[q].pc # "idle" PROVE HasSeen(q)' /\ HasExcuse(q)'
    BY <1>0, <1>u, <1>c, <2>9 DEF ReadersInv, HasSeen, HasExcuse
  <2>7. HasSeen(r)' /\ HasExcuse(r)'
    BY <1>a, <1>u, <2>2, <2>5 DEF HasSeen, HasExcuse
  <2>r. ReadersInv'
    BY <2>7, <2>9 DEF ReadersInv
  <2>c. CheckerInv'
    <3>1. CASE r = Checker
      BY <1>0, <1>a, <1>u, <2>5, <3>1 DEF CheckerInv, PmAge
    <3>2. CASE r # Checker
      BY <1>0, <1>c, <1>u, <3>2, RdBounds DEF CheckerInv, PmAge
    <3> QED BY <3>1, <3>2
  <2> QED BY <2>m, <2>r, <2>c
<1>f. ManifestTypes' /\ ReadersInv' /\ CheckerInv'
  BY <1>d, <1>e
<1>1. WorldTypes'
  BY <1>0, <1>u DEF WorldTypes
<1>2. ManifestTypes'
  BY <1>f
<1>3. CheckTypes'
  BY <1>0, <1>u DEF CheckTypes
<1>4. ReadersInv'
  BY <1>f
<1>5. LoadsInv'
  BY <1>0, <1>u DEF LoadsInv, PmAge
<1>6. PinCacheInv'
  BY <1>0, <1>u DEF PinCacheInv, PmAge
<1>7. CheckerInv'
  BY <1>f
<1>8. FilesInv'
  BY <1>0, <1>u DEF FilesInv, PmAge
<1>9. EngineInv'
  BY <1>0, <1>u DEF EngineInv, PmAge
<1>10. BlameInv'
  BY <1>0, <1>u DEF BlameInv
<1>11. LeftInv'
  BY <1>0, <1>u DEF LeftInv
<1>12. ClocksInv'
  BY <1>0, <1>u DEF ClocksInv, PmAge, PinInOrder
<1> QED BY <1>1, <1>2, <1>3, <1>4, <1>5, <1>6, <1>7, <1>8, <1>9, <1>10, <1>11, <1>12 DEF RdInv

LEMMA StatKeepsReady ==
    ASSUME RdInv, NEW r \in Readers, StatPin(r)
    PROVE  RdInv'
<1>0. WorldTypes /\ ManifestTypes /\ CheckTypes /\ ReadersInv /\ LoadsInv /\ PinCacheInv /\ CheckerInv
      /\ FilesInv /\ EngineInv /\ BlameInv /\ LeftInv /\ ClocksInv
  BY DEF RdInv
<1>u. UNCHANGED <<rdPin, rdLast, rdGood, rdUp, rdBreaks, rdCache, rdCheck, rdAsk, rdFs, rdEngine, rdRetry, rdOkAge>>
  BY DEF StatPin, rdWorld, rdClocks
<1>a. /\ rdRead[r].pc = "stat" /\ HasSeen(r) /\ HasExcuse(r) /\ rdRead \in [Readers -> ReaderStates]
      /\ rdRead[r] \in ReaderStates /\ rdRead[r].key \in PinKeys /\ rdLoads \in [PinKeys -> LoadStages]
  BY <1>0 DEF ReadersInv, ManifestTypes, StatPin, HasSeen
<1>v. PICK v : v = rdRead[r].key[1]
  OBVIOUS
<1>k. PICK k : k = PinIdentity(v)
  OBVIOUS
<1>b. /\ v \in rdRead[r].seen /\ v \in 1 .. MaxPins /\ v \in 0 .. rdPin
      /\ k \in PinKeys /\ k[1] = v
  BY <1>a, <1>v, <1>k, PinKeysAre DEF HasSeen, PinIdentity
<1>c. \/ /\ CacheHit(v)
         /\ rdRead' = [rdRead EXCEPT ![r] = Resting("manifest", rdCache.key)]
         /\ rdLoads' = rdLoads
      \/ /\ rdLoads[k] # "none"
         /\ rdRead' = [rdRead EXCEPT ![r] = [rdRead[r] EXCEPT !.pc = "load", !.key = k]]
         /\ rdLoads' = rdLoads
      \/ /\ rdLoads[k] = "none"
         /\ rdRead' = [rdRead EXCEPT ![r] = [rdRead[r] EXCEPT !.pc = "load", !.key = k]]
         /\ rdLoads' = [rdLoads EXCEPT ![k] = "validate"]
  BY <1>a, <1>v, <1>k DEF StatPin
<1>q. \A q \in Readers \ {r} : rdRead'[q] = rdRead[q]
  BY <1>a, <1>c
<1>l. /\ rdLoads' \in [PinKeys -> LoadStages]
      /\ \A j \in PinKeys : rdLoads'[j] = rdLoads[j] \/ (j = k /\ rdLoads'[j] = "validate")
      /\ \A j \in PinKeys : rdLoads[j] # "none" => rdLoads'[j] # "none"
  BY <1>a, <1>b, <1>c DEF LoadStages
<1>o. ASSUME NEW q \in Readers \ {r}, rdRead'[q].pc # "idle" PROVE HasSeen(q)' /\ HasExcuse(q)'
  BY <1>0, <1>u, <1>l, <1>q, <1>o DEF ReadersInv, HasSeen, HasExcuse
<1>d. ASSUME rdRead' = [rdRead EXCEPT ![r] = Resting("manifest", rdCache.key)], CacheHit(v)
      PROVE rdRead' \in [Readers -> ReaderStates] /\ ReadersInv' /\ CheckerInv'
  <2>0. rdCache.key \in PinKeys \cup {NoKey} /\ rdCache.age \in 0 .. PinCache /\ rdCache.age < PinCache
        /\ rdCache.key[1] = v
    BY <1>0, <1>b, <1>k, <1>d DEF ManifestTypes, CacheHit
  <2>1. rdRead'[r] = Resting("manifest", rdCache.key) /\ rdRead' \in [Readers -> ReaderStates]
    BY <1>a, <1>d, <2>0, RestingIs
  <2>2. rdRead'[r].pc = "idle" /\ rdRead'[r].got = "manifest"
    BY <2>0, <2>1, RestingIs
  <2> HIDE DEF Resting
  <2>r. ReadersInv'
    BY <1>o, <2>2 DEF ReadersInv
  <2>c. CheckerInv'
    <3>1. CASE r = Checker
      <4>1. v \in rdGood => PmAge <= rdCheck.span
        BY <1>0, <1>a, <1>b, <3>1 DEF CheckerInv
      <4>2. v \in rdGood \/ PmAge <= rdCache.age
        BY <1>0, <2>0 DEF PinCacheInv
      <4>3. rdCheck.span \in Nat /\ PinCache \in Nat /\ PinCache >= 1 /\ PmAge \in Nat
        BY <1>0, RdBounds DEF CheckTypes, Checks, PmAge
      <4>4. PmAge <= PinCache - 1 + rdCheck.span
        BY <2>0, <4>1, <4>2, <4>3
      <4> QED BY <1>u, <2>2, <3>1, <4>4 DEF CheckerInv, PmAge
    <3>2. CASE r # Checker
      BY <1>0, <1>q, <1>u, <3>2, RdBounds DEF CheckerInv, PmAge
    <3> QED BY <3>1, <3>2
  <2> QED BY <2>1, <2>r, <2>c
<1>e. ASSUME rdRead' = [rdRead EXCEPT ![r] = [rdRead[r] EXCEPT !.pc = "load", !.key = k]],
             rdLoads'[k] # "none"
      PROVE rdRead' \in [Readers -> ReaderStates] /\ ReadersInv' /\ CheckerInv'
  <2>1. rdRead'[r] = [rdRead[r] EXCEPT !.pc = "load", !.key = k]
    BY <1>a, <1>e
  <2>2. /\ rdRead'[r] \in ReaderStates
        /\ rdRead'[r].pc = "load" /\ rdRead'[r].key = k /\ rdRead'[r].seen = rdRead[r].seen
        /\ rdRead'[r].again = rdRead[r].again /\ rdRead'[r].spoiled = rdRead[r].spoiled
    BY <1>a, <1>b, <2>1 DEF ReaderStates
  <2>3. rdRead' \in [Readers -> ReaderStates]
    BY <1>a, <1>e, <2>2
  <2>4. HasSeen(r)'
    BY <1>a, <1>b, <1>e, <1>u, <1>v, <2>2 DEF HasSeen
  <2>5. HasExcuse(r)'
    BY <1>a, <1>l, <1>u, <2>2 DEF HasExcuse
  <2>r. ReadersInv'
    BY <1>o, <2>4, <2>5 DEF ReadersInv
  <2>c. CheckerInv'
    <3>1. CASE r = Checker
      BY <1>0, <1>a, <1>u, <2>2, <3>1 DEF CheckerInv, PmAge
    <3>2. CASE r # Checker
      BY <1>0, <1>q, <1>u, <3>2, RdBounds DEF CheckerInv, PmAge
    <3> QED BY <3>1, <3>2
  <2> QED BY <2>3, <2>r, <2>c
<1>f. rdRead' \in [Readers -> ReaderStates] /\ ReadersInv' /\ CheckerInv'
  <2>1. rdLoads[k] = "none" /\ rdLoads' = [rdLoads EXCEPT ![k] = "validate"] => rdLoads'[k] # "none"
    BY <1>a, <1>b
  <2>2. \/ rdRead' = [rdRead EXCEPT ![r] = Resting("manifest", rdCache.key)] /\ CacheHit(v)
        \/ /\ rdRead' = [rdRead EXCEPT ![r] = [rdRead[r] EXCEPT !.pc = "load", !.key = k]]
           /\ rdLoads'[k] # "none"
    BY <1>c, <2>1
  <2> QED BY <1>d, <1>e, <2>2
<1>1. WorldTypes'
  BY <1>0, <1>u DEF WorldTypes
<1>2. ManifestTypes'
  BY <1>0, <1>u, <1>f, <1>l DEF ManifestTypes
<1>3. CheckTypes'
  BY <1>0, <1>u DEF CheckTypes
<1>4. ReadersInv'
  BY <1>f
<1>5. LoadsInv'
  <2>1. ASSUME NEW j \in PinKeys
        PROVE  /\ rdLoads'[j] # "none" => j[1] <= rdPin /\ (j[2] \/ j[1] < rdPin)
               /\ rdLoads'[j] = "changed" => j[2] /\ j[1] < rdPin
               /\ rdLoads'[j] \in {"stat", "done"} => j[1] \in rdGood \/ PmAge = 0
    <3>1. CASE rdLoads'[j] = rdLoads[j]
      BY <1>0, <3>1 DEF LoadsInv
    <3>2. CASE j = k /\ rdLoads'[j] = "validate"
      <4>1. k[1] <= rdPin /\ (k[2] \/ k[1] < rdPin)
        <5>1. v <= rdPin /\ (v = rdPin \/ v < rdPin)
          BY <1>0, <1>b DEF WorldTypes
        <5>2. k[2] = (v = rdPin)
          BY <1>k DEF PinIdentity
        <5> QED BY <1>b, <5>1, <5>2
      <4> QED BY <3>2, <4>1
    <3> QED BY <1>l, <3>1, <3>2
  <2> QED BY <1>u, <2>1 DEF LoadsInv, PmAge
<1>6. PinCacheInv'
  BY <1>0, <1>u DEF PinCacheInv, PmAge
<1>7. CheckerInv'
  BY <1>f
<1>8. FilesInv'
  BY <1>0, <1>u DEF FilesInv, PmAge
<1>9. EngineInv'
  BY <1>0, <1>u DEF EngineInv, PmAge
<1>10. BlameInv'
  BY <1>0, <1>u DEF BlameInv
<1>11. LeftInv'
  BY <1>0, <1>u DEF LeftInv
<1>12. ClocksInv'
  BY <1>0, <1>u DEF ClocksInv, PmAge, PinInOrder
<1> QED BY <1>1, <1>2, <1>3, <1>4, <1>5, <1>6, <1>7, <1>8, <1>9, <1>10, <1>11, <1>12 DEF RdInv

LEMMA ValidateKeeps ==
    ASSUME RdInv, NEW k \in PinKeys, ValidatePin(k)
    PROVE  RdInv'
<1>0. WorldTypes /\ ManifestTypes /\ CheckTypes /\ ReadersInv /\ LoadsInv /\ PinCacheInv /\ CheckerInv
      /\ FilesInv /\ EngineInv /\ BlameInv /\ LeftInv /\ ClocksInv
  BY DEF RdInv
<1>u. UNCHANGED <<rdPin, rdLast, rdGood, rdUp, rdBreaks, rdRead, rdCache, rdHandles, rdCheck, rdAsk, rdFs, rdEngine, rdRetry, rdOkAge>>
  BY DEF ValidatePin, rdWorld, rdClocks
<1>a. /\ rdLoads \in [PinKeys -> LoadStages] /\ rdLoads[k] = "validate"
      /\ rdLoads' \in [PinKeys -> LoadStages]
      /\ rdLoads'[k] = IF k[1] \in rdGood THEN "stat" ELSE "failed"
      /\ \A j \in PinKeys : j # k => rdLoads'[j] = rdLoads[j]
  BY <1>0 DEF ManifestTypes, ValidatePin, LoadStages
<1>1. WorldTypes'
  BY <1>0, <1>u DEF WorldTypes
<1>2. ManifestTypes'
  BY <1>0, <1>u, <1>a DEF ManifestTypes
<1>3. CheckTypes'
  BY <1>0, <1>u DEF CheckTypes
<1>4. ReadersInv'
  <2> SUFFICES ASSUME NEW r \in Readers, rdRead[r].pc # "idle" PROVE HasSeen(r)' /\ HasExcuse(r)'
    BY <1>u DEF ReadersInv
  <2>1. HasSeen(r) /\ HasExcuse(r)
    BY <1>0 DEF ReadersInv
  <2>2. HasSeen(r)'
    BY <1>a, <1>u, <2>1 DEF HasSeen
  <2>3. HasExcuse(r)'
    BY <1>a, <1>u, <2>1 DEF HasExcuse
  <2> QED BY <2>2, <2>3
<1>5. LoadsInv'
  <2>1. ASSUME NEW j \in PinKeys
        PROVE  /\ rdLoads'[j] # "none" => j[1] <= rdPin /\ (j[2] \/ j[1] < rdPin)
               /\ rdLoads'[j] = "changed" => j[2] /\ j[1] < rdPin
               /\ rdLoads'[j] \in {"stat", "done"} => j[1] \in rdGood \/ PmAge = 0
    <3>1. CASE j # k
      BY <1>0, <1>a, <3>1 DEF LoadsInv
    <3>2. CASE j = k
      BY <1>0, <1>a, <3>2 DEF LoadsInv
    <3> QED BY <3>1, <3>2
  <2> QED BY <1>u, <2>1 DEF LoadsInv, PmAge
<1>6. PinCacheInv'
  BY <1>0, <1>u DEF PinCacheInv, PmAge
<1>7. CheckerInv'
  BY <1>0, <1>u DEF CheckerInv, PmAge
<1>8. FilesInv'
  BY <1>0, <1>u DEF FilesInv, PmAge
<1>9. EngineInv'
  BY <1>0, <1>u DEF EngineInv, PmAge
<1>10. BlameInv'
  BY <1>0, <1>u DEF BlameInv
<1>11. LeftInv'
  BY <1>0, <1>u DEF LeftInv
<1>12. ClocksInv'
  BY <1>0, <1>u DEF ClocksInv, PmAge, PinInOrder
<1> QED BY <1>1, <1>2, <1>3, <1>4, <1>5, <1>6, <1>7, <1>8, <1>9, <1>10, <1>11, <1>12 DEF RdInv

LEMMA StatAgainKeeps ==
    ASSUME RdInv, NEW k \in PinKeys, StatAgain(k)
    PROVE  RdInv'
<1>0. WorldTypes /\ ManifestTypes /\ CheckTypes /\ ReadersInv /\ LoadsInv /\ PinCacheInv /\ CheckerInv
      /\ FilesInv /\ EngineInv /\ BlameInv /\ LeftInv /\ ClocksInv
  BY DEF RdInv
<1>u. UNCHANGED <<rdPin, rdLast, rdGood, rdUp, rdBreaks, rdRead, rdHandles, rdCheck, rdAsk, rdFs, rdEngine, rdRetry, rdOkAge>>
  BY DEF StatAgain, rdWorld, rdClocks
<1>a. /\ rdLoads \in [PinKeys -> LoadStages] /\ rdLoads[k] = "stat"
      /\ rdLoads' \in [PinKeys -> LoadStages]
      /\ rdLoads'[k] = IF PinIdentity(k[1]) = k THEN "done" ELSE "changed"
      /\ \A j \in PinKeys : j # k => rdLoads'[j] = rdLoads[j]
      /\ rdCache' = IF PinIdentity(k[1]) = k THEN [key |-> k, age |-> 0] ELSE rdCache
  BY <1>0 DEF ManifestTypes, StatAgain, LoadStages
<1>b. rdLoads'[k] = "changed" => k[2] /\ k[1] < rdPin
  <2> SUFFICES ASSUME PinIdentity(k[1]) # k PROVE k[2] /\ k[1] < rdPin
    BY <1>a
  <2>1. k = <<k[1], k[2]>> /\ k[2] \in BOOLEAN /\ k[1] \in 1 .. MaxPins
    BY PinKeysAre
  <2>2. k[2] # (k[1] = rdPin)
    BY <2>1 DEF PinIdentity
  <2>3. k[1] <= rdPin /\ (k[2] \/ k[1] < rdPin) /\ rdPin \in 0 .. MaxPins
    BY <1>0, <1>a DEF LoadsInv, WorldTypes
  <2> QED BY <2>1, <2>2, <2>3
<1>c. k[1] \in rdGood \/ PmAge = 0
  BY <1>0, <1>a DEF LoadsInv
<1>1. WorldTypes'
  BY <1>0, <1>u DEF WorldTypes
<1>2. ManifestTypes'
  <2>1. rdCache' \in [key : PinKeys \cup {NoKey}, age : 0 .. PinCache]
    BY <1>0, <1>a, RdBounds DEF ManifestTypes
  <2> QED BY <1>0, <1>u, <1>a, <2>1 DEF ManifestTypes
<1>3. CheckTypes'
  BY <1>0, <1>u DEF CheckTypes
<1>4. ReadersInv'
  <2> SUFFICES ASSUME NEW r \in Readers, rdRead[r].pc # "idle" PROVE HasSeen(r)' /\ HasExcuse(r)'
    BY <1>u DEF ReadersInv
  <2>1. HasSeen(r) /\ HasExcuse(r)
    BY <1>0 DEF ReadersInv
  <2>2. HasSeen(r)'
    BY <1>a, <1>u, <2>1 DEF HasSeen
  <2>3. HasExcuse(r)'
    BY <1>a, <1>u, <2>1 DEF HasExcuse
  <2> QED BY <2>2, <2>3
<1>5. LoadsInv'
  <2>1. ASSUME NEW j \in PinKeys
        PROVE  /\ rdLoads'[j] # "none" => j[1] <= rdPin /\ (j[2] \/ j[1] < rdPin)
               /\ rdLoads'[j] = "changed" => j[2] /\ j[1] < rdPin
               /\ rdLoads'[j] \in {"stat", "done"} => j[1] \in rdGood \/ PmAge = 0
    <3>1. CASE j # k
      BY <1>0, <1>a, <3>1 DEF LoadsInv
    <3>2. CASE j = k
      BY <1>0, <1>a, <3>2, <1>b, <1>c DEF LoadsInv
    <3> QED BY <3>1, <3>2
  <2> QED BY <1>u, <2>1 DEF LoadsInv, PmAge
<1>6. PinCacheInv'
  <2>1. CASE PinIdentity(k[1]) = k
    BY <1>a, <1>c, <1>u, <2>1 DEF PinCacheInv, PmAge
  <2>2. CASE PinIdentity(k[1]) # k
    BY <1>0, <1>a, <1>u, <2>2 DEF PinCacheInv, PmAge
  <2> QED BY <2>1, <2>2
<1>7. CheckerInv'
  BY <1>0, <1>u DEF CheckerInv, PmAge
<1>8. FilesInv'
  BY <1>0, <1>u DEF FilesInv, PmAge
<1>9. EngineInv'
  BY <1>0, <1>u DEF EngineInv, PmAge
<1>10. BlameInv'
  BY <1>0, <1>u DEF BlameInv
<1>11. LeftInv'
  BY <1>0, <1>u DEF LeftInv
<1>12. ClocksInv'
  BY <1>0, <1>u DEF ClocksInv, PmAge, PinInOrder
<1> QED BY <1>1, <1>2, <1>3, <1>4, <1>5, <1>6, <1>7, <1>8, <1>9, <1>10, <1>11, <1>12 DEF RdInv

LEMMA LoadEndKeeps ==
    ASSUME RdInv, NEW k \in PinKeys, LoadEnds(k)
    PROVE  RdInv'
<1>0. WorldTypes /\ ManifestTypes /\ CheckTypes /\ ReadersInv /\ LoadsInv /\ PinCacheInv /\ CheckerInv
      /\ FilesInv /\ EngineInv /\ BlameInv /\ LeftInv /\ ClocksInv
  BY DEF RdInv
<1>u. UNCHANGED <<rdPin, rdLast, rdGood, rdUp, rdBreaks, rdCache, rdCheck, rdAsk, rdFs, rdEngine, rdRetry, rdOkAge>>
  BY DEF LoadEnds, rdWorld, rdClocks
<1>a. /\ rdLoads \in [PinKeys -> LoadStages] /\ rdLoads[k] \in {"done", "changed", "failed"}
      /\ rdLoads' \in [PinKeys -> LoadStages] /\ rdLoads'[k] = "none"
      /\ \A j \in PinKeys : j # k => rdLoads'[j] = rdLoads[j]
      /\ rdRead \in [Readers -> ReaderStates]
  BY <1>0 DEF ManifestTypes, LoadEnds, LoadStages
<1>b. rdRead' = [r \in Readers |-> IF rdRead[r].pc = "load" /\ rdRead[r].key = k
                                  THEN AfterLoad(rdRead[r], rdLoads[k]) ELSE rdRead[r]]
  BY DEF LoadEnds
<1>c. ASSUME NEW r \in Readers, rdRead[r].pc = "load", rdRead[r].key = k
      PROVE  /\ rdRead'[r] \in ReaderStates
             /\ \/ rdRead'[r].pc = "idle" /\ (rdRead'[r].got = "manifest" => rdLoads[k] = "done")
                \/ /\ rdRead'[r].pc = "open" /\ rdRead'[r].again = TRUE /\ rdLoads[k] = "changed"
                   /\ rdRead'[r].seen = rdRead[r].seen /\ rdRead'[r].spoiled = rdRead[r].spoiled
  <2>0. rdRead'[r] = AfterLoad(rdRead[r], rdLoads[k]) /\ rdRead[r] \in ReaderStates
    BY <1>a, <1>b, <1>c
  <2>1. CASE rdLoads[k] = "done"
    <3>1. rdRead'[r] = Resting("manifest", k)
      BY <1>c, <2>0, <2>1 DEF AfterLoad
    <3> QED BY <2>1, <3>1, RestingIs
  <2>2. CASE rdLoads[k] = "changed" /\ ~rdRead[r].again
    <3>1. rdRead'[r] = [rdRead[r] EXCEPT !.pc = "open", !.key = NoKey, !.again = TRUE]
      BY <2>0, <2>2 DEF AfterLoad
    <3> QED BY <2>0, <2>2, <3>1 DEF ReaderStates
  <2>3. CASE ~(rdLoads[k] = "done") /\ ~(rdLoads[k] = "changed" /\ ~rdRead[r].again)
    <3>1. rdRead'[r] = Resting("error", NoKey)
      BY <2>0, <2>3 DEF AfterLoad
    <3>2. rdRead'[r] \in ReaderStates /\ rdRead'[r].pc = "idle" /\ rdRead'[r].got = "error"
      BY <3>1, RestingIs
    <3> QED BY <3>2
  <2> QED BY <2>1, <2>2, <2>3
<1>d. \A r \in Readers : ~(rdRead[r].pc = "load" /\ rdRead[r].key = k) => rdRead'[r] = rdRead[r]
  BY <1>b
<1>e. rdRead' \in [Readers -> ReaderStates]
  <2>1. \A r \in Readers : rdRead'[r] \in ReaderStates
    BY <1>a, <1>c, <1>d
  <2> QED BY <1>b, <2>1
<1>1. WorldTypes'
  BY <1>0, <1>u DEF WorldTypes
<1>2. ManifestTypes'
  BY <1>0, <1>u, <1>a, <1>e DEF ManifestTypes
<1>3. CheckTypes'
  BY <1>0, <1>u DEF CheckTypes
<1>4. ReadersInv'
  <2> SUFFICES ASSUME NEW r \in Readers, rdRead'[r].pc # "idle" PROVE HasSeen(r)' /\ HasExcuse(r)'
    BY DEF ReadersInv
  <2>1. CASE rdRead[r].pc = "load" /\ rdRead[r].key = k
    <3>1. /\ rdRead'[r].pc = "open" /\ rdRead'[r].again = TRUE /\ rdLoads[k] = "changed"
          /\ rdRead'[r].seen = rdRead[r].seen /\ rdRead'[r].spoiled = rdRead[r].spoiled
      BY <1>c, <2>1
    <3>2. HasSeen(r) /\ HasExcuse(r) /\ k[1] < rdPin /\ k[1] \in rdRead[r].seen
      BY <1>0, <2>1, <3>1 DEF ReadersInv, LoadsInv, HasSeen
    <3>3. HasSeen(r)'
      BY <1>u, <3>1, <3>2 DEF HasSeen
    <3>4. HasExcuse(r)'
      BY <1>a, <1>u, <3>1, <3>2 DEF HasExcuse
    <3> QED BY <3>3, <3>4
  <2>2. CASE ~(rdRead[r].pc = "load" /\ rdRead[r].key = k)
    <3>1. rdRead'[r] = rdRead[r] /\ HasSeen(r) /\ HasExcuse(r)
      BY <1>0, <1>d, <2>2 DEF ReadersInv
    <3>3. HasSeen(r)'
      BY <1>a, <1>u, <2>2, <3>1 DEF HasSeen
    <3>4. HasExcuse(r)'
      BY <1>a, <1>u, <3>1 DEF HasExcuse
    <3> QED BY <3>3, <3>4
  <2> QED BY <2>1, <2>2
<1>5. LoadsInv'
  <2>1. ASSUME NEW j \in PinKeys
        PROVE  /\ rdLoads'[j] # "none" => j[1] <= rdPin /\ (j[2] \/ j[1] < rdPin)
               /\ rdLoads'[j] = "changed" => j[2] /\ j[1] < rdPin
               /\ rdLoads'[j] \in {"stat", "done"} => j[1] \in rdGood \/ PmAge = 0
    <3>1. CASE j # k
      BY <1>0, <1>a, <3>1 DEF LoadsInv
    <3>2. CASE j = k
      BY <1>0, <1>a, <3>2 DEF LoadsInv
    <3> QED BY <3>1, <3>2
  <2> QED BY <1>u, <2>1 DEF LoadsInv, PmAge
<1>6. PinCacheInv'
  BY <1>0, <1>u DEF PinCacheInv, PmAge
<1>7. CheckerInv'
  <2>1. CASE rdRead[Checker].pc = "load" /\ rdRead[Checker].key = k
    <3>1. HasSeen(Checker) /\ k[1] \in rdRead[Checker].seen /\ rdCheck.pc = "files" /\ "pmtiles" \in rdCheck.left
          /\ (k[1] \in rdGood => PmAge <= rdCheck.span)
      BY <1>0, <2>1, RdBounds DEF ReadersInv, HasSeen, CheckerInv
    <3>2. rdCheck.span \in Nat /\ PinCache \in Nat /\ PinCache >= 1 /\ PmAge \in Nat
      BY <1>0, RdBounds DEF CheckTypes, Checks, PmAge
    <3>3. rdRead'[Checker].pc = "idle" /\ rdRead'[Checker].got = "manifest" => PmAge <= PinCache - 1 + rdCheck.span
      <4> SUFFICES ASSUME rdRead'[Checker].pc = "idle", rdRead'[Checker].got = "manifest"
                   PROVE  PmAge <= PinCache - 1 + rdCheck.span
        OBVIOUS
      <4>1. rdLoads[k] = "done"
        BY <1>c, <2>1, RdBounds
      <4>2. k[1] \in rdGood \/ PmAge = 0
        BY <1>0, <4>1 DEF LoadsInv
      <4> QED BY <3>1, <3>2, <4>2
    <3>4. rdRead'[Checker].pc # "idle" => rdRead'[Checker].seen = rdRead[Checker].seen
      BY <1>c, <2>1, RdBounds
    <3>5. rdRead[Checker].pc # "idle" => \A v \in rdRead[Checker].seen : v \in rdGood => PmAge <= rdCheck.span
      BY <1>0 DEF CheckerInv
    <3> QED BY <1>u, <2>1, <3>1, <3>3, <3>4, <3>5 DEF CheckerInv, PmAge
  <2>2. CASE ~(rdRead[Checker].pc = "load" /\ rdRead[Checker].key = k)
    <3>1. rdRead'[Checker] = rdRead[Checker]
      BY <1>d, <2>2, RdBounds
    <3> QED BY <1>0, <1>u, <3>1 DEF CheckerInv, PmAge
  <2> QED BY <2>1, <2>2
<1>8. FilesInv'
  BY <1>0, <1>u DEF FilesInv, PmAge
<1>9. EngineInv'
  BY <1>0, <1>u DEF EngineInv, PmAge
<1>10. BlameInv'
  BY <1>0, <1>u DEF BlameInv
<1>11. LeftInv'
  BY <1>0, <1>u DEF LeftInv
<1>12. ClocksInv'
  BY <1>0, <1>u DEF ClocksInv, PmAge, PinInOrder
<1> QED BY <1>1, <1>2, <1>3, <1>4, <1>5, <1>6, <1>7, <1>8, <1>9, <1>10, <1>11, <1>12 DEF RdInv

LEMMA CheckedIs ==
    ASSUME NEW pc \in {"files", "engine"}
    PROVE  /\ Checked(pc) \in Checks
           /\ Checked(pc).pc = pc /\ Checked(pc).failed = {} /\ Checked(pc).span = 0
           /\ Checked(pc).left = IF pc = "files" THEN FileParts \cup {"pmtiles"} ELSE {}
           /\ Checked(pc).spoiled = (FileParts \cup {"worker"}) \ rdUp
<1>1. PICK left : left = IF pc = "files" THEN FileParts \cup {"pmtiles"} ELSE {}
  OBVIOUS
<1>2. PICK spoiled : spoiled = (FileParts \cup {"worker"}) \ rdUp
  OBVIOUS
<1>3. Checked(pc) = [pc |-> pc, left |-> left, failed |-> {}, span |-> 0, spoiled |-> spoiled]
  BY <1>1, <1>2 DEF Checked
<1>4. left \in SUBSET (FileParts \cup {"pmtiles"}) /\ spoiled \in SUBSET AllParts /\ 0 \in 0 .. MaxSpan
  BY <1>1, <1>2, RdBounds
<1> QED BY <1>1, <1>2, <1>3, <1>4 DEF Checks

LEMMA NoCheckIs ==
    ASSUME NEW failed \in SUBSET (FileParts \cup {"pmtiles", "engine"})
    PROVE  /\ NoCheck(failed) \in Checks
           /\ NoCheck(failed).pc = "idle" /\ NoCheck(failed).left = {} /\ NoCheck(failed).failed = failed
BY RdBounds DEF NoCheck, Checks

\* A monitor joins the check in flight, begins it from the files that are still
\* trusted, or begins it anew with a reader of the manifest.
LEMMA MonitorKeeps ==
    ASSUME RdInv, NEW m \in Monitors, MonitorAsks(m)
    PROVE  RdInv'
<1>0. WorldTypes /\ ManifestTypes /\ CheckTypes /\ ReadersInv /\ LoadsInv /\ PinCacheInv /\ CheckerInv
      /\ FilesInv /\ EngineInv /\ BlameInv /\ LeftInv /\ ClocksInv
  BY DEF RdInv
<1>u. UNCHANGED <<rdPin, rdLast, rdGood, rdUp, rdBreaks, rdLoads, rdCache, rdHandles, rdFs, rdEngine, rdRetry, rdOkAge>>
      /\ rdAsk' = rdAsk \cup {m}
  BY DEF MonitorAsks, rdWorld, rdClocks
<1>m. rdCheck \in Checks /\ rdCheck.span \in Nat /\ PinCache \in Nat /\ PinCache >= 1 /\ FsCache \in Nat
      /\ FsCache >= 1 /\ EngineCache \in Nat /\ EngineCache >= 1 /\ EngineRetry \in Nat /\ rdFs \in Nat
      /\ (\A q \in AllParts : rdOkAge[q] \in Nat) /\ PmAge \in Nat
  BY <1>0, RdBounds DEF CheckTypes, Checks, PmAge
<1>w. WorldTypes' /\ LoadsInv' /\ PinCacheInv' /\ ClocksInv'
  <2>1. WorldTypes'
    BY <1>0, <1>u DEF WorldTypes
  <2>2. LoadsInv'
    BY <1>0, <1>u DEF LoadsInv, PmAge
  <2>3. PinCacheInv'
    BY <1>0, <1>u DEF PinCacheInv, PmAge
  <2>4. ClocksInv'
    BY <1>0, <1>u DEF ClocksInv, PmAge, PinInOrder
  <2> QED BY <2>1, <2>2, <2>3, <2>4
<1>1. CASE rdCheck.pc # "idle" /\ UNCHANGED <<rdCheck, rdRead>>
  <2>1. ManifestTypes'
    BY <1>0, <1>1, <1>u DEF ManifestTypes
  <2>2. CheckTypes'
    BY <1>0, <1>1, <1>u DEF CheckTypes
  <2>3. ReadersInv'
    BY <1>0, <1>1, <1>u DEF ReadersInv, HasSeen, HasExcuse
  <2>4. CheckerInv'
    BY <1>0, <1>1, <1>u DEF CheckerInv, PmAge
  <2>5. FilesInv' /\ EngineInv' /\ BlameInv' /\ LeftInv'
    BY <1>0, <1>1, <1>u DEF FilesInv, EngineInv, BlameInv, LeftInv, PmAge
  <2> QED BY <1>w, <2>1, <2>2, <2>3, <2>4, <2>5 DEF RdInv
<1>2. CASE rdCheck.pc = "idle" /\ rdFs < FsCache /\ rdCheck' = Checked("engine") /\ rdRead' = rdRead
  <2>0. /\ rdCheck' \in Checks /\ rdCheck'.pc = "engine" /\ rdCheck'.failed = {} /\ rdCheck'.span = 0
        /\ rdCheck'.left = {} /\ rdCheck'.spoiled = (FileParts \cup {"worker"}) \ rdUp
    BY <1>2, CheckedIs
  <2>1. ManifestTypes'
    BY <1>0, <1>2, <1>u DEF ManifestTypes
  <2>2. CheckTypes'
    BY <1>0, <1>u, <2>0 DEF CheckTypes
  <2>3. ReadersInv'
    BY <1>0, <1>2, <1>u DEF ReadersInv, HasSeen, HasExcuse
  <2>4. CheckerInv'
    BY <1>0, <1>2, <1>u, <2>0 DEF CheckerInv
  <2>5. FilesInv' /\ BlameInv' /\ LeftInv'
    BY <1>u, <2>0 DEF FilesInv, BlameInv, LeftInv
  <2>6. EngineInv'
    <3>1. PmAge <= PinCache - 1 + rdFs /\ \A c \in FileParts : rdOkAge[c] <= rdFs
      BY <1>0, <1>2 DEF ClocksInv
    <3>2. PmAge <= FsCache - 1 + PinCache - 1 + 0 /\ \A c \in FileParts : rdOkAge[c] <= FsCache - 1 + 0
      BY <1>2, <1>m, <3>1, RdBounds
    <3> QED BY <1>u, <2>0, <3>2 DEF EngineInv, PmAge
  <2> QED BY <1>w, <2>1, <2>2, <2>3, <2>4, <2>5, <2>6 DEF RdInv
<1>3. CASE rdCheck.pc = "idle" /\ rdCheck' = Checked("files") /\ rdRead' = [rdRead EXCEPT ![Checker] = Begun]
  <2>0. /\ rdCheck' \in Checks /\ rdCheck'.pc = "files" /\ rdCheck'.failed = {} /\ rdCheck'.span = 0
        /\ rdCheck'.left = FileParts \cup {"pmtiles"} /\ rdCheck'.spoiled = (FileParts \cup {"worker"}) \ rdUp
    BY <1>3, CheckedIs
  <2>b. /\ ReadersInv' /\ rdRead' \in [Readers -> ReaderStates]
        /\ rdRead'[Checker].pc = "open" /\ rdRead'[Checker].seen = {rdPin}
    BY <1>3, <1>u, RdBounds, BegunFits
  <2>1. ManifestTypes'
    BY <1>0, <1>u, <2>b DEF ManifestTypes
  <2>2. CheckTypes'
    BY <1>0, <1>u, <2>0 DEF CheckTypes
  <2>4. CheckerInv'
    <3>1. rdPin \in rdGood => PmAge = 0
      BY <1>0 DEF ClocksInv, PinInOrder
    <3>2. \A v \in rdRead'[Checker].seen : v \in rdGood => PmAge <= 0
      BY <1>m, <2>b, <3>1
    <3> QED BY <1>u, <2>0, <2>b, <3>2 DEF CheckerInv, PmAge
  <2>5. FilesInv' /\ EngineInv' /\ BlameInv' /\ LeftInv'
    BY <1>u, <2>0 DEF FilesInv, EngineInv, BlameInv, LeftInv
  <2> QED BY <1>w, <2>b, <2>1, <2>2, <2>4, <2>5 DEF RdInv
<1> QED BY <1>1, <1>2, <1>3 DEF MonitorAsks

\* A part that settles is left no more, and is named if it failed.
LEMMA SettleIs ==
    ASSUME rdCheck \in Checks, NEW c, NEW passed \in BOOLEAN, PartSettles(c, passed)
    PROVE  /\ c \in rdCheck.left /\ c \in FileParts \cup {"pmtiles"}
           /\ rdCheck' \in Checks /\ rdCheck'.pc = rdCheck.pc /\ rdCheck'.span = rdCheck.span
           /\ rdCheck'.spoiled = rdCheck.spoiled
           /\ rdCheck'.left = rdCheck.left \ {c}
           /\ rdCheck'.failed = IF passed THEN rdCheck.failed ELSE rdCheck.failed \cup {c}
<1>1. PICK l : l = rdCheck.left \ {c}
  OBVIOUS
<1>2. PICK f : f = IF passed THEN rdCheck.failed ELSE rdCheck.failed \cup {c}
  OBVIOUS
<1>3. rdCheck' = [rdCheck EXCEPT !.left = l, !.failed = f] /\ c \in rdCheck.left
  BY <1>1, <1>2 DEF PartSettles
<1>4. c \in FileParts \cup {"pmtiles"} /\ l \in SUBSET (FileParts \cup {"pmtiles"})
      /\ f \in SUBSET (FileParts \cup {"pmtiles", "engine"})
  BY <1>1, <1>2, <1>3 DEF Checks
<1> QED BY <1>1, <1>2, <1>3, <1>4 DEF Checks

LEMMA CheckPartKeeps ==
    ASSUME RdInv, NEW c \in FileParts, CheckPart(c)
    PROVE  RdInv'
<1>0. WorldTypes /\ ManifestTypes /\ CheckTypes /\ ReadersInv /\ LoadsInv /\ PinCacheInv /\ CheckerInv
      /\ FilesInv /\ EngineInv /\ BlameInv /\ LeftInv /\ ClocksInv
  BY DEF RdInv
<1>u. UNCHANGED <<rdPin, rdLast, rdGood, rdUp, rdBreaks, rdRead, rdLoads, rdCache, rdHandles, rdAsk, rdFs, rdEngine, rdRetry, rdOkAge>>
  BY DEF CheckPart, rdWorld, rdClocks
<1>m. rdCheck \in Checks /\ rdCheck.span \in Nat /\ PinCache \in Nat /\ PinCache >= 1 /\ FsCache \in Nat
      /\ FsCache >= 1 /\ EngineCache \in Nat /\ EngineCache >= 1 /\ EngineRetry \in Nat /\ rdFs \in Nat
      /\ (\A q \in AllParts : rdOkAge[q] \in Nat) /\ PmAge \in Nat
  BY <1>0, RdBounds DEF CheckTypes, Checks, PmAge
<1>p. PICK passed \in BOOLEAN : passed = (c \in rdUp)
  <2>1. (c \in rdUp) \in BOOLEAN
    OBVIOUS
  <2> QED BY ONLY <2>1, Zenon
<1>s. /\ c \in rdCheck.left /\ rdCheck' \in Checks /\ rdCheck'.pc = rdCheck.pc /\ rdCheck'.span = rdCheck.span
      /\ rdCheck'.spoiled = rdCheck.spoiled /\ rdCheck'.left = rdCheck.left \ {c}
      /\ rdCheck'.failed = IF passed THEN rdCheck.failed ELSE rdCheck.failed \cup {c}
  <2>1. PartSettles(c, passed)
    BY <1>p DEF CheckPart
  <2> QED BY <1>m, <2>1, SettleIs
<1>c. c # "pmtiles" /\ c \in AllParts /\ rdCheck.pc = "files"
  BY <1>0, <1>s, RdBounds DEF LeftInv
<1>1. WorldTypes'
  BY <1>0, <1>u DEF WorldTypes
<1>2. ManifestTypes'
  BY <1>0, <1>u DEF ManifestTypes
<1>3. CheckTypes'
  BY <1>0, <1>u, <1>s DEF CheckTypes
<1>4. ReadersInv'
  BY <1>0, <1>u DEF ReadersInv, HasSeen, HasExcuse
<1>5. LoadsInv'
  BY <1>0, <1>u DEF LoadsInv, PmAge
<1>6. PinCacheInv'
  BY <1>0, <1>u DEF PinCacheInv, PmAge
<1>7. CheckerInv'
  BY <1>0, <1>u, <1>s, <1>c DEF CheckerInv, PmAge
<1>8. FilesInv'
  <2>1. "pmtiles" \notin rdCheck'.left \cup rdCheck'.failed => PmAge <= PinCache - 1 + rdCheck.span
    BY <1>0, <1>s, <1>c DEF FilesInv
  <2>2. ASSUME NEW d \in FileParts, d \notin rdCheck'.left \cup rdCheck'.failed PROVE rdOkAge[d] <= rdCheck.span
    <3>1. CASE d = c
      <4>1. c \in rdUp
        BY <1>p, <1>s, <2>2, <3>1
      <4>2. rdOkAge[c] = 0
        BY <1>0, <4>1 DEF ClocksInv
      <4> QED BY <1>m, <3>1, <4>2
    <3>2. CASE d # c
      <4>1. d \notin rdCheck.left \cup rdCheck.failed
        BY <1>s, <2>2, <3>2
      <4> QED BY <1>0, <1>c, <4>1 DEF FilesInv
    <3> QED BY <3>1, <3>2
  <2> QED BY <1>u, <1>s, <2>1, <2>2 DEF FilesInv, PmAge
<1>9. EngineInv'
  BY <1>s, <1>c DEF EngineInv
<1>10. BlameInv'
  <2>1. c \in rdUp \/ c \in rdCheck.spoiled
    BY <1>0, <1>c DEF BlameInv
  <2> QED BY <1>0, <1>u, <1>s, <1>p, <1>c, <2>1 DEF BlameInv
<1>11. LeftInv'
  BY <1>s, <1>c DEF LeftInv
<1>12. ClocksInv'
  BY <1>0, <1>u DEF ClocksInv, PmAge, PinInOrder
<1> QED BY <1>1, <1>2, <1>3, <1>4, <1>5, <1>6, <1>7, <1>8, <1>9, <1>10, <1>11, <1>12 DEF RdInv

LEMMA CheckPmtilesKeeps ==
    ASSUME RdInv, CheckPmtiles
    PROVE  RdInv'
<1>0. WorldTypes /\ ManifestTypes /\ CheckTypes /\ ReadersInv /\ LoadsInv /\ PinCacheInv /\ CheckerInv
      /\ FilesInv /\ EngineInv /\ BlameInv /\ LeftInv /\ ClocksInv
  BY DEF RdInv
<1>u. UNCHANGED <<rdPin, rdLast, rdGood, rdUp, rdBreaks, rdLoads, rdCache, rdHandles, rdAsk, rdFs, rdEngine, rdRetry, rdOkAge>>
  BY DEF CheckPmtiles, rdWorld, rdClocks
<1>m. rdCheck \in Checks /\ rdCheck.span \in Nat /\ PinCache \in Nat /\ PinCache >= 1 /\ FsCache \in Nat
      /\ FsCache >= 1 /\ EngineCache \in Nat /\ EngineCache >= 1 /\ EngineRetry \in Nat /\ rdFs \in Nat
      /\ (\A q \in AllParts : rdOkAge[q] \in Nat) /\ PmAge \in Nat
  BY <1>0, RdBounds DEF CheckTypes, Checks, PmAge
<1>p. PICK passed \in BOOLEAN : passed = (rdRead[Checker].got = "manifest")
  OBVIOUS
<1>s. /\ "pmtiles" \in rdCheck.left /\ rdCheck' \in Checks /\ rdCheck'.pc = rdCheck.pc /\ rdCheck'.span = rdCheck.span
      /\ rdCheck'.spoiled = rdCheck.spoiled /\ rdCheck'.left = rdCheck.left \ {"pmtiles"}
      /\ rdCheck'.failed = IF passed THEN rdCheck.failed ELSE rdCheck.failed \cup {"pmtiles"}
  <2>1. PartSettles("pmtiles", passed)
    BY <1>p DEF CheckPmtiles
  <2> QED BY <1>m, <2>1, SettleIs
<1>c. rdCheck.pc = "files" /\ rdRead[Checker].pc = "idle" /\ "pmtiles" \notin FileParts
  BY <1>0, <1>s, RdBounds DEF LeftInv, CheckPmtiles
<1>r. /\ rdRead' \in [Readers -> ReaderStates] /\ rdRead'[Checker].pc = "idle" /\ rdRead'[Checker].got = "none"
      /\ \A r \in Readers \ {Checker} : rdRead'[r] = rdRead[r]
  <2>1. rdRead' = [rdRead EXCEPT ![Checker] = Resting("none", NoKey)] /\ rdRead \in [Readers -> ReaderStates]
    BY <1>0 DEF CheckPmtiles, ManifestTypes
  <2>2. Resting("none", NoKey) \in ReaderStates /\ Resting("none", NoKey).pc = "idle"
        /\ Resting("none", NoKey).got = "none"
    BY RestingIs
  <2>3. rdRead'[Checker] = Resting("none", NoKey)
    BY <2>1, RdBounds
  <2> HIDE DEF Resting
  <2> QED BY <2>1, <2>2, <2>3
<1>1. WorldTypes'
  BY <1>0, <1>u DEF WorldTypes
<1>2. ManifestTypes'
  BY <1>0, <1>u, <1>r DEF ManifestTypes
<1>3. CheckTypes'
  BY <1>0, <1>u, <1>s DEF CheckTypes
<1>4. ReadersInv'
  <2> SUFFICES ASSUME NEW r \in Readers, rdRead'[r].pc # "idle" PROVE HasSeen(r)' /\ HasExcuse(r)'
    BY DEF ReadersInv
  <2>1. rdRead'[r] = rdRead[r]
    BY <1>r
  <2> QED BY <1>0, <1>u, <2>1 DEF ReadersInv, HasSeen, HasExcuse
<1>5. LoadsInv'
  BY <1>0, <1>u DEF LoadsInv, PmAge
<1>6. PinCacheInv'
  BY <1>0, <1>u DEF PinCacheInv, PmAge
<1>7. CheckerInv'
  BY <1>r, <1>s DEF CheckerInv
<1>8. FilesInv'
  <2>1. "pmtiles" \notin rdCheck'.left \cup rdCheck'.failed => PmAge <= PinCache - 1 + rdCheck.span
    BY <1>0, <1>s, <1>c, <1>p DEF CheckerInv
  <2>2. \A d \in FileParts : d \notin rdCheck'.left \cup rdCheck'.failed => rdOkAge[d] <= rdCheck.span
    BY <1>0, <1>s, <1>c DEF FilesInv
  <2> QED BY <1>u, <1>s, <2>1, <2>2 DEF FilesInv, PmAge
<1>9. EngineInv'
  BY <1>s, <1>c DEF EngineInv
<1>10. BlameInv'
  BY <1>0, <1>u, <1>s, <1>c DEF BlameInv
<1>11. LeftInv'
  BY <1>s, <1>c DEF LeftInv
<1>12. ClocksInv'
  BY <1>0, <1>u DEF ClocksInv, PmAge, PinInOrder
<1> QED BY <1>1, <1>2, <1>3, <1>4, <1>5, <1>6, <1>7, <1>8, <1>9, <1>10, <1>11, <1>12 DEF RdInv

LEMMA FilesCheckedKeep ==
    ASSUME RdInv, FilesChecked
    PROVE  RdInv'
<1>0. WorldTypes /\ ManifestTypes /\ CheckTypes /\ ReadersInv /\ LoadsInv /\ PinCacheInv /\ CheckerInv
      /\ FilesInv /\ EngineInv /\ BlameInv /\ LeftInv /\ ClocksInv
  BY DEF RdInv
<1>u. UNCHANGED <<rdPin, rdLast, rdGood, rdUp, rdBreaks, rdRead, rdLoads, rdCache, rdHandles, rdAsk, rdEngine, rdRetry, rdOkAge>>
  BY DEF FilesChecked, rdWorld, rdClocks
<1>m. rdCheck \in Checks /\ rdCheck.span \in Nat /\ PinCache \in Nat /\ PinCache >= 1 /\ FsCache \in Nat
      /\ FsCache >= 1 /\ EngineCache \in Nat /\ EngineCache >= 1 /\ EngineRetry \in Nat /\ rdFs \in Nat
      /\ (\A q \in AllParts : rdOkAge[q] \in Nat) /\ PmAge \in Nat
  BY <1>0, RdBounds DEF CheckTypes, Checks, PmAge
<1>s. /\ rdCheck.pc = "files" /\ rdCheck.left = {} /\ rdCheck' \in Checks /\ rdCheck'.pc = "engine"
      /\ rdCheck'.left = {} /\ rdCheck'.failed = rdCheck.failed /\ rdCheck'.span = rdCheck.span
      /\ rdCheck'.spoiled = rdCheck.spoiled
  <2>1. rdCheck.pc = "files" /\ rdCheck.left = {} /\ rdCheck' = [rdCheck EXCEPT !.pc = "engine"]
    BY DEF FilesChecked
  <2> QED BY <1>m, <2>1 DEF Checks
<1>a. rdCheck.failed = {} => /\ PmAge <= PinCache - 1 + rdCheck.span
                             /\ \A c \in FileParts : rdOkAge[c] <= rdCheck.span
  BY <1>0, <1>s DEF FilesInv
<1>f. rdFs' = IF rdCheck.failed = {} THEN CappedAt(rdCheck.span, FsCache) ELSE FsCache
  BY DEF FilesChecked, FsAge
<1>g. rdFs' \in 0 .. FsCache /\ (rdFs' < FsCache => rdCheck.failed = {} /\ rdFs' = rdCheck.span)
  <2>1. CASE rdCheck.failed = {}
    BY <1>f, <1>m, <2>1 DEF CappedAt
  <2>2. CASE rdCheck.failed # {}
    BY <1>f, <1>m, <2>2
  <2> QED BY <2>1, <2>2
<1>1. WorldTypes'
  BY <1>0, <1>u DEF WorldTypes
<1>2. ManifestTypes'
  BY <1>0, <1>u DEF ManifestTypes
<1>3. CheckTypes'
  BY <1>0, <1>u, <1>s, <1>g DEF CheckTypes
<1>4. ReadersInv'
  BY <1>0, <1>u DEF ReadersInv, HasSeen, HasExcuse
<1>5. LoadsInv'
  BY <1>0, <1>u DEF LoadsInv, PmAge
<1>6. PinCacheInv'
  BY <1>0, <1>u DEF PinCacheInv, PmAge
<1>7. CheckerInv'
  BY <1>0, <1>u, <1>s DEF CheckerInv
<1>8. FilesInv'
  BY <1>s DEF FilesInv
<1>9. EngineInv'
  <2>1. rdCheck.failed = {} => /\ PmAge <= FsCache - 1 + PinCache - 1 + rdCheck.span
                               /\ \A c \in FileParts : rdOkAge[c] <= FsCache - 1 + rdCheck.span
    BY <1>a, <1>m, RdBounds
  <2> QED BY <1>u, <1>s, <2>1 DEF EngineInv, PmAge
<1>10. BlameInv'
  BY <1>0, <1>u, <1>s DEF BlameInv
<1>11. LeftInv'
  BY <1>s DEF LeftInv
<1>12. ClocksInv'
  <2>1. rdFs' < FsCache => PmAge <= PinCache - 1 + rdFs' /\ \A c \in FileParts : rdOkAge[c] <= rdFs'
    BY <1>a, <1>g
  <2> QED BY <1>0, <1>u, <2>1 DEF ClocksInv, PmAge, PinInOrder
<1> QED BY <1>1, <1>2, <1>3, <1>4, <1>5, <1>6, <1>7, <1>8, <1>9, <1>10, <1>11, <1>12 DEF RdInv

LEMMA EngineKnownKeeps ==
    ASSUME RdInv, EngineKnown
    PROVE  RdInv'
<1>0. WorldTypes /\ ManifestTypes /\ CheckTypes /\ ReadersInv /\ LoadsInv /\ PinCacheInv /\ CheckerInv
      /\ FilesInv /\ EngineInv /\ BlameInv /\ LeftInv /\ ClocksInv
  BY DEF RdInv
<1>u. UNCHANGED <<rdPin, rdLast, rdGood, rdUp, rdBreaks, rdRead, rdLoads, rdCache, rdHandles, rdFs, rdEngine, rdRetry, rdOkAge>>
  BY DEF EngineKnown, rdWorld, rdClocks
<1>m. rdCheck \in Checks /\ rdCheck.span \in Nat /\ PinCache \in Nat /\ PinCache >= 1 /\ FsCache \in Nat
      /\ FsCache >= 1 /\ EngineCache \in Nat /\ EngineCache >= 1 /\ EngineRetry \in Nat /\ rdFs \in Nat
      /\ (\A q \in AllParts : rdOkAge[q] \in Nat) /\ PmAge \in Nat
  BY <1>0, RdBounds DEF CheckTypes, Checks, PmAge
<1>i. rdCheck.pc # "files" /\ rdRead[Checker].pc = "idle"
  BY <1>0 DEF CheckerInv, EngineKnown
<1>f. PICK failed \in SUBSET (FileParts \cup {"pmtiles", "engine"}) : rdCheck' = NoCheck(failed) /\ rdAsk' = {}
  BY <1>m DEF EngineKnown, RdVerdict, Checks
<1>v. rdCheck' \in Checks /\ rdCheck'.pc = "idle" /\ rdCheck'.left = {}
  BY <1>f, NoCheckIs
<1>1. WorldTypes'
  BY <1>0, <1>u DEF WorldTypes
<1>2. ManifestTypes'
  BY <1>0, <1>u DEF ManifestTypes
<1>3. CheckTypes'
  BY <1>0, <1>u, <1>f, <1>v DEF CheckTypes
<1>4. ReadersInv'
  BY <1>0, <1>u DEF ReadersInv, HasSeen, HasExcuse
<1>5. LoadsInv'
  BY <1>0, <1>u DEF LoadsInv, PmAge
<1>6. PinCacheInv'
  BY <1>0, <1>u DEF PinCacheInv, PmAge
<1>7. CheckerInv'
  BY <1>u, <1>i, <1>v DEF CheckerInv
<1>8. FilesInv'
  BY <1>v DEF FilesInv
<1>9. EngineInv'
  BY <1>v DEF EngineInv
<1>10. BlameInv'
  BY <1>v DEF BlameInv
<1>11. LeftInv'
  BY <1>v DEF LeftInv
<1>12. ClocksInv'
  BY <1>0, <1>u DEF ClocksInv, PmAge, PinInOrder
<1> QED BY <1>1, <1>2, <1>3, <1>4, <1>5, <1>6, <1>7, <1>8, <1>9, <1>10, <1>11, <1>12 DEF RdInv

LEMMA ProbeStartKeeps ==
    ASSUME RdInv, StartProbe
    PROVE  RdInv'
<1>0. WorldTypes /\ ManifestTypes /\ CheckTypes /\ ReadersInv /\ LoadsInv /\ PinCacheInv /\ CheckerInv
      /\ FilesInv /\ EngineInv /\ BlameInv /\ LeftInv /\ ClocksInv
  BY DEF RdInv
<1>u. UNCHANGED <<rdPin, rdLast, rdGood, rdUp, rdBreaks, rdRead, rdLoads, rdCache, rdHandles, rdAsk, rdFs, rdEngine, rdRetry, rdOkAge>>
  BY DEF StartProbe, rdWorld, rdClocks
<1>m. rdCheck \in Checks /\ rdCheck.span \in Nat /\ PinCache \in Nat /\ PinCache >= 1 /\ FsCache \in Nat
      /\ FsCache >= 1 /\ EngineCache \in Nat /\ EngineCache >= 1 /\ EngineRetry \in Nat /\ rdFs \in Nat
      /\ (\A q \in AllParts : rdOkAge[q] \in Nat) /\ PmAge \in Nat
  BY <1>0, RdBounds DEF CheckTypes, Checks, PmAge
<1>s. /\ rdCheck.pc = "engine" /\ rdCheck' \in Checks /\ rdCheck'.pc = "probe"
      /\ rdCheck'.left = rdCheck.left /\ rdCheck'.failed = rdCheck.failed /\ rdCheck'.span = rdCheck.span
      /\ rdCheck'.spoiled = rdCheck.spoiled
  <2>1. rdCheck.pc = "engine" /\ rdCheck' = [rdCheck EXCEPT !.pc = "probe"]
    BY DEF StartProbe
  <2> QED BY <1>m, <2>1 DEF Checks
<1>1. WorldTypes'
  BY <1>0, <1>u DEF WorldTypes
<1>2. ManifestTypes'
  BY <1>0, <1>u DEF ManifestTypes
<1>3. CheckTypes'
  BY <1>0, <1>u, <1>s DEF CheckTypes
<1>4. ReadersInv'
  BY <1>0, <1>u DEF ReadersInv, HasSeen, HasExcuse
<1>5. LoadsInv'
  BY <1>0, <1>u DEF LoadsInv, PmAge
<1>6. PinCacheInv'
  BY <1>0, <1>u DEF PinCacheInv, PmAge
<1>7. CheckerInv'
  BY <1>0, <1>u, <1>s DEF CheckerInv
<1>8. FilesInv'
  BY <1>s DEF FilesInv
<1>9. EngineInv'
  BY <1>0, <1>u, <1>s DEF EngineInv, PmAge
<1>10. BlameInv'
  BY <1>0, <1>u, <1>s DEF BlameInv
<1>11. LeftInv'
  BY <1>0, <1>s DEF LeftInv
<1>12. ClocksInv'
  BY <1>0, <1>u DEF ClocksInv, PmAge, PinInOrder
<1> QED BY <1>1, <1>2, <1>3, <1>4, <1>5, <1>6, <1>7, <1>8, <1>9, <1>10, <1>11, <1>12 DEF RdInv

LEMMA ProbeAnswerKeeps ==
    ASSUME RdInv, ProbeAnswers
    PROVE  RdInv'
<1>0. WorldTypes /\ ManifestTypes /\ CheckTypes /\ ReadersInv /\ LoadsInv /\ PinCacheInv /\ CheckerInv
      /\ FilesInv /\ EngineInv /\ BlameInv /\ LeftInv /\ ClocksInv
  BY DEF RdInv
<1>u. UNCHANGED <<rdPin, rdLast, rdGood, rdUp, rdBreaks, rdRead, rdLoads, rdCache, rdHandles, rdFs, rdRetry, rdOkAge>>
  BY DEF ProbeAnswers, rdWorld, rdClocks
<1>m. rdCheck \in Checks /\ rdCheck.span \in Nat /\ PinCache \in Nat /\ PinCache >= 1 /\ FsCache \in Nat
      /\ FsCache >= 1 /\ EngineCache \in Nat /\ EngineCache >= 1 /\ EngineRetry \in Nat /\ rdFs \in Nat
      /\ (\A q \in AllParts : rdOkAge[q] \in Nat) /\ PmAge \in Nat
  BY <1>0, RdBounds DEF CheckTypes, Checks, PmAge
<1>i. rdCheck.pc # "files" /\ rdRead[Checker].pc = "idle"
  BY <1>0 DEF CheckerInv, ProbeAnswers
<1>f. PICK failed \in SUBSET (FileParts \cup {"pmtiles", "engine"}) : rdCheck' = NoCheck(failed) /\ rdAsk' = {}
  BY <1>m DEF ProbeAnswers, RdVerdict, Checks
<1>v. rdCheck' \in Checks /\ rdCheck'.pc = "idle" /\ rdCheck'.left = {}
  BY <1>f, NoCheckIs
<1>e. rdEngine' = EngineCache /\ "worker" \in rdUp
  BY DEF ProbeAnswers
<1>1. WorldTypes'
  BY <1>0, <1>u DEF WorldTypes
<1>2. ManifestTypes'
  BY <1>0, <1>u DEF ManifestTypes
<1>3. CheckTypes'
  BY <1>0, <1>u, <1>f, <1>v, <1>e, <1>m DEF CheckTypes
<1>4. ReadersInv'
  BY <1>0, <1>u DEF ReadersInv, HasSeen, HasExcuse
<1>5. LoadsInv'
  BY <1>0, <1>u DEF LoadsInv, PmAge
<1>6. PinCacheInv'
  BY <1>0, <1>u DEF PinCacheInv, PmAge
<1>7. CheckerInv'
  BY <1>u, <1>i, <1>v DEF CheckerInv
<1>8. FilesInv'
  BY <1>v DEF FilesInv
<1>9. EngineInv'
  BY <1>v DEF EngineInv
<1>10. BlameInv'
  BY <1>v DEF BlameInv
<1>11. LeftInv'
  BY <1>v DEF LeftInv
<1>12. ClocksInv'
  <2>1. rdOkAge["worker"] = 0
    BY <1>0, <1>e DEF ClocksInv
  <2>2. rdEngine' > 0 => rdOkAge["worker"] <= EngineCache - rdEngine'
    BY <1>e, <1>m, <2>1
  <2> QED BY <1>0, <1>u, <2>2 DEF ClocksInv, PmAge, PinInOrder
<1> QED BY <1>1, <1>2, <1>3, <1>4, <1>5, <1>6, <1>7, <1>8, <1>9, <1>10, <1>11, <1>12 DEF RdInv

LEMMA ProbeFailKeeps ==
    ASSUME RdInv, ProbeFails
    PROVE  RdInv'
<1>0. WorldTypes /\ ManifestTypes /\ CheckTypes /\ ReadersInv /\ LoadsInv /\ PinCacheInv /\ CheckerInv
      /\ FilesInv /\ EngineInv /\ BlameInv /\ LeftInv /\ ClocksInv
  BY DEF RdInv
<1>u. UNCHANGED <<rdPin, rdLast, rdGood, rdUp, rdRead, rdLoads, rdCache, rdHandles, rdFs, rdOkAge>>
  BY DEF ProbeFails, rdWorld, rdClocks
<1>m. rdCheck \in Checks /\ rdCheck.span \in Nat /\ PinCache \in Nat /\ PinCache >= 1 /\ FsCache \in Nat
      /\ FsCache >= 1 /\ EngineCache \in Nat /\ EngineCache >= 1 /\ EngineRetry \in Nat /\ rdFs \in Nat
      /\ (\A q \in AllParts : rdOkAge[q] \in Nat) /\ PmAge \in Nat
  BY <1>0, RdBounds DEF CheckTypes, Checks, PmAge
<1>i. rdCheck.pc # "files" /\ rdRead[Checker].pc = "idle"
  BY <1>0 DEF CheckerInv, ProbeFails
<1>f. PICK failed \in SUBSET (FileParts \cup {"pmtiles", "engine"}) : rdCheck' = NoCheck(failed) /\ rdAsk' = {}
  BY <1>m DEF ProbeFails, RdVerdict, Checks
<1>v. rdCheck' \in Checks /\ rdCheck'.pc = "idle" /\ rdCheck'.left = {}
  BY <1>f, NoCheckIs
<1>e. rdEngine' = 0 /\ rdRetry' = EngineRetry
  BY DEF ProbeFails
<1>b. rdBreaks' \in 0 .. MaxEvents
  <2>1. /\ rdLast \in 1 .. MaxPins /\ rdBreaks \in 0 .. MaxEvents /\ MaxPins \in Nat /\ MaxEvents \in Nat
    BY <1>0, RdBounds DEF WorldTypes
  <2>2. (rdLast - 1 + rdBreaks < MaxEvents /\ rdBreaks' = rdBreaks + 1) \/ rdBreaks' = rdBreaks
    BY DEF ProbeFails, MayHappen
  <2> QED BY <2>1, <2>2
<1>1. WorldTypes'
  BY <1>0, <1>u, <1>b DEF WorldTypes
<1>2. ManifestTypes'
  BY <1>0, <1>u DEF ManifestTypes
<1>3. CheckTypes'
  BY <1>0, <1>u, <1>f, <1>v, <1>e, <1>m DEF CheckTypes
<1>4. ReadersInv'
  BY <1>0, <1>u DEF ReadersInv, HasSeen, HasExcuse
<1>5. LoadsInv'
  BY <1>0, <1>u DEF LoadsInv, PmAge
<1>6. PinCacheInv'
  BY <1>0, <1>u DEF PinCacheInv, PmAge
<1>7. CheckerInv'
  BY <1>u, <1>i, <1>v DEF CheckerInv
<1>8. FilesInv'
  BY <1>v DEF FilesInv
<1>9. EngineInv'
  BY <1>v DEF EngineInv
<1>10. BlameInv'
  BY <1>v DEF BlameInv
<1>11. LeftInv'
  BY <1>v DEF LeftInv
<1>12. ClocksInv'
  BY <1>0, <1>u, <1>e DEF ClocksInv, PmAge, PinInOrder
<1> QED BY <1>1, <1>2, <1>3, <1>4, <1>5, <1>6, <1>7, <1>8, <1>9, <1>10, <1>11, <1>12 DEF RdInv

\* A tick ages what the caches and the check hold, and every part that is out
\* of order with it.
LEMMA TickKeepsReady ==
    ASSUME RdInv, RdTick
    PROVE  RdInv'
<1>0. WorldTypes /\ ManifestTypes /\ CheckTypes /\ ReadersInv /\ LoadsInv /\ PinCacheInv /\ CheckerInv
      /\ FilesInv /\ EngineInv /\ BlameInv /\ LeftInv /\ ClocksInv
  BY DEF RdInv
<1>u. UNCHANGED <<rdPin, rdLast, rdGood, rdUp, rdBreaks, rdLoads, rdHandles, rdAsk>>
  BY DEF RdTick, rdWorld, rdClocks
<1>m. rdCheck \in Checks /\ rdCheck.span \in Nat /\ PinCache \in Nat /\ PinCache >= 1 /\ FsCache \in Nat
      /\ FsCache >= 1 /\ EngineCache \in Nat /\ EngineCache >= 1 /\ EngineRetry \in Nat /\ rdFs \in Nat
      /\ (\A q \in AllParts : rdOkAge[q] \in Nat) /\ PmAge \in Nat
  BY <1>0, RdBounds DEF CheckTypes, Checks, PmAge
<1>l. \A k \in PinKeys : rdLoads[k] \in {"none", "validate"}
  BY DEF RdTick
<1>r. /\ rdRead' \in [Readers -> ReaderStates]
      /\ \A r \in Readers : rdRead[r].pc = "idle" => rdRead'[r].pc = "idle"
      /\ \A r \in Readers : rdRead[r].pc # "idle" => rdRead'[r] = rdRead[r]
      /\ rdRead'[Checker] = rdRead[Checker]
  <2>1. rdRead' = [r \in Readers |-> IF rdRead[r].pc = "idle" /\ r \in Routes
                                    THEN Resting("none", NoKey) ELSE rdRead[r]]
        /\ rdRead \in [Readers -> ReaderStates]
    BY <1>0 DEF RdTick, ManifestTypes
  <2>2. Resting("none", NoKey) \in ReaderStates /\ Resting("none", NoKey).pc = "idle"
    BY RestingIs
  <2> HIDE DEF Resting
  <2> QED BY <2>1, <2>2, RdBounds
<1>c. /\ rdCheck' \in Checks /\ rdCheck'.pc = rdCheck.pc
      /\ rdCheck.pc = "idle" => rdCheck'.left = {}
      /\ rdCheck.pc # "idle" => /\ rdCheck'.span = rdCheck.span + 1
                                 /\ rdCheck'.left = rdCheck.left /\ rdCheck'.failed = rdCheck.failed
                                 /\ rdCheck'.spoiled = rdCheck.spoiled
  <2>1. CASE rdCheck.pc = "idle"
    <3>1. rdCheck' = NoCheck({})
      BY <2>1 DEF RdTick
    <3> QED BY <2>1, <3>1, NoCheckIs
  <2>2. CASE rdCheck.pc # "idle"
    <3>1. PICK n : n = rdCheck.span + 1
      OBVIOUS
    <3>2. rdCheck' = [rdCheck EXCEPT !.span = n] /\ rdCheck.span < MaxSpan
      BY <2>2, <3>1 DEF RdTick
    <3>3. n \in 0 .. MaxSpan
      BY <1>m, <3>1, <3>2, RdBounds
    <3> QED BY <1>m, <2>2, <3>1, <3>2, <3>3 DEF Checks
  <2> QED BY <2>1, <2>2
<1>o. /\ rdOkAge' \in [AllParts -> Nat]
      /\ \A q \in AllParts : rdOkAge'[q] <= rdOkAge[q] + 1
      /\ \A q \in AllParts : rdOkAge'[q] <= AgeMax(q)
      /\ \A q \in rdUp : rdOkAge'[q] = 0
      /\ PinInOrder => rdOkAge'["pmtiles"] = 0
  <2>1. rdOkAge' = [q \in AllParts |-> IF RdInOrder(q) THEN 0 ELSE CappedAt(rdOkAge[q] + 1, AgeMax(q))]
    BY DEF RdTick
  <2>2. ASSUME NEW q \in AllParts
        PROVE  /\ rdOkAge'[q] \in Nat /\ rdOkAge'[q] <= rdOkAge[q] + 1 /\ rdOkAge'[q] <= AgeMax(q)
               /\ RdInOrder(q) => rdOkAge'[q] = 0
    <3>1. PICK a \in Nat : a = AgeMax(q)
      BY AgeMaxIs
    <3>2. PICK o \in Nat : o = rdOkAge[q]
      BY <1>m
    <3>3. rdOkAge'[q] = IF RdInOrder(q) THEN 0 ELSE CappedAt(o + 1, a)
      BY <2>1, <3>1, <3>2
    <3>4. CASE RdInOrder(q)
      BY <3>1, <3>2, <3>3, <3>4
    <3>5. CASE ~RdInOrder(q)
      BY <3>1, <3>2, <3>3, <3>5 DEF CappedAt
    <3> QED BY <3>4, <3>5
  <2>3. rdOkAge' \in [AllParts -> Nat]
    <3>1. \A q \in AllParts : rdOkAge'[q] \in Nat
      BY <2>2
    <3> QED BY <2>1, <3>1
  <2>4. \A q \in AllParts : rdOkAge'[q] <= rdOkAge[q] + 1
    BY <2>2
  <2>5. \A q \in AllParts : rdOkAge'[q] <= AgeMax(q)
    BY <2>2
  <2>6. ASSUME NEW q \in rdUp PROVE rdOkAge'[q] = 0
    <3>1. q \in AllParts /\ q # "pmtiles"
      BY <1>0, RdBounds DEF WorldTypes
    <3>2. RdInOrder(q)
      BY <3>1 DEF RdInOrder
    <3> QED BY <2>2, <3>1, <3>2
  <2>7. PinInOrder => rdOkAge'["pmtiles"] = 0
    <3>1. RdInOrder("pmtiles") <=> PinInOrder
      BY DEF RdInOrder
    <3> QED BY <2>2, <3>1, RdBounds
  <2> QED BY <2>3, <2>4, <2>5, <2>6, <2>7
<1>k. /\ rdCache' = [rdCache EXCEPT !.age = CappedAt(rdCache.age + 1, PinCache)]
      /\ rdCache'.key = rdCache.key /\ rdCache' \in [key : PinKeys \cup {NoKey}, age : 0 .. PinCache]
      /\ rdCache'.age < PinCache => rdCache'.age = rdCache.age + 1
  <2>1. rdCache \in [key : PinKeys \cup {NoKey}, age : 0 .. PinCache]
    BY <1>0 DEF ManifestTypes
  <2>2. PICK a : a = CappedAt(rdCache.age + 1, PinCache)
    OBVIOUS
  <2>3. a \in 0 .. PinCache /\ (a < PinCache => a = rdCache.age + 1)
    BY <1>m, <2>1, <2>2 DEF CappedAt
  <2>4. rdCache' = [rdCache EXCEPT !.age = a]
    BY <2>2 DEF RdTick
  <2> QED BY <2>1, <2>2, <2>3, <2>4
<1>t. /\ rdFs' \in 0 .. FsCache /\ (rdFs' < FsCache => rdFs' = rdFs + 1)
      /\ rdEngine' \in 0 .. EngineCache /\ (rdEngine' > 0 => rdEngine' = rdEngine - 1)
      /\ rdRetry' \in 0 .. EngineRetry
      /\ rdFs \in 0 .. FsCache /\ rdEngine \in 0 .. EngineCache
  <2>1. rdFs \in 0 .. FsCache /\ rdEngine \in 0 .. EngineCache /\ rdRetry \in 0 .. EngineRetry
    BY <1>0 DEF CheckTypes
  <2>2. rdFs' = CappedAt(rdFs + 1, FsCache) /\ rdEngine' = OneLess(rdEngine) /\ rdRetry' = OneLess(rdRetry)
    BY DEF RdTick
  <2> QED BY <1>m, <2>1, <2>2 DEF CappedAt, OneLess
<1>p. PmAge' \in Nat /\ PmAge' <= PmAge + 1 /\ (PinInOrder => PmAge' = 0)
  BY <1>o, RdBounds DEF PmAge
<1>1. WorldTypes'
  BY <1>0, <1>u DEF WorldTypes
<1>2. ManifestTypes'
  BY <1>0, <1>u, <1>r, <1>k DEF ManifestTypes
<1>3. CheckTypes'
  BY <1>0, <1>u, <1>c, <1>t, <1>o DEF CheckTypes
<1>4. ReadersInv'
  <2> SUFFICES ASSUME NEW r \in Readers, rdRead'[r].pc # "idle" PROVE HasSeen(r)' /\ HasExcuse(r)'
    BY DEF ReadersInv
  <2>1. rdRead'[r] = rdRead[r]
    BY <1>r
  <2> QED BY <1>0, <1>u, <2>1 DEF ReadersInv, HasSeen, HasExcuse
<1>5. LoadsInv'
  <2>1. \A k \in PinKeys : rdLoads[k] \notin {"stat", "done"}
    BY <1>l
  <2> QED BY <1>0, <1>u, <2>1 DEF LoadsInv
<1>6. PinCacheInv'
  <2> SUFFICES ASSUME rdCache'.age < PinCache PROVE rdCache.key[1] \in rdGood \/ PmAge' <= rdCache'.age
    BY <1>u, <1>k DEF PinCacheInv
  <2>1. rdCache'.age = rdCache.age + 1 /\ rdCache.age \in Nat
    BY <1>0, <1>k DEF ManifestTypes
  <2>2. rdCache.key[1] \in rdGood \/ PmAge <= rdCache.age
    BY <1>0, <1>m, <2>1 DEF PinCacheInv
  <2> QED BY <1>m, <1>p, <2>1, <2>2
<1>7. CheckerInv'
  <2>1. rdRead[Checker].pc # "idle" =>
            /\ rdCheck'.pc = "files" /\ "pmtiles" \in rdCheck'.left
            /\ \A v \in rdRead[Checker].seen : v \in rdGood => PmAge' <= rdCheck'.span
    <3> SUFFICES ASSUME rdRead[Checker].pc # "idle"
                 PROVE  /\ rdCheck'.pc = "files" /\ "pmtiles" \in rdCheck'.left
                        /\ \A v \in rdRead[Checker].seen : v \in rdGood => PmAge' <= rdCheck'.span
      OBVIOUS
    <3>1. rdCheck.pc = "files" /\ "pmtiles" \in rdCheck.left
          /\ \A v \in rdRead[Checker].seen : v \in rdGood => PmAge <= rdCheck.span
      BY <1>0 DEF CheckerInv
    <3>2. rdCheck'.span = rdCheck.span + 1 /\ rdCheck'.left = rdCheck.left
      BY <1>c, <3>1
    <3> QED BY <1>c, <1>m, <1>p, <3>1, <3>2
  <2>2. rdCheck'.pc = "files" /\ "pmtiles" \in rdCheck'.left /\ rdRead[Checker].pc = "idle"
          /\ rdRead[Checker].got = "manifest" => PmAge' <= PinCache - 1 + rdCheck'.span
    <3> SUFFICES ASSUME rdCheck'.pc = "files", "pmtiles" \in rdCheck'.left, rdRead[Checker].pc = "idle",
                        rdRead[Checker].got = "manifest"
                 PROVE  PmAge' <= PinCache - 1 + rdCheck'.span
      OBVIOUS
    <3>1. rdCheck.pc = "files" /\ rdCheck'.span = rdCheck.span + 1 /\ rdCheck'.left = rdCheck.left
      BY <1>c
    <3>2. PmAge <= PinCache - 1 + rdCheck.span
      BY <1>0, <3>1 DEF CheckerInv
    <3> QED BY <1>m, <1>p, <3>1, <3>2
  <2> QED BY <1>r, <1>u, <2>1, <2>2 DEF CheckerInv
<1>8. FilesInv'
  <2> SUFFICES ASSUME rdCheck.pc = "files"
               PROVE  /\ "pmtiles" \notin rdCheck.left \cup rdCheck.failed => PmAge' <= PinCache - 1 + (rdCheck.span + 1)
                      /\ \A q \in FileParts : q \notin rdCheck.left \cup rdCheck.failed => rdOkAge'[q] <= rdCheck.span + 1
    BY <1>c DEF FilesInv
  <2>1. \A q \in FileParts : rdOkAge'[q] <= rdOkAge[q] + 1 /\ rdOkAge'[q] \in Nat /\ rdOkAge[q] \in Nat
    BY <1>m, <1>o, RdBounds
  <2> QED BY <1>0, <1>m, <1>p, <2>1 DEF FilesInv
<1>9. EngineInv'
  <2> SUFFICES ASSUME rdCheck.pc \in {"engine", "probe"}, rdCheck.failed = {}
               PROVE  /\ PmAge' <= FsCache - 1 + PinCache - 1 + (rdCheck.span + 1)
                      /\ \A q \in FileParts : rdOkAge'[q] <= FsCache - 1 + (rdCheck.span + 1)
    BY <1>c DEF EngineInv
  <2>1. \A q \in FileParts : rdOkAge'[q] <= rdOkAge[q] + 1 /\ rdOkAge'[q] \in Nat /\ rdOkAge[q] \in Nat
    BY <1>m, <1>o, RdBounds
  <2> QED BY <1>0, <1>m, <1>p, <2>1 DEF EngineInv
<1>10. BlameInv'
  BY <1>0, <1>u, <1>c DEF BlameInv
<1>11. LeftInv'
  BY <1>0, <1>c DEF LeftInv
<1>12. ClocksInv'
  <2>1. \A q \in AllParts : rdOkAge'[q] <= rdOkAge[q] + 1 /\ rdOkAge'[q] \in Nat /\ rdOkAge[q] \in Nat
    BY <1>m, <1>o
  <2>2. \A q \in rdUp : rdOkAge'[q] = 0
    BY <1>o
  <2>3. rdFs' < FsCache => /\ PmAge' <= PinCache - 1 + rdFs' /\ \A q \in FileParts : rdOkAge'[q] <= rdFs'
    <3> SUFFICES ASSUME rdFs' < FsCache
                 PROVE  PmAge' <= PinCache - 1 + rdFs' /\ \A q \in FileParts : rdOkAge'[q] <= rdFs'
      OBVIOUS
    <3>1. rdFs' = rdFs + 1 /\ rdFs < FsCache
      BY <1>m, <1>t
    <3>2. PmAge <= PinCache - 1 + rdFs /\ \A q \in FileParts : rdOkAge[q] <= rdFs
      BY <1>0, <3>1 DEF ClocksInv
    <3> QED BY <1>m, <1>p, <2>1, <3>1, <3>2, RdBounds
  <2>4. rdEngine' > 0 => rdOkAge'["worker"] <= EngineCache - rdEngine'
    <3> SUFFICES ASSUME rdEngine' > 0 PROVE rdOkAge'["worker"] <= EngineCache - rdEngine'
      OBVIOUS
    <3>1. rdEngine' = rdEngine - 1 /\ rdEngine > 0 /\ rdEngine \in Nat
      BY <1>m, <1>t
    <3>2. rdOkAge["worker"] <= EngineCache - rdEngine
      BY <1>0, <3>1 DEF ClocksInv
    <3> QED BY <1>m, <2>1, <3>1, <3>2, RdBounds
  <2> QED BY <1>u, <1>p, <2>2, <2>3, <2>4 DEF ClocksInv, PinInOrder
<1> QED BY <1>1, <1>2, <1>3, <1>4, <1>5, <1>6, <1>7, <1>8, <1>9, <1>10, <1>11, <1>12 DEF RdInv

LEMMA RdInitInv == RdInit => RdInv
<1> SUFFICES ASSUME RdInit PROVE RdInv
  OBVIOUS
<1> USE DEF RdInit
<1>1. WorldTypes
  BY RdBounds DEF WorldTypes
<1>r. Resting("none", NoKey) \in ReaderStates /\ Resting("none", NoKey).pc = "idle"
  BY RestingIs
<1>i. rdRead \in [Readers -> ReaderStates] /\ \A r \in Readers : rdRead[r].pc = "idle"
      /\ rdRead[r].got # "manifest"
  BY <1>r, RestingIs
<1>2. ManifestTypes
  BY <1>i, RdBounds DEF ManifestTypes, LoadStages
<1>c. rdCheck \in Checks /\ rdCheck.pc = "idle" /\ rdCheck.left = {}
  BY NoCheckIs
<1>o. /\ rdOkAge \in [AllParts -> Nat] /\ \A q \in AllParts : rdOkAge[q] <= AgeMax(q)
      /\ \A q \in FileParts \cup {"worker"} : rdOkAge[q] = 0
      /\ rdPin # 0 => rdOkAge["pmtiles"] = 0
  <2>1. rdOkAge = [q \in AllParts |-> IF q = "pmtiles" /\ rdPin = 0 THEN AgeMax(q) ELSE 0]
    OBVIOUS
  <2>2. \A q \in AllParts : AgeMax(q) \in Nat
    BY AgeMaxIs
  <2> QED BY <2>1, <2>2, RdBounds
<1>3. CheckTypes
  BY <1>c, <1>o, RdBounds DEF CheckTypes
<1>4. ReadersInv
  BY <1>i DEF ReadersInv
<1>5. LoadsInv /\ PinCacheInv
  BY RdBounds DEF LoadsInv, PinCacheInv
<1>6. CheckerInv
  BY <1>c, <1>i, RdBounds DEF CheckerInv
<1>7. FilesInv /\ EngineInv /\ BlameInv /\ LeftInv
  BY <1>c DEF FilesInv, EngineInv, BlameInv, LeftInv
<1>8. ClocksInv
  BY <1>o, RdBounds DEF ClocksInv, PmAge, PinInOrder
<1> QED BY <1>1, <1>2, <1>3, <1>4, <1>5, <1>6, <1>7, <1>8 DEF RdInv

LEMMA RdStutters == ASSUME RdInv, UNCHANGED rdVars PROVE RdInv'
<1>u. UNCHANGED <<rdPin, rdLast, rdGood, rdUp, rdBreaks, rdRead, rdLoads, rdCache, rdHandles, rdCheck, rdAsk,
                  rdFs, rdEngine, rdRetry, rdOkAge>>
  BY DEF rdVars, rdWorld, rdClocks
<1>1. WorldTypes' /\ ManifestTypes' /\ CheckTypes'
  BY <1>u DEF RdInv, WorldTypes, ManifestTypes, CheckTypes
<1>2. ReadersInv'
  BY <1>u DEF RdInv, ReadersInv, HasSeen, HasExcuse
<1>3. LoadsInv' /\ PinCacheInv' /\ CheckerInv'
  BY <1>u DEF RdInv, LoadsInv, PinCacheInv, CheckerInv, PmAge
<1>4. FilesInv' /\ EngineInv' /\ BlameInv' /\ LeftInv' /\ ClocksInv'
  BY <1>u DEF RdInv, FilesInv, EngineInv, BlameInv, LeftInv, ClocksInv, PmAge, PinInOrder
<1> QED BY <1>1, <1>2, <1>3, <1>4 DEF RdInv

LEMMA RdStepInv == RdInv /\ [RdNext]_rdVars => RdInv'
<1> SUFFICES ASSUME RdInv, [RdNext]_rdVars PROVE RdInv'
  OBVIOUS
<1>1. CASE RdWorldNext
  BY <1>1, PublishKeeps, PinBreakKeeps, PinHealKeeps, PartBreakKeeps, PartHealKeeps DEF RdWorldNext
<1>2. CASE RdTick
  BY <1>2, TickKeepsReady
<1>3. CASE \E r \in Routes : AskManifest(r)
  BY <1>3, AskKeepsReady
<1>4. CASE FilesAnswer
  BY <1>4, OpenKeepsReady, StatKeepsReady, ValidateKeeps, StatAgainKeeps, LoadEndKeeps
     DEF FilesAnswer, ReaderNext, LoadNext
<1>5. CASE \E m \in Monitors : MonitorAsks(m)
  BY <1>5, MonitorKeeps
<1>6. CASE CheckNext
  BY <1>6, CheckPartKeeps, CheckPmtilesKeeps, FilesCheckedKeep, EngineKnownKeeps, ProbeStartKeeps,
     ProbeAnswerKeeps, ProbeFailKeeps DEF CheckNext
<1>7. CASE UNCHANGED rdVars
  BY <1>7, RdStutters
<1> QED BY <1>1, <1>2, <1>3, <1>4, <1>5, <1>6, <1>7 DEF RdNext

LEMMA RdAlways == RdSpec => []RdInv
BY RdInitInv, RdStepInv, PTL DEF RdSpec

LEMMA RdInvTypes == RdInv => RdTypeOK
<1> SUFFICES ASSUME RdInv PROVE RdTypeOK
  OBVIOUS
<1>0. WorldTypes /\ ManifestTypes /\ CheckTypes /\ ReadersInv
  BY DEF RdInv
<1>1. /\ rdPin \in 0 .. MaxPins /\ rdLast \in rdPin .. MaxPins /\ rdGood \subseteq 1 .. rdLast
      /\ rdUp \subseteq FileParts \cup {"worker"} /\ rdBreaks \in 0 .. (MaxEvents + 1)
  BY <1>0, RdBounds DEF WorldTypes
<1>2. \A r \in Readers :
          /\ rdRead[r].pc \in {"idle", "open", "stat", "load"}
          /\ rdRead[r].got \in {"none", "missing", "error", "manifest"}
          /\ rdRead[r].key \in PinKeys \cup {NoKey}
          /\ rdRead[r].seen \subseteq 0 .. MaxPins
          /\ rdRead[r].pc = "load" => rdLoads[rdRead[r].key] # "none"
  <2> SUFFICES ASSUME NEW r \in Readers
               PROVE  /\ rdRead[r].pc \in {"idle", "open", "stat", "load"}
                      /\ rdRead[r].got \in {"none", "missing", "error", "manifest"}
                      /\ rdRead[r].key \in PinKeys \cup {NoKey}
                      /\ rdRead[r].seen \subseteq 0 .. MaxPins
                      /\ rdRead[r].pc = "load" => rdLoads[rdRead[r].key] # "none"
    OBVIOUS
  <2>1. rdRead[r] \in ReaderStates
    BY <1>0 DEF ManifestTypes
  <2> QED BY <1>0, <2>1 DEF ReaderStates, ReadersInv, HasSeen
<1>3. rdLoads \in [PinKeys -> {"none", "validate", "stat", "done", "changed", "failed"}]
      /\ rdCache \in [key : PinKeys \cup {NoKey}, age : 0 .. PinCache]
  BY <1>0 DEF ManifestTypes, LoadStages
<1>4. /\ rdCheck.pc \in {"idle", "files", "engine", "probe"}
      /\ rdCheck.failed \cup rdCheck.left \subseteq FileParts \cup {"pmtiles", "engine"}
      /\ rdCheck.span \in 0 .. MaxSpan
  BY <1>0 DEF CheckTypes, Checks
<1>5. \A c \in AllParts : rdOkAge[c] \in 0 .. AgeMax(c)
  BY <1>0, AgeMaxIs DEF CheckTypes
<1>6. /\ rdAsk \subseteq Monitors /\ (rdAsk # {} <=> rdCheck.pc # "idle")
      /\ rdFs \in 0 .. FsCache /\ rdEngine \in 0 .. EngineCache /\ rdRetry \in 0 .. EngineRetry
  BY <1>0 DEF CheckTypes
<1> QED BY <1>1, <1>2, <1>3, <1>4, <1>5, <1>6 DEF RdTypeOK

-----------------------------------------------------------------------------
(* Descriptors: those between the two awaits of a reader, and those of the *)
(* loads.                                                                  *)

StatReaders == {r \in Readers : rdRead[r].pc = "stat"}
BusyLoads == {k \in PinKeys : rdLoads[k] # "none"}

LEMMA HandlesFinite ==
    /\ IsFiniteSet(StatReaders) /\ Cardinality(StatReaders) \in Nat
    /\ IsFiniteSet(BusyLoads) /\ Cardinality(BusyLoads) \in Nat
<1>1. IsFiniteSet(Readers)
  <2>1. IsFiniteSet({Checker})
    BY FS_Singleton
  <2> QED BY <2>1, ReadinessAssumption, FS_Union DEF Readers
<1>2. IsFiniteSet(PinKeys)
  <2>1. IsFiniteSet(1 .. MaxPins)
    BY RdBounds, FS_Interval
  <2>2. IsFiniteSet({TRUE} \cup {FALSE})
    BY FS_Singleton, FS_Union
  <2>3. BOOLEAN = {TRUE} \cup {FALSE}
    OBVIOUS
  <2>4. IsFiniteSet((1 .. MaxPins) \X BOOLEAN)
    BY <2>1, <2>2, <2>3, FS_Product
  <2> QED BY <2>4 DEF PinKeys
<1>3. StatReaders \in SUBSET Readers /\ BusyLoads \in SUBSET PinKeys
  BY DEF StatReaders, BusyLoads
<1>4. IsFiniteSet(StatReaders)
  BY <1>1, <1>3, FS_Subset
<1>5. IsFiniteSet(BusyLoads)
  BY <1>2, <1>3, FS_Subset
<1> QED BY <1>4, <1>5, FS_CardinalityType

LEMMA HandlesAre == HandlesAreClosed <=> rdHandles = Cardinality(StatReaders) + Cardinality(BusyLoads)
BY DEF HandlesAreClosed, StatReaders, BusyLoads

LEMMA HandlesAreNext ==
    HandlesAreClosed' <=> rdHandles' = Cardinality(StatReaders') + Cardinality(BusyLoads')
BY DEF HandlesAreClosed, StatReaders, BusyLoads

\* Most steps open and close nothing.
LEMMA SameHandles ==
    ASSUME HandlesAreClosed, rdHandles' = rdHandles,
           \A r \in Readers : rdRead'[r].pc = "stat" <=> rdRead[r].pc = "stat",
           \A k \in PinKeys : rdLoads'[k] = "none" <=> rdLoads[k] = "none"
    PROVE  HandlesAreClosed'
<1>1. StatReaders' = StatReaders /\ BusyLoads' = BusyLoads
  BY DEF StatReaders, BusyLoads
<1> QED BY <1>1, HandlesAre, HandlesAreNext

LEMMA HandlesStep == RdInv /\ HandlesAreClosed /\ [RdNext]_rdVars => HandlesAreClosed'
<1> SUFFICES ASSUME RdInv, HandlesAreClosed, [RdNext]_rdVars PROVE HandlesAreClosed'
  OBVIOUS
<1>0. /\ rdRead \in [Readers -> ReaderStates] /\ rdLoads \in [PinKeys -> LoadStages]
      /\ rdHandles = Cardinality(StatReaders) + Cardinality(BusyLoads)
      /\ WorldTypes /\ ReadersInv /\ CheckerInv
      /\ IsFiniteSet(StatReaders) /\ Cardinality(StatReaders) \in Nat
      /\ IsFiniteSet(BusyLoads) /\ Cardinality(BusyLoads) \in Nat
  BY HandlesAre, HandlesFinite DEF RdInv, ManifestTypes
<1>1. CASE PublishPin
  <2>1. rdHandles' = rdHandles /\ rdLoads' = rdLoads
        /\ rdRead' = [r \in Readers |-> IF rdRead[r].pc = "idle" THEN rdRead[r]
                     ELSE [rdRead[r] EXCEPT !.seen = @ \cup {rdLast + 1},
                                            !.spoiled = @ \/ rdLast + 1 \notin rdGood']]
    BY <1>1 DEF PublishPin
  <2>2. ASSUME NEW r \in Readers PROVE rdRead'[r].pc = rdRead[r].pc
    <3>1. rdRead[r] \in ReaderStates
      BY <1>0
    <3>2. CASE rdRead[r].pc = "idle"
      BY <2>1, <3>2
    <3>3. CASE rdRead[r].pc # "idle"
      <4>1. PICK x, y : rdRead'[r] = [rdRead[r] EXCEPT !.seen = x, !.spoiled = y]
        BY <2>1, <3>3
      <4> QED BY <3>1, <4>1 DEF ReaderStates
    <3> QED BY <3>2, <3>3
  <2> QED BY <2>1, <2>2, SameHandles
<1>2. CASE PinBreaks \/ \E c \in FileParts \cup {"worker"} : PartBreaks(c)
  <2>1. PICK part \in AllParts : Spoil(part)
    BY <1>2, RdBounds DEF PinBreaks, PartBreaks
  <2>2. \A r \in Readers : rdRead'[r].pc = rdRead[r].pc
    BY <2>1, SpoilIs
  <2>3. rdHandles' = rdHandles /\ rdLoads' = rdLoads
    BY <1>2 DEF PinBreaks, PartBreaks
  <2> QED BY <2>2, <2>3, SameHandles
<1>3. CASE PinHeals \/ \E c \in FileParts \cup {"worker"} : PartHeals(c)
  <2>1. rdHandles' = rdHandles /\ rdLoads' = rdLoads /\ rdRead' = rdRead
    BY <1>3 DEF PinHeals, PartHeals
  <2> QED BY <2>1, SameHandles
<1>4. CASE RdTick
  <2>1. rdRead' = [r \in Readers |-> IF rdRead[r].pc = "idle" /\ r \in Routes
                                    THEN Resting("none", NoKey) ELSE rdRead[r]]
        /\ rdHandles' = rdHandles /\ rdLoads' = rdLoads
    BY <1>4 DEF RdTick
  <2>2. Resting("none", NoKey).pc = "idle"
    BY RestingIs
  <2> HIDE DEF Resting
  <2>3. \A r \in Readers : rdRead'[r].pc = rdRead[r].pc
    BY <2>1, <2>2
  <2> QED BY <2>1, <2>3, SameHandles
<1>5. CASE (\E r \in Routes : AskManifest(r)) \/ \E m \in Monitors : MonitorAsks(m)
  <2>1. rdHandles' = rdHandles /\ rdLoads' = rdLoads
    BY <1>5 DEF AskManifest, MonitorAsks
  <2>2. rdRead' = rdRead \/ \E r \in Readers : rdRead[r].pc = "idle" /\ rdRead' = [rdRead EXCEPT ![r] = Begun]
    <3>1. rdCheck.pc = "idle" => rdRead[Checker].pc = "idle"
      BY <1>0 DEF CheckerInv
    <3> QED BY <1>5, <3>1, RdBounds DEF AskManifest, MonitorAsks
  <2>3. Begun.pc = "open"
    BY <1>0, BegunIs
  <2>4. \A r \in Readers : rdRead'[r].pc = "stat" <=> rdRead[r].pc = "stat"
    BY <1>0, <2>2, <2>3
  <2> QED BY <2>1, <2>4, SameHandles
<1>6. CASE \E r \in Readers : OpenPin(r)
  <2> PICK r \in Readers : OpenPin(r)
    BY <1>6
  <2>0. rdRead[r].pc = "open" /\ rdLoads' = rdLoads /\ rdRead[r] \in ReaderStates
    BY <1>0 DEF OpenPin
  <2>1. CASE rdPin = 0
    <3>1. rdRead' = [rdRead EXCEPT ![r] = Resting("missing", NoKey)] /\ rdHandles' = rdHandles
      BY <2>1 DEF OpenPin
    <3>2. Resting("missing", NoKey).pc = "idle"
      BY RestingIs
    <3> HIDE DEF Resting
    <3>3. \A q \in Readers : rdRead'[q].pc = "stat" <=> rdRead[q].pc = "stat"
      BY <1>0, <2>0, <3>1, <3>2
    <3> QED BY <2>0, <3>1, <3>3, SameHandles
  <2>2. CASE rdPin # 0
    <3>1. PICK k : rdRead' = [rdRead EXCEPT ![r] = [rdRead[r] EXCEPT !.pc = "stat", !.key = k]]
          /\ rdHandles' = rdHandles + 1
      BY <2>2 DEF OpenPin
    <3>2. rdRead'[r] = [rdRead[r] EXCEPT !.pc = "stat", !.key = k] /\ \A q \in Readers \ {r} : rdRead'[q] = rdRead[q]
      BY <1>0, <3>1
    <3>3. rdRead'[r].pc = "stat"
      BY <2>0, <3>2 DEF ReaderStates
    <3>4. StatReaders' = StatReaders \cup {r} /\ r \notin StatReaders /\ BusyLoads' = BusyLoads
      BY <2>0, <3>2, <3>3 DEF StatReaders, BusyLoads
    <3>5. Cardinality(StatReaders \cup {r}) = Cardinality(StatReaders) + 1
      BY <1>0, <3>4, FS_AddElement
    <3>6. rdHandles' = Cardinality(StatReaders') + Cardinality(BusyLoads')
      BY <1>0, <3>1, <3>4, <3>5
    <3> QED BY <3>6, HandlesAreNext
  <2> QED BY <2>1, <2>2
<1>7. CASE \E r \in Readers : StatPin(r)
  <2> PICK r \in Readers : StatPin(r)
    BY <1>7
  <2>k. PICK k : k = PinIdentity(rdRead[r].key[1])
    OBVIOUS
  <2>0. rdRead[r].pc = "stat" /\ rdRead[r] \in ReaderStates /\ r \in StatReaders /\ k \in PinKeys
    <3>1. rdRead[r].pc = "stat" /\ rdRead[r] \in ReaderStates
      BY <1>0 DEF StatPin
    <3>2. rdRead[r].key \in PinKeys
      BY <1>0, <3>1 DEF ReadersInv, HasSeen
    <3> QED BY <2>k, <3>1, <3>2, PinKeysAre DEF StatReaders, PinIdentity
  <2>1. \/ /\ rdRead' = [rdRead EXCEPT ![r] = Resting("manifest", rdCache.key)]
           /\ rdHandles' = rdHandles - 1 /\ rdLoads' = rdLoads
        \/ /\ rdRead' = [rdRead EXCEPT ![r] = [rdRead[r] EXCEPT !.pc = "load", !.key = k]]
           /\ rdHandles' = rdHandles - 1 /\ rdLoads' = rdLoads
        \/ /\ rdRead' = [rdRead EXCEPT ![r] = [rdRead[r] EXCEPT !.pc = "load", !.key = k]]
           /\ rdHandles' = rdHandles /\ rdLoads[k] = "none" /\ rdLoads' = [rdLoads EXCEPT ![k] = "validate"]
    BY <2>k DEF StatPin, HandlesOfJoin
  <2>2. rdRead'[r].pc # "stat" /\ \A q \in Readers \ {r} : rdRead'[q] = rdRead[q]
    <3>1. Resting("manifest", rdCache.key).pc = "idle"
      BY DEF Resting, ReaderState
    <3> HIDE DEF Resting
    <3>2. [rdRead[r] EXCEPT !.pc = "load", !.key = k].pc = "load"
      BY <2>0 DEF ReaderStates
    <3> QED BY <1>0, <2>1, <3>1, <3>2
  <2>3. StatReaders' = StatReaders \ {r}
    BY <2>2 DEF StatReaders
  <2>4. Cardinality(StatReaders \ {r}) = Cardinality(StatReaders) - 1
    BY <1>0, <2>0, FS_RemoveElement
  <2>5. CASE rdHandles' = rdHandles - 1 /\ rdLoads' = rdLoads
    <3>1. BusyLoads' = BusyLoads
      BY <2>5 DEF BusyLoads
    <3>2. rdHandles' = Cardinality(StatReaders') + Cardinality(BusyLoads')
      BY <1>0, <2>3, <2>4, <2>5, <3>1
    <3> QED BY <3>2, HandlesAreNext
  <2>6. CASE rdHandles' = rdHandles /\ rdLoads[k] = "none" /\ rdLoads' = [rdLoads EXCEPT ![k] = "validate"]
    <3>1. BusyLoads' = BusyLoads \cup {k} /\ k \notin BusyLoads
      BY <1>0, <2>0, <2>6 DEF BusyLoads
    <3>2. Cardinality(BusyLoads \cup {k}) = Cardinality(BusyLoads) + 1
      BY <1>0, <3>1, FS_AddElement
    <3>3. rdHandles' = Cardinality(StatReaders') + Cardinality(BusyLoads')
      BY <1>0, <2>3, <2>4, <2>6, <3>1, <3>2
    <3> QED BY <3>3, HandlesAreNext
  <2> QED BY <2>1, <2>5, <2>6
<1>8. CASE \E k \in PinKeys : ValidatePin(k) \/ StatAgain(k)
  <2> PICK k \in PinKeys : ValidatePin(k) \/ StatAgain(k)
    BY <1>8
  <2>1. rdHandles' = rdHandles /\ rdRead' = rdRead /\ rdLoads[k] # "none"
        /\ \E s \in LoadStages \ {"none"} : rdLoads' = [rdLoads EXCEPT ![k] = s]
    BY DEF ValidatePin, StatAgain, LoadStages
  <2>2. \A j \in PinKeys : rdLoads'[j] = "none" <=> rdLoads[j] = "none"
    BY <1>0, <2>1
  <2> QED BY <2>1, <2>2, SameHandles
<1>9. CASE \E k \in PinKeys : LoadEnds(k)
  <2> PICK k \in PinKeys : LoadEnds(k)
    BY <1>9
  <2>1. /\ rdLoads[k] \in {"done", "changed", "failed"} /\ rdLoads' = [rdLoads EXCEPT ![k] = "none"]
        /\ rdHandles' = rdHandles - 1
        /\ rdRead' = [r \in Readers |-> IF rdRead[r].pc = "load" /\ rdRead[r].key = k
                                        THEN AfterLoad(rdRead[r], rdLoads[k]) ELSE rdRead[r]]
    BY DEF LoadEnds
  <2>2. BusyLoads' = BusyLoads \ {k} /\ k \in BusyLoads
    BY <1>0, <2>1 DEF BusyLoads
  <2>3. Cardinality(BusyLoads \ {k}) = Cardinality(BusyLoads) - 1
    BY <1>0, <2>2, FS_RemoveElement
  <2>4. ASSUME NEW r \in Readers PROVE rdRead'[r].pc = "stat" <=> rdRead[r].pc = "stat"
    <3>1. CASE rdRead[r].pc = "load" /\ rdRead[r].key = k
      <4>1. rdRead'[r] = AfterLoad(rdRead[r], rdLoads[k]) /\ rdRead[r] \in ReaderStates
        BY <1>0, <2>1, <3>1
      <4>2. CASE rdLoads[k] = "done"
        <5>1. rdRead'[r] = Resting("manifest", rdRead[r].key)
          BY <4>1, <4>2 DEF AfterLoad
        <5> QED BY <3>1, <5>1 DEF Resting, ReaderState
      <4>3. CASE rdLoads[k] = "changed" /\ ~rdRead[r].again
        <5>1. rdRead'[r] = [rdRead[r] EXCEPT !.pc = "open", !.key = NoKey, !.again = TRUE]
          BY <4>1, <4>3 DEF AfterLoad
        <5> QED BY <3>1, <4>1, <5>1 DEF ReaderStates
      <4>4. CASE ~(rdLoads[k] = "done") /\ ~(rdLoads[k] = "changed" /\ ~rdRead[r].again)
        <5>1. rdRead'[r] = Resting("error", NoKey)
          BY <4>1, <4>4 DEF AfterLoad
        <5> QED BY <3>1, <5>1 DEF Resting, ReaderState
      <4> QED BY <4>2, <4>3, <4>4
    <3>2. CASE ~(rdRead[r].pc = "load" /\ rdRead[r].key = k)
      BY <2>1, <3>2
    <3> QED BY <3>1, <3>2
  <2>5. StatReaders' = StatReaders
    BY <2>4 DEF StatReaders
  <2>6. rdHandles' = Cardinality(StatReaders') + Cardinality(BusyLoads')
    BY <1>0, <2>1, <2>2, <2>3, <2>5
  <2> QED BY <2>6, HandlesAreNext
<1>10. CASE CheckNext
  <2>1. rdHandles' = rdHandles /\ rdLoads' = rdLoads
    BY <1>10 DEF CheckNext, CheckPart, CheckPmtiles, FilesChecked, EngineKnown, StartProbe, ProbeAnswers, ProbeFails
  <2>2. rdRead' = rdRead \/ (rdRead[Checker].pc = "idle" /\ rdRead' = [rdRead EXCEPT ![Checker] = Resting("none", NoKey)])
    BY <1>10 DEF CheckNext, CheckPart, CheckPmtiles, FilesChecked, EngineKnown, StartProbe, ProbeAnswers, ProbeFails
  <2>3. Resting("none", NoKey).pc = "idle"
    BY RestingIs
  <2> HIDE DEF Resting
  <2>4. \A r \in Readers : rdRead'[r].pc = "stat" <=> rdRead[r].pc = "stat"
    BY <1>0, <2>2, <2>3, RdBounds
  <2> QED BY <2>1, <2>4, SameHandles
<1>11. CASE UNCHANGED rdVars
  <2>1. rdHandles' = rdHandles /\ rdLoads' = rdLoads /\ rdRead' = rdRead
    BY <1>11 DEF rdVars
  <2> QED BY <2>1, SameHandles
<1> QED BY <1>1, <1>2, <1>3, <1>4, <1>5, <1>6, <1>7, <1>8, <1>9, <1>10, <1>11
        DEF RdNext, RdWorldNext, FilesAnswer, ReaderNext, LoadNext

LEMMA HandlesInit == RdInit => HandlesAreClosed
<1> SUFFICES ASSUME RdInit PROVE HandlesAreClosed
  OBVIOUS
<1>1. Resting("none", NoKey).pc = "idle"
  BY RestingIs
<1>2. StatReaders = {} /\ BusyLoads = {} /\ rdHandles = 0
  BY <1>1 DEF RdInit, StatReaders, BusyLoads
<1> QED BY <1>2, FS_EmptySet, HandlesAre

\* The types of the readiness component, for any number of requests, parts and
\* publications.
THEOREM ReadyTypesHold == RdSpec => []RdTypeOK
BY RdAlways, RdInvTypes, PTL

LEMMA HandlesAlways == RdSpec => []HandlesAreClosed
BY RdAlways, HandlesInit, HandlesStep, PTL DEF RdSpec

-----------------------------------------------------------------------------
(* No answer comes too late.                                               *)

\* Where no reader is answered, none is misled.
LEMMA NoAnswer ==
    ASSUME \A r \in Readers : rdRead'[r].pc = "idle" => rdRead[r].pc = "idle"
    PROVE  \A r \in Readers : ~MisreadPin(r)
BY DEF MisreadPin, RdAnswered

\* Where no check ends, no verdict is wrong.
LEMMA NoVerdict ==
    ASSUME rdCheck.pc = "idle" \/ rdCheck'.pc # "idle"
    PROVE  ~ReadyTooLate /\ ~BlamedTooLate
BY DEF ReadyTooLate, BlamedTooLate, RdConcluded

\* A reader that saw two pins replaced saw three.
LEMMA ThreePins ==
    ASSUME NEW seen, NEW n \in Nat, seen \subseteq 0 .. n,
           NEW u \in seen, NEW v \in seen, NEW w \in seen, u < v, v < w
    PROVE  ~(Cardinality(seen) < 3)
<1>1. u \in Int /\ v \in Int /\ w \in Int /\ u # v /\ v # w /\ u # w
  OBVIOUS
<1>2. IsFiniteSet({u}) /\ Cardinality({u}) = 1
  BY FS_Singleton
<1>3. IsFiniteSet({u} \cup {v}) /\ Cardinality({u} \cup {v}) = 2
  BY <1>1, <1>2, FS_AddElement
<1>4. Cardinality(({u} \cup {v}) \cup {w}) = 3
  BY <1>1, <1>3, FS_AddElement
<1>5. IsFiniteSet(0 .. n)
  BY FS_Interval
<1>6. IsFiniteSet(seen)
  BY <1>5, FS_Subset
<1>7. ({u} \cup {v}) \cup {w} \subseteq seen
  OBVIOUS
<1>8. Cardinality(({u} \cup {v}) \cup {w}) <= Cardinality(seen) /\ Cardinality(seen) \in Nat
  BY <1>6, <1>7, FS_Subset, FS_CardinalityType
<1> QED BY <1>4, <1>8

\* Nothing is missing unless there was no pin.
LEMMA OpenAnswers ==
    ASSUME RdInv, NEW q \in Readers, OpenPin(q)
    PROVE  \A r \in Readers : ~MisreadPin(r)
<1>0. ManifestTypes /\ ReadersInv /\ rdRead \in [Readers -> ReaderStates] /\ rdRead[q].pc = "open"
  BY DEF RdInv, ManifestTypes, OpenPin
<1>1. CASE rdPin = 0 /\ rdRead' = [rdRead EXCEPT ![q] = Resting("missing", NoKey)]
  <2> SUFFICES ASSUME NEW r \in Readers PROVE ~MisreadPin(r)
    OBVIOUS
  <2>1. CASE r # q
    BY <1>0, <1>1, <2>1 DEF MisreadPin, RdAnswered
  <2>2. CASE r = q
    <3>1. rdRead'[r] = Resting("missing", NoKey)
      BY <1>0, <1>1, <2>2
    <3>2. rdRead'[r].got = "missing"
      BY <3>1 DEF Resting, ReaderState
    <3>3. 0 \in rdRead[r].seen
      BY <1>0, <1>1, <2>2 DEF ReadersInv, HasSeen
    <3> QED BY <3>2, <3>3 DEF MisreadPin
  <2> QED BY <2>1, <2>2
<1>2. CASE rdRead' = [rdRead EXCEPT ![q].pc = "stat", ![q].key = <<rdPin, FALSE>>]
  <2>1. \A r \in Readers : rdRead'[r].pc = "idle" => rdRead[r].pc = "idle"
    BY <1>0, <1>2 DEF ReaderStates
  <2> QED BY <2>1, NoAnswer
<1> QED BY <1>1, <1>2 DEF OpenPin

\* The cache answers with the very pin that was opened.
LEMMA StatAnswers ==
    ASSUME RdInv, NEW q \in Readers, StatPin(q)
    PROVE  \A r \in Readers : ~MisreadPin(r)
<1>0. ManifestTypes /\ ReadersInv /\ rdRead \in [Readers -> ReaderStates] /\ rdRead[q].pc = "stat"
  BY DEF RdInv, ManifestTypes, StatPin
<1>v. PICK v : v = rdRead[q].key[1]
  OBVIOUS
<1>k. PICK k : k = PinIdentity(v)
  OBVIOUS
<1>1. CASE CacheHit(v) /\ rdRead' = [rdRead EXCEPT ![q] = Resting("manifest", rdCache.key)]
  <2> SUFFICES ASSUME NEW r \in Readers PROVE ~MisreadPin(r)
    OBVIOUS
  <2>1. CASE r # q
    BY <1>0, <1>1, <2>1 DEF MisreadPin, RdAnswered
  <2>2. CASE r = q
    <3>1. rdRead'[r] = Resting("manifest", rdCache.key)
      BY <1>0, <1>1, <2>2
    <3>2. rdRead'[r].got = "manifest" /\ rdRead'[r].key = rdCache.key
      BY <3>1 DEF Resting, ReaderState
    <3>3. rdCache.key[1] = v
      BY <1>1 DEF CacheHit, PinIdentity
    <3>4. v \in rdRead[r].seen
      BY <1>0, <1>v, <2>2 DEF ReadersInv, HasSeen
    <3> QED BY <3>2, <3>3, <3>4 DEF MisreadPin
  <2> QED BY <2>1, <2>2
<1>2. CASE rdRead' = [rdRead EXCEPT ![q].pc = "load", ![q].key = k]
  <2>1. \A r \in Readers : rdRead'[r].pc = "idle" => rdRead[r].pc = "idle"
    BY <1>0, <1>2 DEF ReaderStates
  <2> QED BY <2>1, NoAnswer
<1> QED BY <1>v, <1>k, <1>1, <1>2 DEF StatPin

\* A load answers with its own pin, or fails for one that was out of order or
\* was replaced a second time.
LEMMA LoadAnswers ==
    ASSUME RdInv, NEW k \in PinKeys, LoadEnds(k)
    PROVE  \A r \in Readers : ~MisreadPin(r)
<1>0. WorldTypes /\ ManifestTypes /\ ReadersInv /\ LoadsInv /\ rdRead \in [Readers -> ReaderStates]
  BY DEF RdInv, ManifestTypes
<1>a. rdLoads[k] \in {"done", "changed", "failed"}
  BY DEF LoadEnds
<1> SUFFICES ASSUME NEW r \in Readers PROVE ~MisreadPin(r)
  OBVIOUS
<1>b. rdRead'[r] = IF rdRead[r].pc = "load" /\ rdRead[r].key = k
                   THEN AfterLoad(rdRead[r], rdLoads[k]) ELSE rdRead[r]
  BY DEF LoadEnds
<1>1. CASE ~(rdRead[r].pc = "load" /\ rdRead[r].key = k)
  BY <1>b, <1>1 DEF MisreadPin, RdAnswered
<1>2. CASE rdRead[r].pc = "load" /\ rdRead[r].key = k
  <2>0. /\ rdRead'[r] = AfterLoad(rdRead[r], rdLoads[k]) /\ rdRead[r] \in ReaderStates
        /\ HasSeen(r) /\ HasExcuse(r) /\ k[1] \in rdRead[r].seen
    BY <1>0, <1>b, <1>2 DEF ReadersInv, HasSeen
  <2>1. CASE rdLoads[k] = "done"
    <3>1. rdRead'[r] = Resting("manifest", k)
      BY <1>2, <2>0, <2>1 DEF AfterLoad
    <3>2. rdRead'[r].got = "manifest" /\ rdRead'[r].key = k
      BY <3>1 DEF Resting, ReaderState
    <3> QED BY <2>0, <3>2 DEF MisreadPin
  <2>2. CASE rdLoads[k] = "changed" /\ ~rdRead[r].again
    <3>1. rdRead'[r] = [rdRead[r] EXCEPT !.pc = "open", !.key = NoKey, !.again = TRUE]
      BY <2>0, <2>2 DEF AfterLoad
    <3>2. rdRead'[r].pc = "open"
      BY <2>0, <3>1 DEF ReaderStates
    <3> QED BY <3>2 DEF MisreadPin, RdAnswered
  <2>3. CASE ~(rdLoads[k] = "done") /\ ~(rdLoads[k] = "changed" /\ ~rdRead[r].again)
    <3>1. rdRead'[r] = Resting("error", NoKey)
      BY <2>0, <2>3 DEF AfterLoad
    <3>2. rdRead'[r].got = "error"
      BY <3>1 DEF Resting, ReaderState
    <3>3. CASE rdLoads[k] = "failed"
      <4>1. rdRead[r].spoiled
        BY <2>0, <3>3 DEF HasExcuse
      <4> QED BY <3>2, <4>1 DEF MisreadPin
    <3>4. CASE rdLoads[k] = "changed" /\ rdRead[r].again
      <4>1. k[1] < rdPin /\ rdPin \in rdRead[r].seen /\ rdRead[r].seen \subseteq 0 .. rdPin /\ rdPin \in Nat
        BY <1>0, <2>0, <3>4 DEF LoadsInv, HasSeen, WorldTypes
      <4>2. PICK u \in rdRead[r].seen : u < k[1]
        BY <1>2, <2>0, <3>4 DEF HasSeen
      <4>3. ~(Cardinality(rdRead[r].seen) < 3)
        BY <2>0, <4>1, <4>2, ThreePins
      <4> QED BY <3>2, <4>3 DEF MisreadPin
    <3> QED BY <1>a, <2>3, <3>3, <3>4
  <2> QED BY <2>1, <2>2, <2>3
<1> QED BY <1>1, <1>2

\* Every answer for a manifest is true of the request that gets it.
LEMMA AnswersAreTrue == RdInv /\ RdNext => \A r \in Readers : ~MisreadPin(r)
<1> SUFFICES ASSUME RdInv, RdNext PROVE \A r \in Readers : ~MisreadPin(r)
  OBVIOUS
<1>0. ManifestTypes /\ rdRead \in [Readers -> ReaderStates]
  BY DEF RdInv, ManifestTypes
<1>b. Begun.pc = "open"
  BY DEF Begun, ReaderState
<1>1. CASE RdWorldNext
  <2>1. CASE PublishPin
    <3>1. rdRead' = [r \in Readers |-> IF rdRead[r].pc = "idle" THEN rdRead[r]
                     ELSE [rdRead[r] EXCEPT !.seen = @ \cup {rdLast + 1},
                                            !.spoiled = @ \/ rdLast + 1 \notin rdGood']]
      BY <2>1 DEF PublishPin
    <3>2. \A r \in Readers : rdRead'[r].pc = "idle" => rdRead[r].pc = "idle"
      BY <1>0, <3>1 DEF ReaderStates
    <3> QED BY <3>2, NoAnswer
  <2>2. CASE \E c \in FileParts \cup {"pmtiles", "worker"} : Spoil(c)
    <3>1. PICK c : Spoil(c)
      BY <2>2
    <3>2. rdRead' = IF c # "pmtiles" THEN rdRead
                    ELSE [r \in Readers |-> IF rdRead[r].pc = "idle" THEN rdRead[r]
                                            ELSE [rdRead[r] EXCEPT !.spoiled = TRUE]]
      BY <3>1 DEF Spoil
    <3>3. \A r \in Readers : rdRead'[r].pc = "idle" => rdRead[r].pc = "idle"
      BY <1>0, <3>2 DEF ReaderStates
    <3> QED BY <3>3, NoAnswer
  <2>3. CASE rdRead' = rdRead
    BY <2>3, NoAnswer
  <2> QED BY <1>1, <2>1, <2>2, <2>3 DEF RdWorldNext, PinBreaks, PinHeals, PartBreaks, PartHeals
<1>2. CASE RdTick
  <2>1. rdRead' = [r \in Readers |-> IF rdRead[r].pc = "idle" /\ r \in Routes
                                    THEN Resting("none", NoKey) ELSE rdRead[r]]
    BY <1>2 DEF RdTick
  <2>2. \A r \in Readers : rdRead'[r].pc = "idle" => rdRead[r].pc = "idle"
    BY <2>1
  <2> QED BY <2>2, NoAnswer
<1>3. CASE \E r \in Routes : AskManifest(r)
  <2>1. PICK q \in Routes : AskManifest(q)
    BY <1>3
  <2>2. \A r \in Readers : rdRead'[r].pc = "idle" => rdRead[r].pc = "idle"
    BY <1>0, <1>b, <2>1 DEF AskManifest
  <2> QED BY <2>2, NoAnswer
<1>4. CASE \E k \in PinKeys : ValidatePin(k) \/ StatAgain(k)
  <2>1. rdRead' = rdRead
    BY <1>4 DEF ValidatePin, StatAgain
  <2> QED BY <2>1, NoAnswer
<1>5. CASE \E m \in Monitors : MonitorAsks(m)
  <2>1. rdRead' = rdRead \/ rdRead' = [rdRead EXCEPT ![Checker] = Begun]
    BY <1>5 DEF MonitorAsks
  <2>2. \A r \in Readers : rdRead'[r].pc = "idle" => rdRead[r].pc = "idle"
    BY <1>0, <1>b, <2>1
  <2> QED BY <2>2, NoAnswer
<1>6. CASE CheckNext
  <2>1. \/ rdRead' = rdRead
        \/ rdRead[Checker].pc = "idle" /\ rdRead' = [rdRead EXCEPT ![Checker] = Resting("none", NoKey)]
    BY <1>6 DEF CheckNext, CheckPart, CheckPmtiles, FilesChecked, EngineKnown, StartProbe, ProbeAnswers,
       ProbeFails
  <2>2. \A r \in Readers : rdRead'[r].pc = "idle" => rdRead[r].pc = "idle"
    BY <1>0, <2>1
  <2> QED BY <2>2, NoAnswer
<1> QED BY <1>1, <1>2, <1>3, <1>4, <1>5, <1>6, OpenAnswers, StatAnswers, LoadAnswers
        DEF RdNext, FilesAnswer, ReaderNext, LoadNext

\* A verdict without a probe.
LEMMA KnownVerdict ==
    ASSUME RdInv, EngineKnown
    PROVE  ~ReadyTooLate /\ ~BlamedTooLate
<1>0. CheckTypes /\ EngineInv /\ BlameInv /\ ClocksInv /\ rdCheck \in Checks
  BY DEF RdInv, CheckTypes
<1>m. rdEngine \in 0 .. EngineCache /\ EngineCache \in Nat /\ rdOkAge["worker"] \in Nat /\ rdRetry \in Nat
      /\ rdOkAge["pmtiles"] = PmAge
  BY <1>0, RdBounds DEF CheckTypes, PmAge
<1>u. rdCheck.pc = "engine" /\ rdOkAge' = rdOkAge /\ rdRetry' = rdRetry
  BY DEF EngineKnown, rdClocks
<1>b. rdCheck.failed \cap FileParts \subseteq rdCheck.spoiled
  BY <1>0, <1>u DEF BlameInv
<1>1. CASE rdCheck.failed \cap ProbeParts # {} /\ rdCheck'.failed = rdCheck.failed
  BY <1>1, <1>b DEF ReadyTooLate, BlamedTooLate
<1>2. CASE rdEngine > 0 /\ rdCheck'.failed = rdCheck.failed
  <2>1. ~BlamedTooLate
    BY <1>2, <1>b DEF BlamedTooLate
  <2>2. rdOkAge["worker"] <= EngineCache - rdEngine
    BY <1>0, <1>2 DEF ClocksInv
  <2>3. ~(rdOkAge["worker"] > EngineCache - 1)
    BY <1>2, <1>m, <2>2
  <2>4. rdCheck.failed = {} => /\ PmAge <= FsCache - 1 + PinCache - 1 + rdCheck.span
                               /\ \A c \in FileParts : rdOkAge[c] <= FsCache - 1 + rdCheck.span
    BY <1>0, <1>u DEF EngineInv
  <2>5. FsCache - 1 + PinCache - 1 + rdCheck.span \in Int /\ FsCache - 1 + rdCheck.span \in Int
        /\ \A c \in AllParts : rdOkAge[c] \in Nat
    BY <1>0, RdBounds DEF CheckTypes, Checks
  <2>6. ~ReadyTooLate
    BY <1>2, <1>m, <2>3, <2>4, <2>5, RdBounds DEF ReadyTooLate
  <2> QED BY <2>1, <2>6
<1>3. CASE rdRetry > 0 /\ rdCheck'.failed = rdCheck.failed \cup {"engine"}
  <2>1. ~ReadyTooLate
    BY <1>3 DEF ReadyTooLate
  <2>2. ~BlamedTooLate
    BY <1>3, <1>b, <1>m, <1>u DEF BlamedTooLate
  <2> QED BY <2>1, <2>2
<1>4. \A failed : RdVerdict(failed) => rdCheck'.failed = failed
  BY DEF RdVerdict, NoCheck
<1> QED BY <1>1, <1>2, <1>3, <1>4 DEF EngineKnown

\* A verdict after a probe that answered.
LEMMA AnsweredVerdict ==
    ASSUME RdInv, ProbeAnswers
    PROVE  ~ReadyTooLate /\ ~BlamedTooLate
<1>0. CheckTypes /\ EngineInv /\ BlameInv /\ ClocksInv /\ rdCheck \in Checks
  BY DEF RdInv, CheckTypes
<1>u. rdCheck.pc = "probe" /\ rdOkAge["pmtiles"] = PmAge /\ rdCheck'.failed = rdCheck.failed
  BY DEF ProbeAnswers, RdVerdict, NoCheck, PmAge
<1>1. rdCheck.failed \cap FileParts \subseteq rdCheck.spoiled
  BY <1>0, <1>u DEF BlameInv
<1>2. ~BlamedTooLate
  BY <1>u, <1>1 DEF BlamedTooLate
<1>3. rdOkAge["worker"] = 0 /\ EngineCache \in Nat /\ EngineCache >= 1
  BY <1>0, RdBounds DEF ClocksInv, ProbeAnswers
<1>4. rdCheck.failed = {} => /\ PmAge <= FsCache - 1 + PinCache - 1 + rdCheck.span
                             /\ \A c \in FileParts : rdOkAge[c] <= FsCache - 1 + rdCheck.span
  BY <1>0, <1>u DEF EngineInv
<1>5. FsCache - 1 + PinCache - 1 + rdCheck.span \in Int /\ FsCache - 1 + rdCheck.span \in Int
      /\ \A c \in AllParts : rdOkAge[c] \in Nat
  BY <1>0, RdBounds DEF CheckTypes, Checks
<1>6. ~ReadyTooLate
  BY <1>u, <1>3, <1>4, <1>5, RdBounds DEF ReadyTooLate
<1> QED BY <1>2, <1>6

\* A verdict after a probe that failed: only the engine is new in it.
LEMMA FailedVerdict ==
    ASSUME RdInv, ProbeFails
    PROVE  ~ReadyTooLate /\ ~BlamedTooLate
<1>0. BlameInv /\ rdCheck.pc = "probe" /\ rdRetry' = EngineRetry /\ EngineRetry # 0
  BY RdBounds DEF RdInv, ProbeFails
<1>1. rdCheck'.failed = rdCheck.failed \cup {"engine"}
  BY DEF ProbeFails, RdVerdict, NoCheck
<1>2. rdCheck.failed \cap FileParts \subseteq rdCheck.spoiled
  BY <1>0 DEF BlameInv
<1>3. ~ReadyTooLate
  BY <1>1 DEF ReadyTooLate
<1>4. ~BlamedTooLate
  BY <1>0, <1>1, <1>2 DEF BlamedTooLate
<1> QED BY <1>3, <1>4

\* Every verdict is true of a recent moment.
LEMMA VerdictsAreTrue == RdInv /\ RdNext => ~ReadyTooLate /\ ~BlamedTooLate
<1> SUFFICES ASSUME RdInv, RdNext PROVE ~ReadyTooLate /\ ~BlamedTooLate
  OBVIOUS
<1>0. rdCheck \in Checks
  BY DEF RdInv, CheckTypes
<1>1. CASE rdCheck' = rdCheck
  BY <1>1, NoVerdict
<1>2. CASE \E c \in FileParts \cup {"worker", "pmtiles"} : Spoil(c)
  <2>1. PICK c : Spoil(c)
    BY <1>2
  <2>2. rdCheck.pc = "idle" \/ rdCheck'.pc = rdCheck.pc
    BY <1>0, <2>1 DEF Spoil, Checks
  <2> QED BY <2>2, NoVerdict
<1>3. CASE RdTick
  <2>1. rdCheck.pc = "idle" \/ rdCheck'.pc = rdCheck.pc
    BY <1>0, <1>3 DEF RdTick, Checks
  <2> QED BY <2>1, NoVerdict
<1>4. CASE \E m \in Monitors : MonitorAsks(m)
  <2>1. rdCheck.pc = "idle" \/ rdCheck' = rdCheck
    BY <1>4 DEF MonitorAsks
  <2> QED BY <2>1, NoVerdict
<1>5. CASE CheckNext
  <2>1. CASE \E c \in FileParts \cup {"pmtiles"}, passed \in BOOLEAN : PartSettles(c, passed)
    <3>1. PICK c \in FileParts \cup {"pmtiles"}, passed \in BOOLEAN : PartSettles(c, passed)
      BY <2>1
    <3>2. rdCheck'.pc = rdCheck.pc
      BY <1>0, <3>1, SettleIs
    <3> QED BY <3>2, NoVerdict
  <2>2. CASE FilesChecked \/ StartProbe
    <3>1. rdCheck'.pc # "idle"
      BY <1>0, <2>2 DEF FilesChecked, StartProbe, Checks
    <3> QED BY <3>1, NoVerdict
  <2>3. CASE \E c \in FileParts : CheckPart(c)
    <3>1. PICK c \in FileParts : CheckPart(c)
      BY <2>3
    <3>2. PartSettles(c, TRUE) \/ PartSettles(c, FALSE)
      BY <3>1 DEF CheckPart, PartSettles
    <3> QED BY <2>1, <3>2
  <2>4. CASE CheckPmtiles
    <3>1. CASE rdRead[Checker].got = "manifest"
      <4>1. PartSettles("pmtiles", TRUE)
        BY <2>4, <3>1 DEF CheckPmtiles, PartSettles
      <4> QED BY <2>1, <4>1
    <3>2. CASE rdRead[Checker].got # "manifest"
      <4>1. PartSettles("pmtiles", FALSE)
        BY <2>4, <3>2 DEF CheckPmtiles, PartSettles
      <4> QED BY <2>1, <4>1
    <3> QED BY <3>1, <3>2
  <2> QED BY <1>5, <2>2, <2>3, <2>4, KnownVerdict, AnsweredVerdict, FailedVerdict DEF CheckNext
<1>6. CASE \E r \in Readers : ReaderNext(r)
  BY <1>1, <1>6 DEF ReaderNext, OpenPin, StatPin
<1>7. CASE \E k \in PinKeys : LoadNext(k)
  BY <1>1, <1>7 DEF LoadNext, ValidatePin, StatAgain, LoadEnds
<1>8. CASE RdWorldNext
  BY <1>1, <1>2, <1>8 DEF RdWorldNext, PublishPin, PinBreaks, PinHeals, PartBreaks, PartHeals
<1>9. CASE \E r \in Routes : AskManifest(r)
  BY <1>1, <1>9 DEF AskManifest
<1> QED BY <1>3, <1>4, <1>5, <1>6, <1>7, <1>8, <1>9 DEF RdNext, FilesAnswer

\* No stack of caches, shared loads and joined checks gives an answer that was
\* not true of a recent moment, for every length of the caches.
THEOREM ReadinessAlwaysHonest == RdSpec => ReadinessIsHonest
<1>1. RdInv /\ [RdNext]_rdVars
          => [(\A r \in Readers : ~MisreadPin(r)) /\ ~ReadyTooLate /\ ~BlamedTooLate]_rdVars
  BY AnswersAreTrue, VerdictsAreTrue
<1> QED BY <1>1, RdAlways, PTL DEF RdSpec, ReadinessIsHonest

-----------------------------------------------------------------------------
(* Point queries: their inductive invariant.  A version is claimed of what *)
(* is at least as new, and of nothing newer than the table; the cells of a *)
(* call are those of the process, which are loaded once.                   *)

EdgeStates == [step : {"absent", "written"}, ver : 0 .. MaxVersions, content : 0 .. MaxVersions]
MemoEntryStates == [cell : QueryCells, ver : Versions, content : Versions]
ResultStates == UNION {[point : {p}, hex : [Ring[p] -> 0 .. MaxVersions], index : [Ring[p] -> Versions]] :
                          p \in Points}
CallStates == [pc : {"rest", "look", "load", "take", "index"}, point : Points \cup {NoPoint},
               missing : SUBSET QueryCells, hex : Hexes, part : [QueryCells -> Parts]]

\* What claims a version of a table, which is now the given one, holds one as new.
Claims(part, now) ==
    /\ part.step = "known" => part.ver \in 1 .. now
    /\ part.step = "missed" => part.ver <= now
    /\ part.step \in {"written", "got"} => part.ver \in 1 .. part.content /\ part.content <= now
    /\ part.step = "done" => /\ part.ver <= part.content /\ part.content <= now
                             /\ part.content \in Versions

DiskInv ==
    /\ pqTable \in [QueryCells -> Versions]
    /\ pqEdges \in [QueryCells -> EdgeStates]
    /\ pqSweep \in [QueryCells -> Parts]
    /\ \A c \in QueryCells : Claims(pqEdges[c], pqTable[c]) /\ Claims(pqSweep[c], pqTable[c])
\* A memo over the tables there are: an entry of an identity is there once.
MemoFits(memo, table) ==
    /\ memo \in Seq(MemoEntryStates)
    /\ \A n \in 1 .. Len(memo) : memo[n].ver <= memo[n].content /\ memo[n].content <= table[memo[n].cell]
    /\ \A m, n \in 1 .. Len(memo) : memo[m].cell = memo[n].cell /\ memo[m].ver = memo[n].ver => m = n

\* Recent results over the resident cells.
ResultsFit(results, store) ==
    /\ results \in Seq(ResultStates)
    /\ \A n \in 1 .. Len(results) : \A c \in Ring[results[n].point] : results[n].hex[c] = store[c]
    /\ \A m, n \in 1 .. Len(results) : results[m].point = results[n].point => m = n

\* The cells of a ring that a call counts on are there, and it has them.
Resident(call, store) ==
    /\ call.pc # "rest" => call.point \in Points
    /\ call.pc = "load" => \A c \in Ring[call.point] : c \in call.missing \/ store[c] # NoCell
    /\ call.pc \in {"take", "index"} => \A c \in Ring[call.point] : store[c] # NoCell
    /\ call.pc = "index" => \A c \in Ring[call.point] : call.hex[c] = store[c]
CallsInv ==
    /\ pqCall \in [QueryWorkers -> CallStates]
    /\ \A w \in QueryWorkers : Resident(pqCall[w], pqStore)
    /\ \A w \in QueryWorkers, c \in QueryCells : Claims(pqCall[w].part[c], pqTable[c])

MemoInv == MemoFits(pqMemo, pqTable) /\ Len(pqMemo) <= MemoCap
ResultsInv == ResultsFit(pqResults, pqStore) /\ Len(pqResults) <= ResultCap
PqInv == DiskInv /\ pqStore \in Hexes /\ MemoInv /\ ResultsInv /\ CallsInv

\* The elements of t are some of those of s, each once, and none of those gone.
Embeds(t, s, gone) ==
    \E f \in [1 .. Len(t) -> 1 .. Len(s)] :
       /\ \A i \in 1 .. Len(t) : f[i] \notin gone /\ t[i] = s[f[i]]
       /\ \A i, j \in 1 .. Len(t) : f[i] = f[j] => i = j

\* Every element of t is one of those of s, at a place that is not gone.
DrawnFrom(t, s, gone) == \A i \in 1 .. Len(t) : \E j \in 1 .. Len(s) : j \notin gone /\ t[i] = s[j]

\* What Without leaves of a sequence.
LEMMA WithoutIs ==
    ASSUME NEW S, NEW s \in Seq(S), NEW gone, gone \subseteq 1 .. Len(s), \A m, n \in gone : m = n,
           NEW t, t = Without(s, gone)
    PROVE  /\ t \in Seq(S) /\ Embeds(t, s, gone)
           /\ gone = {} => Len(t) = Len(s)
           /\ gone # {} => Len(t) = Len(s) - 1
<1>1. CASE gone = {}
  <2>1. t = s
    BY <1>1 DEF Without
  <2>2. PICK f : f = [i \in 1 .. Len(s) |-> i]
    OBVIOUS
  <2>3. f \in [1 .. Len(s) -> 1 .. Len(s)] /\ \A i \in 1 .. Len(s) : f[i] = i
    BY <2>2
  <2> QED BY <1>1, <2>1, <2>3 DEF Embeds
<1>2. CASE gone # {}
  <2>1. PICK n : n = CHOOSE m \in gone : TRUE
    OBVIOUS
  <2>2. n \in gone /\ n \in 1 .. Len(s) /\ gone = {n}
    BY <1>2, <2>1
  <2>3. t = SubSeq(s, 1, n - 1) \o SubSeq(s, n + 1, Len(s))
    BY <1>2, <2>1 DEF Without
  <2>5. /\ t \in Seq(S) /\ Len(t) = Len(s) - 1
        /\ \A i \in 1 .. Len(t) : t[i] = IF i < n THEN s[i] ELSE s[i + 1]
    <3>1. s \in Seq(S) /\ n \in 1 .. Len(s)
      BY <2>2
    <3> QED BY ONLY <3>1, <2>3, WithoutOne
  <2>l. PICK l \in Nat : l = Len(s)
    OBVIOUS
  <2>6. PICK f : f = [i \in 1 .. l - 1 |-> IF i < n THEN i ELSE i + 1]
    OBVIOUS
  <2>7. \A i \in 1 .. l - 1 : f[i] = (IF i < n THEN i ELSE i + 1) /\ f[i] \in 1 .. l /\ f[i] # n
    BY <2>2, <2>6, <2>l
  <2>8. f \in [1 .. l - 1 -> 1 .. l]
    BY <2>6, <2>7
  <2>9. \A i, j \in 1 .. l - 1 : f[i] = f[j] => i = j
    BY <2>2, <2>7, <2>l
  <2>10. \A i \in 1 .. l - 1 : f[i] \notin gone /\ t[i] = s[f[i]]
    BY <2>2, <2>5, <2>7, <2>l
  <2>11. 1 .. Len(t) = 1 .. l - 1 /\ 1 .. Len(s) = 1 .. l
    BY <2>5, <2>l
  <2>12. /\ \A i \in 1 .. Len(t) : f[i] \notin gone /\ t[i] = s[f[i]]
         /\ \A i, j \in 1 .. Len(t) : f[i] = f[j] => i = j
    BY <2>9, <2>10, <2>11
  <2>13. f \in [1 .. Len(t) -> 1 .. Len(s)]
    BY <2>8, <2>11
  <2>14. Embeds(t, s, gone)
    BY <2>12, <2>13 DEF Embeds
  <2> QED BY <1>2, <2>5, <2>14
<1> QED BY <1>1, <1>2

\* And Tail, of what is not empty.
LEMMA TailIs ==
    ASSUME NEW S, NEW s \in Seq(S), Len(s) >= 1
    PROVE  /\ Tail(s) \in Seq(S) /\ Len(Tail(s)) = Len(s) - 1
           /\ \A i \in 1 .. Len(Tail(s)) : i + 1 \in 1 .. Len(s) /\ Tail(s)[i] = s[i + 1]
<1>1. s # <<>>
  OBVIOUS
<1>2. /\ Tail(s) \in Seq(S) /\ Len(Tail(s)) = Len(s) - 1
      /\ \A i \in 1 .. Len(s) - 1 : Tail(s)[i] = s[i + 1]
  BY <1>1, HeadTailProperties
<1>l. PICK l \in Nat : l = Len(s)
  OBVIOUS
<1> QED BY <1>2, <1>l

LEMMA QueryBounds ==
    /\ Ring \in [Points -> SUBSET QueryCells]
    /\ MemoCap \in Nat /\ MemoCap >= 1 /\ ResultCap \in Nat /\ ResultCap >= 1
    /\ MaxVersions \in Nat /\ MaxVersions >= 1 /\ Versions = 1 .. MaxVersions /\ Versions \subseteq Nat
    /\ NoPoint \notin Points /\ NoCell \notin 0 .. MaxVersions
BY QueryAssumption DEF Versions

-----------------------------------------------------------------------------
(* The memo.                                                               *)

LEMMA MemoTail ==
    ASSUME NEW memo, NEW table, MemoFits(memo, table), Len(memo) >= 1
    PROVE  MemoFits(Tail(memo), table) /\ Len(Tail(memo)) = Len(memo) - 1
<1>0. memo \in Seq(MemoEntryStates)
  BY DEF MemoFits
<1> HIDE DEF MemoEntryStates
<1>t. PICK t : t = Tail(memo)
  OBVIOUS
<1>1. /\ t \in Seq(MemoEntryStates) /\ Len(t) = Len(memo) - 1
      /\ \A i \in 1 .. Len(t) : i + 1 \in 1 .. Len(memo) /\ t[i] = memo[i + 1]
  BY <1>0, <1>t, TailIs
<1>2. \A n \in 1 .. Len(t) : t[n].ver <= t[n].content /\ t[n].content <= table[t[n].cell]
  BY <1>1 DEF MemoFits
<1>3. \A m, n \in 1 .. Len(t) : t[m].cell = t[n].cell /\ t[m].ver = t[n].ver => m + 1 = n + 1
  BY <1>1 DEF MemoFits
<1>4. \A m, n \in 1 .. Len(t) : m + 1 = n + 1 => m = n
  OBVIOUS
<1>5. MemoFits(t, table)
  BY <1>1, <1>2, <1>3, <1>4 DEF MemoFits
<1> QED BY <1>t, <1>1, <1>5

LEMMA MemoWithout ==
    ASSUME NEW memo, NEW table, MemoFits(memo, table), NEW gone, gone \subseteq 1 .. Len(memo), \A m, n \in gone : m = n,
           NEW t, t = Without(memo, gone)
    PROVE  /\ MemoFits(t, table)
           /\ gone = {} => Len(t) = Len(memo)
           /\ gone # {} => Len(t) = Len(memo) - 1
           /\ DrawnFrom(t, memo, gone)
<1>0. memo \in Seq(MemoEntryStates)
  BY DEF MemoFits
<1> HIDE DEF MemoEntryStates
<1>1. t \in Seq(MemoEntryStates) /\ Embeds(t, memo, gone)
      /\ (gone = {} => Len(t) = Len(memo)) /\ (gone # {} => Len(t) = Len(memo) - 1)
  BY <1>0, WithoutIs
<1>2. PICK f \in [1 .. Len(t) -> 1 .. Len(memo)] :
            /\ \A i \in 1 .. Len(t) : f[i] \notin gone /\ t[i] = memo[f[i]]
            /\ \A i, j \in 1 .. Len(t) : f[i] = f[j] => i = j
  BY <1>1 DEF Embeds
<1>3. \A i \in 1 .. Len(t) : f[i] \in 1 .. Len(memo)
  BY <1>2
<1>4. \A n \in 1 .. Len(t) : t[n].ver <= t[n].content /\ t[n].content <= table[t[n].cell]
  BY <1>2, <1>3 DEF MemoFits
<1>5. \A m, n \in 1 .. Len(t) : t[m].cell = t[n].cell /\ t[m].ver = t[n].ver => m = n
  BY <1>2, <1>3 DEF MemoFits
<1>6. MemoFits(t, table)
  BY <1>1, <1>4, <1>5 DEF MemoFits
<1>7. DrawnFrom(t, memo, gone)
  BY <1>2, <1>3 DEF DrawnFrom
<1> QED BY <1>1, <1>6, <1>7

LEMMA MemoAppend ==
    ASSUME NEW memo, NEW table, MemoFits(memo, table), NEW e \in MemoEntryStates,
           e.ver <= e.content, e.content <= table[e.cell],
           \A n \in 1 .. Len(memo) : ~(memo[n].cell = e.cell /\ memo[n].ver = e.ver)
    PROVE  MemoFits(Append(memo, e), table) /\ Len(Append(memo, e)) = Len(memo) + 1
<1>0. memo \in Seq(MemoEntryStates)
  BY DEF MemoFits
<1> HIDE DEF MemoEntryStates
<1>l. PICK l \in Nat : l = Len(memo)
  BY <1>0
<1>t. PICK t : t = Append(memo, e)
  OBVIOUS
<1>1. /\ t \in Seq(MemoEntryStates) /\ Len(t) = l + 1 /\ t[l + 1] = e
      /\ \A i \in 1 .. l : t[i] = memo[i]
  BY <1>0, <1>t, <1>l, AppendProperties
<1>2. \A n \in 1 .. l + 1 : n = l + 1 \/ n \in 1 .. l
  OBVIOUS
<1>3. \A n \in 1 .. l + 1 : t[n].ver <= t[n].content /\ t[n].content <= table[t[n].cell]
  BY <1>1, <1>2, <1>l DEF MemoFits
<1>4. \A m, n \in 1 .. l + 1 : t[m].cell = t[n].cell /\ t[m].ver = t[n].ver => m = n
  BY <1>1, <1>2, <1>l DEF MemoFits
<1>5. MemoFits(t, table)
  BY <1>1, <1>3, <1>4 DEF MemoFits
<1> QED BY <1>t, <1>l, <1>1, <1>5

-----------------------------------------------------------------------------
(* The recent results.                                                     *)

LEMMA ResultsTail ==
    ASSUME NEW results, NEW store, ResultsFit(results, store), Len(results) >= 1
    PROVE  /\ ResultsFit(Tail(results), store) /\ Len(Tail(results)) = Len(results) - 1
           /\ DrawnFrom(Tail(results), results, {})
<1>0. results \in Seq(ResultStates)
  BY DEF ResultsFit
<1> HIDE DEF ResultStates
<1>t. PICK t : t = Tail(results)
  OBVIOUS
<1>1. /\ t \in Seq(ResultStates) /\ Len(t) = Len(results) - 1
      /\ \A i \in 1 .. Len(t) : i + 1 \in 1 .. Len(results) /\ t[i] = results[i + 1]
  BY <1>0, <1>t, TailIs
<1>2. ASSUME NEW n \in 1 .. Len(t) PROVE \A c \in Ring[t[n].point] : t[n].hex[c] = store[c]
  <2>1. n + 1 \in 1 .. Len(results) /\ t[n] = results[n + 1]
    BY <1>1
  <2>2. \A c \in Ring[results[n + 1].point] : results[n + 1].hex[c] = store[c]
    BY <2>1 DEF ResultsFit
  <2> QED BY ONLY <2>1, <2>2, Zenon
<1>3. \A m, n \in 1 .. Len(t) : t[m].point = t[n].point => m + 1 = n + 1
  <2>1. \A m, n \in 1 .. Len(results) : results[m].point = results[n].point => m = n
    BY DEF ResultsFit
  <2> QED BY <1>1, <2>1
<1>4. \A m, n \in 1 .. Len(t) : m + 1 = n + 1 => m = n
  OBVIOUS
<1>5. ResultsFit(t, store)
  BY <1>1, <1>2, <1>3, <1>4 DEF ResultsFit
<1>6. DrawnFrom(t, results, {})
  BY <1>1 DEF DrawnFrom
<1> QED BY <1>t, <1>1, <1>5, <1>6

LEMMA ResultsWithout ==
    ASSUME NEW results, NEW store, ResultsFit(results, store), NEW gone, gone \subseteq 1 .. Len(results), \A m, n \in gone : m = n,
           NEW t, t = Without(results, gone)
    PROVE  /\ ResultsFit(t, store)
           /\ gone = {} => Len(t) = Len(results)
           /\ gone # {} => Len(t) = Len(results) - 1
           /\ DrawnFrom(t, results, gone)
<1>0. results \in Seq(ResultStates)
  BY DEF ResultsFit
<1> HIDE DEF ResultStates
<1>1. t \in Seq(ResultStates) /\ Embeds(t, results, gone)
      /\ (gone = {} => Len(t) = Len(results)) /\ (gone # {} => Len(t) = Len(results) - 1)
  BY <1>0, WithoutIs
<1>2. PICK f \in [1 .. Len(t) -> 1 .. Len(results)] :
            /\ \A i \in 1 .. Len(t) : f[i] \notin gone /\ t[i] = results[f[i]]
            /\ \A i, j \in 1 .. Len(t) : f[i] = f[j] => i = j
  BY <1>1 DEF Embeds
<1>3. \A i \in 1 .. Len(t) : f[i] \in 1 .. Len(results)
  BY <1>2
<1>4. \A n \in 1 .. Len(t) : \A c \in Ring[t[n].point] : t[n].hex[c] = store[c]
  BY <1>2, <1>3 DEF ResultsFit
<1>5. \A m, n \in 1 .. Len(t) : t[m].point = t[n].point => m = n
  BY <1>2, <1>3 DEF ResultsFit
<1>6. ResultsFit(t, store)
  BY <1>1, <1>4, <1>5 DEF ResultsFit
<1>7. DrawnFrom(t, results, gone)
  BY <1>2, <1>3 DEF DrawnFrom
<1> QED BY <1>1, <1>6, <1>7

LEMMA ResultsAppend ==
    ASSUME NEW results, NEW store, ResultsFit(results, store), NEW e \in ResultStates,
           \A c \in Ring[e.point] : e.hex[c] = store[c],
           \A n \in 1 .. Len(results) : results[n].point # e.point
    PROVE  ResultsFit(Append(results, e), store) /\ Len(Append(results, e)) = Len(results) + 1
<1>0. results \in Seq(ResultStates)
  BY DEF ResultsFit
<1> HIDE DEF ResultStates
<1>l. PICK l \in Nat : l = Len(results)
  BY <1>0
<1>t. PICK t : t = Append(results, e)
  OBVIOUS
<1>1. /\ t \in Seq(ResultStates) /\ Len(t) = l + 1 /\ t[l + 1] = e
      /\ \A i \in 1 .. l : t[i] = results[i]
  BY <1>0, <1>t, <1>l, AppendProperties
<1>2. \A n \in 1 .. l + 1 : n = l + 1 \/ n \in 1 .. l
  OBVIOUS
<1>3. \A n \in 1 .. l + 1 : \A c \in Ring[t[n].point] : t[n].hex[c] = store[c]
  BY <1>1, <1>2, <1>l DEF ResultsFit
<1>4. \A m, n \in 1 .. l + 1 : t[m].point = t[n].point => m = n
  BY <1>1, <1>2, <1>l DEF ResultsFit
<1>5. ResultsFit(t, store)
  BY <1>1, <1>3, <1>4 DEF ResultsFit
<1> QED BY <1>t, <1>l, <1>1, <1>5

-----------------------------------------------------------------------------
(* What the steps of a query do.                                           *)

\* A claim outlives a replacement of the table.
LEMMA ClaimsGrow ==
    ASSUME NEW part, part.ver \in Nat, part.content \in Nat, NEW u \in Nat, NEW v \in Nat, u <= v,
           Claims(part, u)
    PROVE  Claims(part, v)
BY DEF Claims

\* The call of one worker becomes another good one.
LEMMA CallBecomes ==
    ASSUME CallsInv, UNCHANGED <<pqTable, pqStore>>, NEW w \in QueryWorkers, NEW call \in CallStates,
           Resident(call, pqStore), \A c \in QueryCells : Claims(call.part[c], pqTable[c]),
           pqCall' = [pqCall EXCEPT ![w] = call]
    PROVE  CallsInv'
<1>1. /\ pqCall' \in [QueryWorkers -> CallStates] /\ pqCall'[w] = call
      /\ \A v \in QueryWorkers : v # w => pqCall'[v] = pqCall[v]
  BY DEF CallsInv
<1>2. \A v \in QueryWorkers : Resident(pqCall'[v], pqStore)
  BY <1>1 DEF CallsInv
<1>3. \A v \in QueryWorkers, c \in QueryCells : Claims(pqCall'[v].part[c], pqTable[c])
  <2> SUFFICES ASSUME NEW v \in QueryWorkers, NEW c \in QueryCells PROVE Claims(pqCall'[v].part[c], pqTable[c])
    OBVIOUS
  <2>1. CASE v = w
    BY <1>1, <2>1
  <2>2. CASE v # w
    BY <1>1, <2>2 DEF CallsInv
  <2> QED BY <2>1, <2>2
<1> QED BY <1>1, <1>2, <1>3 DEF CallsInv

LEMMA CallIs ==
    ASSUME CallsInv, NEW w \in QueryWorkers
    PROVE  /\ pqCall[w] \in CallStates /\ Resident(pqCall[w], pqStore)
           /\ pqCall[w].pc \in {"rest", "look", "load", "take", "index"}
           /\ pqCall[w].point \in Points \cup {NoPoint} /\ pqCall[w].missing \subseteq QueryCells
           /\ pqCall[w].hex \in Hexes /\ pqCall[w].part \in [QueryCells -> Parts]
           /\ \A c \in QueryCells : Claims(pqCall[w].part[c], pqTable[c])
<1>1. pqCall[w] \in CallStates /\ Resident(pqCall[w], pqStore)
  BY DEF CallsInv
<1>2. \A c \in QueryCells : Claims(pqCall[w].part[c], pqTable[c])
  BY DEF CallsInv
<1> QED BY <1>1, <1>2 DEF CallStates

\* One part of a call that indexes becomes another.
LEMMA PartBecomes ==
    ASSUME CallsInv, UNCHANGED <<pqTable, pqStore>>, NEW w \in QueryWorkers, NEW c \in QueryCells,
           NEW part \in Parts, Claims(part, pqTable[c]), Becomes(w, c, part)
    PROVE  CallsInv'
<1>1. PICK parts : parts = [pqCall[w].part EXCEPT ![c] = part]
  OBVIOUS
<1>2. PICK call : call = [pqCall[w] EXCEPT !.part = parts]
  OBVIOUS
<1>3. pqCall' = [pqCall EXCEPT ![w] = call]
  BY <1>1, <1>2, CallIs DEF Becomes, CallsInv
<1>4. parts \in [QueryCells -> Parts] /\ \A d \in QueryCells : parts[d] = IF d = c THEN part ELSE pqCall[w].part[d]
  BY <1>1, CallIs
<1>5. /\ call \in CallStates /\ call.part = parts /\ call.pc = pqCall[w].pc /\ call.point = pqCall[w].point
      /\ call.missing = pqCall[w].missing /\ call.hex = pqCall[w].hex
  BY <1>2, <1>4, CallIs DEF CallStates
<1>6. Resident(call, pqStore)
  BY <1>5, CallIs DEF Resident
<1>7. \A d \in QueryCells : Claims(call.part[d], pqTable[d])
  <2> SUFFICES ASSUME NEW d \in QueryCells PROVE Claims(call.part[d], pqTable[d])
    OBVIOUS
  <2>1. CASE d = c
    BY <1>4, <1>5, <2>1
  <2>2. CASE d # c
    BY <1>4, <1>5, <2>2, CallIs
  <2> QED BY <2>1, <2>2
<1> QED BY <1>3, <1>5, <1>6, <1>7, CallBecomes

LEMMA NothingIsLoaded ==
    /\ NothingLoaded \in Hexes /\ \A c \in QueryCells : NothingLoaded[c] = NoCell
    /\ Part("todo", 0, 0) \in Parts /\ Untouched \in [QueryCells -> Parts]
    /\ \A c \in QueryCells : Untouched[c] = Part("todo", 0, 0)
    /\ \A v : Claims(Part("todo", 0, 0), v)
<1>1. Part("todo", 0, 0) \in Parts
  BY QueryBounds DEF Part, Parts, Steps
<1>2. \A v : Claims(Part("todo", 0, 0), v)
  BY DEF Part, Claims
<1> QED BY <1>1, <1>2 DEF NothingLoaded, Hexes, Untouched

LEMMA NewCall ==
    ASSUME NEW pc \in {"rest", "look"}, NEW p \in Points \cup {NoPoint}, pc = "rest" \/ p \in Points, NEW store
    PROVE  /\ Call(pc, p) \in CallStates /\ Resident(Call(pc, p), store)
           /\ \A c \in QueryCells : Claims(Call(pc, p).part[c], pqTable[c])
<1>1. Call(pc, p) = [pc |-> pc, point |-> p, missing |-> {}, hex |-> NothingLoaded, part |-> Untouched]
  BY DEF Call
<1>2. Call(pc, p) \in CallStates
  BY <1>1, NothingIsLoaded DEF CallStates
<1>3. Call(pc, p).pc = pc /\ Call(pc, p).point = p /\ Call(pc, p).part = Untouched
  BY <1>1
<1>4. Resident(Call(pc, p), store)
  BY <1>3 DEF Resident
<1>5. \A c \in QueryCells : Claims(Call(pc, p).part[c], pqTable[c])
  BY <1>3, NothingIsLoaded
<1> QED BY <1>2, <1>4, <1>5

\* Steps of the disk.
LEMMA DiskKeeps ==
    ASSUME PqInv, NEW c \in QueryCells, DiskStep(c)
    PROVE  PqInv'
<1>0. DiskInv /\ pqStore \in Hexes /\ MemoInv /\ ResultsInv /\ CallsInv
  BY DEF PqInv
<1>u. UNCHANGED <<pqStore, pqMemo, pqResults, pqCall>>
  BY DEF DiskStep, ReplaceTable, SweepFingerprints, SweepBuilds, SweepWrites, SweepStops, pqCacheVars
<1>t. /\ pqTable \in [QueryCells -> Versions] /\ pqEdges \in [QueryCells -> EdgeStates]
      /\ pqSweep \in [QueryCells -> Parts] /\ pqTable[c] \in Versions /\ pqSweep[c] \in Parts
      /\ Claims(pqSweep[c], pqTable[c]) /\ Claims(pqEdges[c], pqTable[c])
  BY <1>0 DEF DiskInv
<1>1. CASE ReplaceTable(c)
  <2>1. /\ pqTable' = [pqTable EXCEPT ![c] = pqTable[c] + 1] /\ pqTable[c] < MaxVersions
        /\ pqEdges' = pqEdges /\ pqSweep' = pqSweep
    BY <1>1 DEF ReplaceTable
  <2>2. PICK table : table = pqTable'
    OBVIOUS
  <2>3. /\ table \in [QueryCells -> Versions]
        /\ \A d \in QueryCells : pqTable[d] \in Nat /\ table[d] \in Nat /\ pqTable[d] <= table[d]
    BY <1>t, <2>1, <2>2, QueryBounds
  <2>4. DiskInv'
    <3>1. ASSUME NEW d \in QueryCells PROVE Claims(pqEdges[d], table[d]) /\ Claims(pqSweep[d], table[d])
      <4>1. /\ pqEdges[d].ver \in Nat /\ pqEdges[d].content \in Nat
            /\ pqSweep[d].ver \in Nat /\ pqSweep[d].content \in Nat
        BY <1>t DEF EdgeStates, Parts
      <4>2. Claims(pqEdges[d], pqTable[d]) /\ Claims(pqSweep[d], pqTable[d])
        BY <1>0 DEF DiskInv
      <4> QED BY <2>3, <4>1, <4>2, ClaimsGrow
    <3> QED BY <1>t, <2>1, <2>2, <2>3, <3>1 DEF DiskInv
  <2>5. MemoInv'
    <3>1. pqMemo \in Seq(MemoEntryStates)
      BY <1>0 DEF MemoInv, MemoFits
    <3>2. ASSUME NEW n \in 1 .. Len(pqMemo)
          PROVE  pqMemo[n].ver <= pqMemo[n].content /\ pqMemo[n].content <= table[pqMemo[n].cell]
      <4>1. pqMemo[n] \in MemoEntryStates
        BY <3>1
      <4>2. pqMemo[n].cell \in QueryCells /\ pqMemo[n].content \in Nat
        BY <4>1, QueryBounds DEF MemoEntryStates
      <4>3. pqMemo[n].ver <= pqMemo[n].content /\ pqMemo[n].content <= pqTable[pqMemo[n].cell]
        BY <1>0 DEF MemoInv, MemoFits
      <4> QED BY <2>3, <4>2, <4>3
    <3>3. MemoFits(pqMemo, table)
      BY <1>0, <3>2 DEF MemoInv, MemoFits
    <3> QED BY <1>0, <1>u, <2>2, <3>3 DEF MemoInv
  <2>6. ResultsInv'
    BY <1>0, <1>u DEF ResultsInv
  <2>7. CallsInv'
    <3>1. ASSUME NEW w \in QueryWorkers, NEW d \in QueryCells PROVE Claims(pqCall[w].part[d], table[d])
      <4>1. pqCall[w].part[d] \in Parts
        BY <1>0, CallIs
      <4>2. pqCall[w].part[d].ver \in Nat /\ pqCall[w].part[d].content \in Nat
        BY <4>1 DEF Parts
      <4>3. Claims(pqCall[w].part[d], pqTable[d])
        BY <1>0, CallIs
      <4> QED BY <2>3, <4>2, <4>3, ClaimsGrow
    <3> QED BY <1>0, <1>u, <2>2, <3>1 DEF CallsInv
  <2> QED BY <1>0, <1>u, <2>4, <2>5, <2>6, <2>7 DEF PqInv
<1>2. ASSUME pqTable' = pqTable, DiskInv' PROVE PqInv'
  BY <1>0, <1>u, <1>2 DEF PqInv, MemoInv, ResultsInv, CallsInv
<1>3. ASSUME NEW part \in Parts, Claims(part, pqTable[c]), pqSweep' = [pqSweep EXCEPT ![c] = part],
             UNCHANGED <<pqTable, pqEdges>>
      PROVE  DiskInv'
  <2>1. pqSweep' \in [QueryCells -> Parts] /\ pqSweep'[c] = part /\ \A d \in QueryCells : d # c => pqSweep'[d] = pqSweep[d]
    BY <1>t, <1>3
  <2>2. \A d \in QueryCells : Claims(pqSweep'[d], pqTable[d])
    BY <1>0, <1>3, <2>1 DEF DiskInv
  <2> QED BY <1>0, <1>3, <2>1, <2>2 DEF DiskInv
<1>n. pqTable[c] \in 1 .. MaxVersions /\ pqTable[c] \in 0 .. MaxVersions /\ MaxVersions \in Nat
      /\ pqSweep[c].ver \in 0 .. MaxVersions /\ pqSweep[c].content \in 0 .. MaxVersions
  BY <1>t, QueryBounds DEF Parts
<1>4. CASE SweepFingerprints(c)
  <2>1. PICK part : part = Part("known", pqTable[c], 0)
    OBVIOUS
  <2>2. part = [step |-> "known", ver |-> pqTable[c], content |-> 0]
    BY <2>1 DEF Part
  <2>3. part \in Parts
    BY <1>n, <2>2 DEF Parts, Steps
  <2>4. Claims(part, pqTable[c])
    BY <1>n, <2>2 DEF Claims
  <2>5. pqSweep' = [pqSweep EXCEPT ![c] = part] /\ UNCHANGED <<pqTable, pqEdges>>
    BY <1>4, <2>1 DEF SweepFingerprints
  <2> QED BY <1>2, <1>3, <2>3, <2>4, <2>5
<1>5. CASE SweepBuilds(c)
  <2>1. PICK part : part = Part("got", pqSweep[c].ver, pqTable[c])
    OBVIOUS
  <2>2. part = [step |-> "got", ver |-> pqSweep[c].ver, content |-> pqTable[c]]
    BY <2>1 DEF Part
  <2>3. part \in Parts
    BY <1>n, <2>2 DEF Parts, Steps
  <2>4. Claims(part, pqTable[c])
    BY <1>n, <1>t, <1>5, <2>2 DEF Claims, SweepBuilds
  <2>5. pqSweep' = [pqSweep EXCEPT ![c] = part] /\ UNCHANGED <<pqTable, pqEdges>>
    BY <1>t, <1>5, <2>1 DEF SweepBuilds
  <2> QED BY <1>2, <1>3, <2>3, <2>4, <2>5
<1>6. CASE SweepStops(c)
  <2>1. pqSweep' = [pqSweep EXCEPT ![c] = Part("todo", 0, 0)] /\ UNCHANGED <<pqTable, pqEdges>>
    BY <1>6 DEF SweepStops
  <2> QED BY <1>2, <1>3, <2>1, NothingIsLoaded
<1>7. CASE SweepWrites(c)
  <2>1. PICK edges : edges = Part("written", pqSweep[c].ver, pqSweep[c].content)
    OBVIOUS
  <2>2. edges = [step |-> "written", ver |-> pqSweep[c].ver, content |-> pqSweep[c].content]
    BY <2>1 DEF Part
  <2>3. edges \in EdgeStates
    BY <1>n, <2>2 DEF EdgeStates
  <2>4. Claims(edges, pqTable[c])
    BY <1>t, <1>7, <2>2 DEF Claims, SweepWrites
  <2>5. /\ pqEdges' = [pqEdges EXCEPT ![c] = edges] /\ pqSweep' = [pqSweep EXCEPT ![c] = Part("todo", 0, 0)]
        /\ pqTable' = pqTable
    BY <1>7, <2>1 DEF SweepWrites
  <2>6. /\ pqEdges' \in [QueryCells -> EdgeStates] /\ pqEdges'[c] = edges
        /\ \A d \in QueryCells : d # c => pqEdges'[d] = pqEdges[d]
    BY <1>t, <2>3, <2>5
  <2>7. /\ pqSweep' \in [QueryCells -> Parts] /\ pqSweep'[c] = Part("todo", 0, 0)
        /\ \A d \in QueryCells : d # c => pqSweep'[d] = pqSweep[d]
    BY <1>t, <2>5, NothingIsLoaded
  <2>8. \A d \in QueryCells : Claims(pqEdges'[d], pqTable[d])
    BY <1>0, <2>4, <2>6 DEF DiskInv
  <2>9. \A d \in QueryCells : Claims(pqSweep'[d], pqTable[d])
    BY <1>0, <2>7, NothingIsLoaded DEF DiskInv
  <2>10. DiskInv'
    BY <1>t, <2>5, <2>6, <2>7, <2>8, <2>9 DEF DiskInv
  <2> QED BY <1>2, <2>5, <2>10
<1> QED BY <1>1, <1>4, <1>5, <1>6, <1>7 DEF DiskStep

\* The entry that is used goes to the end of its cache.
LEMMA ResultUsed ==
    ASSUME NEW results, NEW store, ResultsFit(results, store), NEW n \in 1 .. Len(results)
    PROVE  ResultsFit(Youngest(results, n), store) /\ Len(Youngest(results, n)) = Len(results)
<1>l. PICK l \in Nat : l = Len(results)
  BY DEF ResultsFit
<1>g. PICK gone : gone = {n}
  OBVIOUS
<1>t. PICK t : t = Without(results, gone)
  OBVIOUS
<1>0. gone \subseteq 1 .. Len(results) /\ (\A i, j \in gone : i = j) /\ gone # {}
  BY <1>g
<1>1. /\ ResultsFit(t, store) /\ Len(t) = Len(results) - 1
      /\ DrawnFrom(t, results, gone)
  BY <1>0, <1>t, ResultsWithout
<1>e. PICK e : e = results[n]
  OBVIOUS
<1>2. e \in ResultStates
  <2> HIDE DEF ResultStates
  <2> QED BY <1>e DEF ResultsFit
<1>3. \A c \in Ring[e.point] : e.hex[c] = store[c]
  BY <1>e DEF ResultsFit
<1>4. \A i, j \in 1 .. Len(results) : results[i].point = results[j].point => i = j
  BY DEF ResultsFit
<1>5. \A i \in 1 .. Len(t) : t[i].point # e.point
  BY <1>1, <1>4, <1>e, <1>g DEF DrawnFrom
<1>6. ResultsFit(Append(t, e), store) /\ Len(Append(t, e)) = Len(t) + 1
  BY <1>1, <1>2, <1>3, <1>5, ResultsAppend
<1>7. Youngest(results, n) = Append(t, e)
  BY <1>e, <1>g, <1>t DEF Youngest
<1> QED BY <1>l, <1>1, <1>6, <1>7

LEMMA EntryUsed ==
    ASSUME NEW memo, NEW table, MemoFits(memo, table), NEW n \in 1 .. Len(memo)
    PROVE  MemoFits(Youngest(memo, n), table) /\ Len(Youngest(memo, n)) = Len(memo)
<1>l. PICK l \in Nat : l = Len(memo)
  BY DEF MemoFits
<1>g. PICK gone : gone = {n}
  OBVIOUS
<1>t. PICK t : t = Without(memo, gone)
  OBVIOUS
<1>0. gone \subseteq 1 .. Len(memo) /\ (\A i, j \in gone : i = j) /\ gone # {}
  BY <1>g
<1>1. /\ MemoFits(t, table) /\ Len(t) = Len(memo) - 1
      /\ DrawnFrom(t, memo, gone)
  BY <1>0, <1>t, MemoWithout
<1>e. PICK e : e = memo[n]
  OBVIOUS
<1>2. e \in MemoEntryStates
  <2> HIDE DEF MemoEntryStates
  <2> QED BY <1>e DEF MemoFits
<1>3. e.ver <= e.content /\ e.content <= table[e.cell]
  BY <1>e DEF MemoFits
<1>4. \A i, j \in 1 .. Len(memo) : memo[i].cell = memo[j].cell /\ memo[i].ver = memo[j].ver => i = j
  BY DEF MemoFits
<1>5. \A i \in 1 .. Len(t) : ~(t[i].cell = e.cell /\ t[i].ver = e.ver)
  BY <1>1, <1>4, <1>e, <1>g DEF DrawnFrom
<1>6. MemoFits(Append(t, e), table) /\ Len(Append(t, e)) = Len(t) + 1
  BY <1>1, <1>2, <1>3, <1>5, MemoAppend
<1>7. Youngest(memo, n) = Append(t, e)
  BY <1>e, <1>g, <1>t DEF Youngest
<1> QED BY <1>l, <1>1, <1>6, <1>7

\* Steps of a call that change nothing but itself.
LEMMA CallOnly ==
    ASSUME PqInv, UNCHANGED <<pqDiskVars, pqCacheVars>>, CallsInv'
    PROVE  PqInv'
BY DEF PqInv, DiskInv, MemoInv, ResultsInv, pqDiskVars, pqCacheVars

LEMMA AskPointKeeps ==
    ASSUME PqInv, NEW w \in QueryWorkers, NEW p \in Points, AskPoint(w, p)
    PROVE  PqInv'
<1>0. DiskInv /\ pqStore \in Hexes /\ MemoInv /\ ResultsInv /\ CallsInv
  BY DEF PqInv
<1>1. CASE AskHits(w, p)
  <2>1. PICK n \in ResultsOf(p) : pqResults' = Youngest(pqResults, n)
    BY <1>1 DEF AskHits
  <2>2. n \in 1 .. Len(pqResults)
    BY <1>0, <2>1 DEF ResultsOf, ResultsInv, ResultsFit
  <2>3. UNCHANGED <<pqTable, pqEdges, pqSweep, pqStore, pqMemo, pqCall>>
    BY <1>1 DEF AskHits, pqDiskVars
  <2>4. ResultsInv'
    BY <1>0, <2>1, <2>2, <2>3, ResultUsed DEF ResultsInv
  <2> QED BY <1>0, <2>3, <2>4 DEF PqInv, DiskInv, MemoInv, CallsInv
<1>2. CASE AskMisses(w, p)
  <2>1. PICK call : call = Call("look", p)
    OBVIOUS
  <2>2. pqCall' = [pqCall EXCEPT ![w] = call] /\ UNCHANGED <<pqDiskVars, pqCacheVars>>
    BY <1>2, <2>1 DEF AskMisses
  <2>3. call \in CallStates /\ Resident(call, pqStore) /\ \A c \in QueryCells : Claims(call.part[c], pqTable[c])
    BY <2>1, NewCall
  <2>4. CallsInv'
    BY <1>0, <2>2, <2>3, CallBecomes DEF pqDiskVars, pqCacheVars
  <2> QED BY <2>2, <2>4, CallOnly
<1> QED BY <1>1, <1>2 DEF AskPoint

LEMMA LookKeeps ==
    ASSUME PqInv, NEW w \in QueryWorkers, LookForMissing(w)
    PROVE  PqInv'
<1>0. CallsInv /\ pqStore \in Hexes
  BY DEF PqInv
<1>1. PICK missing : missing = {c \in Ring[pqCall[w].point] : pqStore[c] = NoCell}
  OBVIOUS
<1>2. PICK pc : pc = IF missing = {} THEN "take" ELSE "load"
  OBVIOUS
<1>3. PICK call : call = [pqCall[w] EXCEPT !.missing = missing, !.pc = pc]
  OBVIOUS
<1>4. /\ pqCall[w].pc = "look" /\ UNCHANGED <<pqDiskVars, pqCacheVars>>
      /\ pqCall' = [pqCall EXCEPT ![w] = call]
  BY <1>0, <1>1, <1>2, <1>3, CallIs DEF LookForMissing, CallsInv
<1>5. pqCall[w].point \in Points /\ missing \subseteq QueryCells
  BY <1>0, <1>1, <1>4, CallIs, QueryBounds DEF Resident
<1>6. /\ call \in CallStates /\ call.pc = pc /\ call.missing = missing /\ call.point = pqCall[w].point
      /\ call.part = pqCall[w].part
  BY <1>0, <1>2, <1>3, <1>5, CallIs DEF CallStates
<1>7. Resident(call, pqStore)
  BY <1>1, <1>2, <1>5, <1>6 DEF Resident
<1>8. CallsInv'
  BY <1>0, <1>4, <1>6, <1>7, CallIs, CallBecomes DEF pqDiskVars, pqCacheVars
<1> QED BY <1>4, <1>8, CallOnly

LEMMA LoadHexKeeps ==
    ASSUME PqInv, NEW w \in QueryWorkers, NEW c \in QueryCells, LoadHex(w, c)
    PROVE  PqInv'
<1>0. CallsInv /\ pqTable \in [QueryCells -> Versions]
  BY DEF PqInv, DiskInv
<1>1. PICK v \in {0, pqTable[c]} : pqCall' = [pqCall EXCEPT ![w].hex[c] = v]
  BY DEF LoadHex
<1>2. PICK hex : hex = [pqCall[w].hex EXCEPT ![c] = v]
  OBVIOUS
<1>3. PICK call : call = [pqCall[w] EXCEPT !.hex = hex]
  OBVIOUS
<1>4. /\ pqCall[w].pc = "load" /\ UNCHANGED <<pqDiskVars, pqCacheVars>>
      /\ pqCall' = [pqCall EXCEPT ![w] = call]
  BY <1>0, <1>1, <1>2, <1>3, CallIs DEF LoadHex, CallsInv
<1>5. hex \in Hexes
  <2>1. pqTable[c] \in 0 .. MaxVersions
    BY <1>0, QueryBounds
  <2>2. v \in 0 .. MaxVersions
    BY <1>1, <2>1, QueryBounds
  <2> QED BY <1>0, <1>2, <2>2, CallIs DEF Hexes
<1>6. /\ call \in CallStates /\ call.pc = "load" /\ call.missing = pqCall[w].missing
      /\ call.point = pqCall[w].point /\ call.part = pqCall[w].part
  BY <1>0, <1>3, <1>4, <1>5, CallIs DEF CallStates
<1>7. Resident(call, pqStore)
  BY <1>0, <1>4, <1>6, CallIs DEF Resident
<1>8. CallsInv'
  BY <1>0, <1>4, <1>6, <1>7, CallIs, CallBecomes DEF pqDiskVars, pqCacheVars
<1> QED BY <1>4, <1>8, CallOnly

\* The first insert wins: a cell that is there stays as it is.
LEMMA InsertKeeps ==
    ASSUME PqInv, NEW w \in QueryWorkers, InsertHexes(w)
    PROVE  PqInv'
<1>0. DiskInv /\ pqStore \in Hexes /\ MemoInv /\ ResultsInv /\ CallsInv
  BY DEF PqInv
<1>1. /\ pqCall[w].pc = "load" /\ \A c \in pqCall[w].missing : pqCall[w].hex[c] # NoCell
      /\ pqStore' = [c \in QueryCells |-> IF c \in pqCall[w].missing /\ pqStore[c] = NoCell
                                          THEN pqCall[w].hex[c] ELSE pqStore[c]]
      /\ pqCall' = [pqCall EXCEPT ![w].pc = "take", ![w].missing = {}]
      /\ UNCHANGED <<pqTable, pqEdges, pqSweep, pqMemo, pqResults>>
  BY DEF InsertHexes, Loaded, pqDiskVars
<1>s. PICK store : store = pqStore'
  OBVIOUS
<1>2. /\ store \in Hexes
      /\ \A c \in QueryCells : pqStore[c] # NoCell => store[c] = pqStore[c]
      /\ \A c \in pqCall[w].missing : store[c] # NoCell
  BY <1>0, <1>1, <1>s, CallIs DEF Hexes
<1>3. PICK call : call = [pqCall[w] EXCEPT !.pc = "take", !.missing = {}]
  OBVIOUS
<1>4. pqCall' = [pqCall EXCEPT ![w] = call]
  BY <1>0, <1>1, <1>3, CallIs DEF CallsInv
<1>5. /\ call \in CallStates /\ call.pc = "take" /\ call.point = pqCall[w].point /\ call.part = pqCall[w].part
  BY <1>0, <1>3, CallIs DEF CallStates
<1>6. /\ pqCall' \in [QueryWorkers -> CallStates] /\ pqCall'[w] = call
      /\ \A v \in QueryWorkers : v # w => pqCall'[v] = pqCall[v]
  BY <1>0, <1>4, <1>5 DEF CallsInv
<1>7. \A v \in QueryWorkers : Resident(pqCall'[v], store)
  <2> SUFFICES ASSUME NEW v \in QueryWorkers PROVE Resident(pqCall'[v], store)
    OBVIOUS
  <2>1. CASE v = w
    <3>1. Resident(pqCall[w], pqStore) /\ pqCall[w].point \in Points
      BY <1>0, <1>1, CallIs DEF Resident
    <3>2. Ring[pqCall[w].point] \subseteq QueryCells
      BY <3>1, QueryBounds
    <3>3. \A c \in Ring[pqCall[w].point] : store[c] # NoCell
      BY <1>1, <1>2, <3>1, <3>2 DEF Resident
    <3> QED BY <1>5, <1>6, <2>1, <3>1, <3>3 DEF Resident
  <2>2. CASE v # w
    <3>1. Resident(pqCall[v], pqStore) /\ pqCall'[v] = pqCall[v] /\ pqCall[v].point \in Points \cup {NoPoint}
      BY <1>0, <1>6, <2>2, CallIs
    <3>2. pqCall[v].pc # "rest" => Ring[pqCall[v].point] \subseteq QueryCells
      BY <3>1, QueryBounds DEF Resident
    <3> QED BY <1>2, <3>1, <3>2 DEF Resident
  <2> QED BY <2>1, <2>2
<1>8. \A v \in QueryWorkers, c \in QueryCells : Claims(pqCall'[v].part[c], pqTable[c])
  <2> SUFFICES ASSUME NEW v \in QueryWorkers, NEW c \in QueryCells PROVE Claims(pqCall'[v].part[c], pqTable[c])
    OBVIOUS
  <2>1. pqCall'[v].part = pqCall[v].part
    BY <1>5, <1>6
  <2> QED BY <1>0, <2>1, CallIs
<1>9. CallsInv'
  BY <1>1, <1>6, <1>7, <1>8, <1>s DEF CallsInv
<1>10. ResultsFit(pqResults, store)
  <2>1. pqResults \in Seq(ResultStates)
    BY <1>0 DEF ResultsInv, ResultsFit
  <2>2. ASSUME NEW n \in 1 .. Len(pqResults), NEW c \in Ring[pqResults[n].point]
        PROVE  pqResults[n].hex[c] = store[c]
    <3>1. pqResults[n] \in ResultStates
      BY <2>1
    <3>2. pqResults[n].point \in Points /\ pqResults[n].hex[c] \in 0 .. MaxVersions /\ c \in QueryCells
      BY <2>2, <3>1, QueryBounds DEF ResultStates
    <3>3. pqResults[n].hex[c] = pqStore[c]
      BY <1>0, <2>2 DEF ResultsInv, ResultsFit
    <3> QED BY <1>2, <3>2, <3>3, QueryBounds
  <2> QED BY <1>0, <2>2 DEF ResultsInv, ResultsFit
<1>11. ResultsInv'
  BY <1>0, <1>1, <1>10, <1>s DEF ResultsInv
<1> QED BY <1>0, <1>1, <1>2, <1>9, <1>11, <1>s DEF PqInv, DiskInv, MemoInv

LEMMA TakeKeeps ==
    ASSUME PqInv, NEW w \in QueryWorkers, TakeHexes(w)
    PROVE  PqInv'
<1>0. CallsInv /\ pqStore \in Hexes
  BY DEF PqInv
<1>1. PICK hex : hex = [c \in QueryCells |-> IF c \in Ring[pqCall[w].point] THEN pqStore[c] ELSE NoCell]
  OBVIOUS
<1>2. PICK call : call = [pqCall[w] EXCEPT !.pc = "index", !.hex = hex]
  OBVIOUS
<1>3. /\ pqCall[w].pc = "take" /\ UNCHANGED <<pqDiskVars, pqCacheVars>>
      /\ pqCall' = [pqCall EXCEPT ![w] = call]
  BY <1>0, <1>1, <1>2, CallIs DEF TakeHexes, CallsInv
<1>4. hex \in Hexes
  BY <1>0, <1>1 DEF Hexes
<1>5. /\ call \in CallStates /\ call.pc = "index" /\ call.hex = hex /\ call.point = pqCall[w].point
      /\ call.part = pqCall[w].part
  BY <1>0, <1>2, <1>4, CallIs DEF CallStates
<1>6. Resident(pqCall[w], pqStore) /\ pqCall[w].point \in Points
  BY <1>0, <1>3, CallIs DEF Resident
<1>7. Ring[pqCall[w].point] \subseteq QueryCells
  BY <1>6, QueryBounds
<1>8. Resident(call, pqStore)
  BY <1>1, <1>3, <1>5, <1>6, <1>7 DEF Resident
<1>9. CallsInv'
  BY <1>0, <1>3, <1>5, <1>8, CallIs, CallBecomes DEF pqDiskVars, pqCacheVars
<1> QED BY <1>3, <1>9, CallOnly

\* A part takes an identity, finds an index that is as new, or reads the table.
LEMMA IndexKeeps ==
    ASSUME PqInv, NEW w \in QueryWorkers, NEW c \in QueryCells,
           Fingerprint(w, c) \/ MemoMiss(w, c) \/ MapEdges(w, c) \/ BuildIndex(w, c)
    PROVE  PqInv'
<1>0. CallsInv /\ DiskInv
  BY DEF PqInv
<1>u. UNCHANGED <<pqDiskVars, pqCacheVars>>
  BY DEF Fingerprint, MemoMiss, MapEdges, BuildIndex
<1>v. PICK part : part = pqCall[w].part[c]
  OBVIOUS
<1>1. /\ part \in Parts /\ part.ver \in 0 .. MaxVersions /\ Claims(part, pqTable[c])
      /\ pqTable[c] \in 1 .. MaxVersions /\ pqTable[c] \in 0 .. MaxVersions /\ MaxVersions \in Nat
      /\ pqEdges[c] \in EdgeStates /\ Claims(pqEdges[c], pqTable[c])
  BY <1>0, <1>v, CallIs, QueryBounds DEF DiskInv, Parts
<1>2. ASSUME NEW step \in Steps, NEW ver \in 0 .. MaxVersions, NEW content \in 0 .. MaxVersions,
             Becomes(w, c, Part(step, ver, content)),
             step = "known" => ver = pqTable[c],
             step \in {"missed"} => ver <= pqTable[c],
             step \in {"got", "done"} => ver <= content /\ content <= pqTable[c] /\ content \in Versions,
             step = "got" => ver # 0,
             step # "written"
      PROVE  PqInv'
  <2>1. PICK next : next = Part(step, ver, content)
    OBVIOUS
  <2>2. next = [step |-> step, ver |-> ver, content |-> content]
    BY <2>1 DEF Part
  <2>3. next \in Parts
    BY <2>2 DEF Parts
  <2>4. next.step = step /\ next.ver = ver /\ next.content = content /\ ver \in Nat /\ content \in Nat
    BY <2>2
  <2>5. Claims(next, pqTable[c])
    BY <1>1, <1>2, <2>4 DEF Claims
  <2>6. CallsInv'
    BY <1>0, <1>2, <1>u, <2>1, <2>3, <2>5, PartBecomes DEF pqDiskVars, pqCacheVars
  <2> QED BY <1>u, <2>6, CallOnly
<1>3. CASE Fingerprint(w, c)
  <2>1. Becomes(w, c, Part("known", pqTable[c], 0)) \/ Becomes(w, c, Part("missed", 0, 0))
    BY <1>3 DEF Fingerprint
  <2> QED BY <1>1, <1>2, <2>1 DEF Steps
<1>4. CASE MemoMiss(w, c)
  <2>1. part.step = "known" /\ Becomes(w, c, Part("missed", part.ver, 0))
    BY <1>4, <1>v DEF MemoMiss, Indexing
  <2>2. part.ver <= pqTable[c]
    BY <1>1, <2>1 DEF Claims
  <2> QED BY <1>1, <1>2, <2>1, <2>2 DEF Steps
<1>5. CASE MapEdges(w, c)
  <2>1. /\ Becomes(w, c, Part("got", part.ver, pqEdges[c].content))
        /\ part.ver # 0 /\ pqEdges[c].step = "written" /\ pqEdges[c].ver = part.ver
    BY <1>5, <1>v DEF MapEdges, EdgesAreCurrent
  <2>2. pqEdges[c].content \in 0 .. MaxVersions
    BY <1>1 DEF EdgeStates
  <2>3. part.ver <= pqEdges[c].content /\ pqEdges[c].content <= pqTable[c] /\ pqEdges[c].content \in Versions
    BY <1>1, <2>1, <2>2, QueryBounds DEF Claims
  <2> QED BY <1>1, <1>2, <2>1, <2>2, <2>3 DEF Steps
<1>6. CASE BuildIndex(w, c)
  <2>1. /\ part.step = "missed"
        /\ \/ part.ver = 0 /\ Becomes(w, c, Part("done", part.ver, pqTable[c]))
           \/ part.ver # 0 /\ Becomes(w, c, Part("got", part.ver, pqTable[c]))
           \/ Becomes(w, c, Part("failed", part.ver, 0))
    <3>1. part.step = "missed" /\ (\/ Becomes(w, c, Part(IF part.ver = 0 THEN "done" ELSE "got", part.ver, pqTable[c]))
                                   \/ Becomes(w, c, Part("failed", part.ver, 0)))
      BY <1>6, <1>v DEF BuildIndex, Indexing
    <3> QED BY <3>1
  <2>2. part.ver <= pqTable[c] /\ pqTable[c] <= pqTable[c] /\ pqTable[c] \in Versions
    BY <1>1, <2>1, QueryBounds DEF Claims
  <2> QED BY <1>1, <1>2, <2>1, <2>2 DEF Steps
<1> QED BY <1>3, <1>4, <1>5, <1>6

LEMMA MemoHitKeeps ==
    ASSUME PqInv, NEW w \in QueryWorkers, NEW c \in QueryCells, MemoHit(w, c)
    PROVE  PqInv'
<1>0. DiskInv /\ pqStore \in Hexes /\ MemoInv /\ ResultsInv /\ CallsInv
  BY DEF PqInv
<1>1. PICK ver : ver = pqCall[w].part[c].ver
  OBVIOUS
<1>2. PICK n \in MemoEntries(c, ver) : /\ Becomes(w, c, Part("done", ver, pqMemo[n].content))
                                       /\ pqMemo' = Youngest(pqMemo, n)
  BY <1>1 DEF MemoHit
<1>3. n \in 1 .. Len(pqMemo) /\ pqMemo[n].cell = c /\ pqMemo[n].ver = ver
  BY <1>0, <1>2 DEF MemoEntries, Keyed, MemoInv, MemoFits
<1>4. pqMemo[n] \in MemoEntryStates
  <2> HIDE DEF MemoEntryStates
  <2> QED BY <1>0, <1>3 DEF MemoInv, MemoFits
<1>5. ver \in Versions /\ pqMemo[n].content \in Versions /\ ver <= pqMemo[n].content /\ pqMemo[n].content <= pqTable[c]
  <2>1. pqMemo[n].ver \in Versions /\ pqMemo[n].content \in Versions
    BY <1>4 DEF MemoEntryStates
  <2>2. pqMemo[n].ver <= pqMemo[n].content /\ pqMemo[n].content <= pqTable[pqMemo[n].cell]
    BY <1>0, <1>3 DEF MemoInv, MemoFits
  <2> QED BY <1>3, <2>1, <2>2
<1>6. PICK part : part = Part("done", ver, pqMemo[n].content)
  OBVIOUS
<1>7. part = [step |-> "done", ver |-> ver, content |-> pqMemo[n].content]
  BY <1>6 DEF Part
<1>8. part \in Parts
  BY <1>5, <1>7, QueryBounds DEF Parts, Steps
<1>9. Claims(part, pqTable[c])
  BY <1>5, <1>7 DEF Claims
<1>u. UNCHANGED <<pqTable, pqEdges, pqSweep, pqStore, pqResults>>
  BY DEF MemoHit, pqDiskVars
<1>10. CallsInv'
  BY <1>0, <1>2, <1>6, <1>8, <1>9, <1>u, PartBecomes
<1>11. MemoInv'
  BY <1>0, <1>2, <1>3, <1>u, EntryUsed DEF MemoInv
<1> QED BY <1>0, <1>10, <1>11, <1>u DEF PqInv, DiskInv, ResultsInv

\* The memo makes room and takes the new index under the identity that was known
\* before it was read.
LEMMA MemoPutKeeps ==
    ASSUME PqInv, NEW w \in QueryWorkers, NEW c \in QueryCells, MemoPut(w, c)
    PROVE  PqInv'
<1>0. DiskInv /\ pqStore \in Hexes /\ MemoInv /\ ResultsInv /\ CallsInv
  BY DEF PqInv
<1>1. PICK part : part = pqCall[w].part[c]
  OBVIOUS
<1>2. PICK kept : kept = IF Len(pqMemo) >= MemoCap THEN Tail(pqMemo) ELSE pqMemo
  OBVIOUS
<1>3. PICK gone : gone = Keyed(kept, c, part.ver)
  OBVIOUS
<1>4. PICK rest : rest = Without(kept, gone)
  OBVIOUS
<1>5. PICK e : e = [cell |-> c, ver |-> part.ver, content |-> part.content]
  OBVIOUS
<1>6. /\ part.step = "got" /\ pqMemo' = Append(rest, e)
      /\ Becomes(w, c, Part("done", part.ver, part.content))
      /\ UNCHANGED <<pqTable, pqEdges, pqSweep, pqStore, pqResults>>
  BY <1>1, <1>2, <1>3, <1>4, <1>5 DEF MemoPut, Indexing, pqDiskVars
<1>7. /\ part \in Parts /\ part.ver \in 1 .. part.content /\ part.content <= pqTable[c]
      /\ part.content \in 0 .. MaxVersions
  <2>1. part \in Parts /\ Claims(part, pqTable[c])
    BY <1>0, <1>1, CallIs
  <2> QED BY <1>6, <2>1 DEF Claims, Parts
<1>8. part.ver \in Versions /\ part.content \in Versions
  BY <1>7, QueryBounds
<1>l. PICK l \in Nat : l = Len(pqMemo)
  BY <1>0 DEF MemoInv, MemoFits
<1>9. MemoFits(kept, pqTable) /\ Len(kept) \in Nat /\ Len(kept) + 1 <= MemoCap
  <2>1. CASE Len(pqMemo) >= MemoCap
    <3>1. MemoFits(Tail(pqMemo), pqTable) /\ Len(Tail(pqMemo)) = Len(pqMemo) - 1
      BY <1>0, <1>l, <2>1, MemoTail, QueryBounds DEF MemoInv
    <3> QED BY <1>0, <1>2, <1>l, <2>1, <3>1, QueryBounds DEF MemoInv
  <2>2. CASE ~(Len(pqMemo) >= MemoCap)
    BY <1>0, <1>2, <1>l, <2>2, QueryBounds DEF MemoInv
  <2> QED BY <2>1, <2>2
<1>10. /\ gone = {n \in 1 .. Len(kept) : kept[n].cell = c /\ kept[n].ver = part.ver}
       /\ \A m, n \in gone : m = n
  <2>1. gone = {n \in 1 .. Len(kept) : kept[n].cell = c /\ kept[n].ver = part.ver}
    BY <1>3, <1>9 DEF Keyed, MemoFits
  <2>2. \A m, n \in 1 .. Len(kept) : kept[m].cell = kept[n].cell /\ kept[m].ver = kept[n].ver => m = n
    BY <1>9 DEF MemoFits
  <2> QED BY <2>1, <2>2
<1>11. /\ MemoFits(rest, pqTable)
       /\ gone = {} => Len(rest) = Len(kept)
       /\ gone # {} => Len(rest) = Len(kept) - 1
       /\ DrawnFrom(rest, kept, gone)
  BY <1>4, <1>9, <1>10, MemoWithout
<1>12. \A i \in 1 .. Len(rest) : ~(rest[i].cell = c /\ rest[i].ver = part.ver)
  BY <1>10, <1>11 DEF DrawnFrom
<1>13. e \in MemoEntryStates /\ e.cell = c /\ e.ver = part.ver /\ e.content = part.content
  BY <1>5, <1>8 DEF MemoEntryStates
<1>14. MemoFits(Append(rest, e), pqTable) /\ Len(Append(rest, e)) = Len(rest) + 1
  BY <1>7, <1>11, <1>12, <1>13, MemoAppend
<1>15. MemoInv'
  <2>1. Len(rest) + 1 <= MemoCap
    BY <1>9, <1>11, QueryBounds
  <2> QED BY <1>6, <1>14, <2>1 DEF MemoInv
<1>16. CallsInv'
  <2>1. PICK done : done = Part("done", part.ver, part.content)
    OBVIOUS
  <2>2. done = [step |-> "done", ver |-> part.ver, content |-> part.content]
    BY <2>1 DEF Part
  <2>3. done \in Parts
    BY <1>7, <1>8, <2>2, QueryBounds DEF Parts, Steps
  <2>4. Claims(done, pqTable[c])
    BY <1>7, <1>8, <2>2 DEF Claims
  <2> QED BY <1>0, <1>6, <2>1, <2>3, <2>4, PartBecomes
<1> QED BY <1>0, <1>6, <1>15, <1>16 DEF PqInv, DiskInv, ResultsInv

LEMMA CallFailKeeps ==
    ASSUME PqInv, NEW w \in QueryWorkers, CallFails(w)
    PROVE  PqInv'
<1>1. PICK call : call = NoCall
  OBVIOUS
<1>2. pqCall' = [pqCall EXCEPT ![w] = call] /\ UNCHANGED <<pqDiskVars, pqCacheVars>>
  BY <1>1 DEF CallFails
<1>3. call \in CallStates /\ Resident(call, pqStore) /\ \A c \in QueryCells : Claims(call.part[c], pqTable[c])
  BY <1>1, NewCall DEF NoCall
<1>4. CallsInv'
  BY <1>2, <1>3, CallBecomes DEF PqInv, pqDiskVars, pqCacheVars
<1> QED BY <1>2, <1>4, CallOnly

\* The result takes the place of an older one of its point.
LEMMA CallEndKeeps ==
    ASSUME PqInv, NEW w \in QueryWorkers, CallEnds(w)
    PROVE  PqInv'
<1>0. DiskInv /\ pqStore \in Hexes /\ MemoInv /\ ResultsInv /\ CallsInv
  BY DEF PqInv
<1>1. PICK p : p = pqCall[w].point
  OBVIOUS
<1>2. PICK e : e = Result(w)
  OBVIOUS
<1>3. PICK gone : gone = ResultsOf(p)
  OBVIOUS
<1>4. PICK others : others = Without(pqResults, gone)
  OBVIOUS
<1>5. PICK kept : kept = IF Len(others) >= ResultCap THEN Tail(others) ELSE others
  OBVIOUS
<1>6. /\ pqCall[w].pc = "index" /\ \A c \in Ring[p] : pqCall[w].part[c].step = "done"
      /\ pqResults' = Append(kept, e)
      /\ pqCall' = [pqCall EXCEPT ![w] = NoCall]
      /\ UNCHANGED <<pqTable, pqEdges, pqSweep, pqStore, pqMemo>>
  BY <1>1, <1>2, <1>3, <1>4, <1>5 DEF CallEnds, KeepResult, PartsAre, pqDiskVars
<1>7. /\ p \in Points /\ Ring[p] \subseteq QueryCells
      /\ \A c \in Ring[p] : pqStore[c] # NoCell /\ pqCall[w].hex[c] = pqStore[c]
  <2>1. Resident(pqCall[w], pqStore)
    BY <1>0, CallIs
  <2> QED BY <1>1, <1>6, <2>1, QueryBounds DEF Resident
<1>8. /\ e \in ResultStates /\ e.point = p /\ \A c \in Ring[e.point] : e.hex[c] = pqStore[c]
  <2>1. PICK hex : hex = [c \in Ring[p] |-> pqCall[w].hex[c]]
    OBVIOUS
  <2>2. PICK index : index = [c \in Ring[p] |-> pqCall[w].part[c].content]
    OBVIOUS
  <2>3. e = [point |-> p, hex |-> hex, index |-> index]
    BY <1>1, <1>2, <2>1, <2>2 DEF Result
  <2>4. \A c \in Ring[p] : hex[c] = pqStore[c] /\ hex[c] \in 0 .. MaxVersions
    BY <1>0, <1>7, <2>1 DEF Hexes
  <2>5. \A c \in Ring[p] : index[c] \in Versions
    <3> SUFFICES ASSUME NEW c \in Ring[p] PROVE index[c] \in Versions
      OBVIOUS
    <3>1. Claims(pqCall[w].part[c], pqTable[c]) /\ pqCall[w].part[c].step = "done"
      BY <1>0, <1>6, <1>7, CallIs
    <3> QED BY <2>2, <3>1 DEF Claims
  <2>6. hex \in [Ring[p] -> 0 .. MaxVersions] /\ index \in [Ring[p] -> Versions]
    BY <2>1, <2>2, <2>4, <2>5
  <2>7. e \in [point : {p}, hex : [Ring[p] -> 0 .. MaxVersions], index : [Ring[p] -> Versions]]
    BY <2>3, <2>6
  <2>8. e \in ResultStates
    BY <1>7, <2>7 DEF ResultStates
  <2> QED BY <2>3, <2>4, <2>8
<1>l. PICK l \in Nat : l = Len(pqResults)
  BY <1>0 DEF ResultsInv, ResultsFit
<1>9. gone = {n \in 1 .. Len(pqResults) : pqResults[n].point = p} /\ \A m, n \in gone : m = n
  <2>1. gone = {n \in 1 .. Len(pqResults) : pqResults[n].point = p}
    BY <1>0, <1>3 DEF ResultsOf, ResultsInv, ResultsFit
  <2>2. \A m, n \in 1 .. Len(pqResults) : pqResults[m].point = pqResults[n].point => m = n
    BY <1>0 DEF ResultsInv, ResultsFit
  <2> QED BY <2>1, <2>2
<1>10. /\ ResultsFit(others, pqStore)
       /\ gone = {} => Len(others) = Len(pqResults)
       /\ gone # {} => Len(others) = Len(pqResults) - 1
       /\ DrawnFrom(others, pqResults, gone)
  <2>1. PICK store : store = pqStore
    OBVIOUS
  <2>2. PICK results : results = pqResults
    OBVIOUS
  <2>3. ResultsFit(results, store)
    BY <1>0, <2>1, <2>2 DEF ResultsInv
  <2>4. gone \subseteq 1 .. Len(results) /\ \A m, n \in gone : m = n
    BY <1>9, <2>2
  <2>5. others = Without(results, gone)
    BY <1>4, <2>2
  <2>6. /\ ResultsFit(others, store)
        /\ gone = {} => Len(others) = Len(results)
        /\ gone # {} => Len(others) = Len(results) - 1
        /\ DrawnFrom(others, results, gone)
    BY ONLY <2>3, <2>4, <2>5, ResultsWithout
  <2> QED BY <2>1, <2>2, <2>6
<1>11. \A i \in 1 .. Len(others) : others[i].point # p
  BY <1>9, <1>10 DEF DrawnFrom
<1>m. Len(others) \in Nat /\ Len(others) <= ResultCap
  BY <1>0, <1>10, <1>l, QueryBounds DEF ResultsInv, ResultsFit
<1>12. /\ ResultsFit(kept, pqStore) /\ Len(kept) + 1 <= ResultCap
       /\ \A i \in 1 .. Len(kept) : kept[i].point # p
  <2>1. CASE Len(others) >= ResultCap
    <3>1. PICK t : t = Tail(others)
      OBVIOUS
    <3>2. /\ ResultsFit(t, pqStore) /\ Len(t) = Len(others) - 1
          /\ DrawnFrom(t, others, {})
      BY <1>10, <1>m, <2>1, <3>1, ResultsTail, QueryBounds
    <3>3. kept = t
      BY <1>5, <2>1, <3>1
    <3>4. \A i \in 1 .. Len(kept) : kept[i].point # p
      BY <1>11, <3>2, <3>3 DEF DrawnFrom
    <3> QED BY <1>m, <3>2, <3>3, <3>4, QueryBounds
  <2>2. CASE ~(Len(others) >= ResultCap)
    BY <1>5, <1>10, <1>11, <1>m, <2>2, QueryBounds
  <2> QED BY <2>1, <2>2
<1>13. ResultsFit(Append(kept, e), pqStore) /\ Len(Append(kept, e)) = Len(kept) + 1
  BY <1>8, <1>12, ResultsAppend
<1>14. ResultsInv'
  BY <1>6, <1>12, <1>13 DEF ResultsInv
<1>15. CallsInv'
  <2>1. PICK call : call = NoCall
    OBVIOUS
  <2>2. call \in CallStates /\ Resident(call, pqStore) /\ \A c \in QueryCells : Claims(call.part[c], pqTable[c])
    BY <2>1, NewCall DEF NoCall
  <2> QED BY <1>0, <1>6, <2>1, <2>2, CallBecomes
<1> QED BY <1>0, <1>6, <1>14, <1>15 DEF PqInv, DiskInv, MemoInv

\* A process begins with nothing.
LEMMA NothingFits ==
    ASSUME NEW table, NEW store
    PROVE  MemoFits(<<>>, table) /\ ResultsFit(<<>>, store) /\ Len(<<>>) = 0
<1> HIDE DEF MemoEntryStates, ResultStates
<1> QED BY DEF MemoFits, ResultsFit

LEMMA RestingCalls ==
    ASSUME DiskInv, NEW calls, calls = [w \in QueryWorkers |-> NoCall], NEW store
    PROVE  /\ calls \in [QueryWorkers -> CallStates]
           /\ \A w \in QueryWorkers : Resident(calls[w], store)
           /\ \A w \in QueryWorkers, c \in QueryCells : Claims(calls[w].part[c], pqTable[c])
BY NewCall DEF NoCall

LEMMA RestartKeeps == PqInv /\ ServerRestarts => PqInv'
<1> SUFFICES ASSUME PqInv, ServerRestarts PROVE PqInv'
  OBVIOUS
<1>1. DiskInv /\ UNCHANGED <<pqTable, pqEdges, pqSweep>>
  BY DEF PqInv, ServerRestarts, pqDiskVars
<1>2. /\ pqStore' = NothingLoaded /\ pqMemo' = <<>> /\ pqResults' = <<>>
      /\ pqCall' = [w \in QueryWorkers |-> NoCall]
  BY DEF ServerRestarts
<1>3. PICK calls : calls = [w \in QueryWorkers |-> NoCall]
  OBVIOUS
<1>4. CallsInv'
  BY <1>1, <1>2, <1>3, RestingCalls DEF CallsInv
<1>5. MemoInv' /\ ResultsInv'
  BY <1>2, NothingFits, QueryBounds DEF MemoInv, ResultsInv
<1> QED BY <1>1, <1>2, <1>4, <1>5, NothingIsLoaded DEF PqInv, DiskInv

LEMMA PqInitInv == PqInit => PqInv
<1> SUFFICES ASSUME PqInit PROVE PqInv
  OBVIOUS
<1>1. DiskInv
  <2>1. /\ pqTable = [c \in QueryCells |-> 1] /\ pqEdges = [c \in QueryCells |-> Part("absent", 0, 0)]
        /\ pqSweep = Untouched
    BY DEF PqInit
  <2>2. Part("absent", 0, 0) \in EdgeStates /\ \A v : Claims(Part("absent", 0, 0), v)
    BY QueryBounds DEF Part, EdgeStates, Claims
  <2> QED BY <2>1, <2>2, NothingIsLoaded, QueryBounds DEF DiskInv
<1>2. /\ pqStore = NothingLoaded /\ pqMemo = <<>> /\ pqResults = <<>>
      /\ pqCall = [w \in QueryWorkers |-> NoCall]
  BY DEF PqInit
<1>3. CallsInv
  BY <1>1, <1>2, RestingCalls DEF CallsInv
<1>4. MemoInv /\ ResultsInv
  BY <1>2, NothingFits, QueryBounds DEF MemoInv, ResultsInv
<1> QED BY <1>1, <1>2, <1>3, <1>4, NothingIsLoaded DEF PqInv

LEMMA PqStepInv == PqInv /\ [PqNext]_pqVars => PqInv'
<1> SUFFICES ASSUME PqInv, [PqNext]_pqVars PROVE PqInv'
  OBVIOUS
<1>1. CASE \E c \in QueryCells : DiskStep(c)
  BY <1>1, DiskKeeps
<1>2. CASE \E w \in QueryWorkers : CallStep(w)
  BY <1>2, LookKeeps, InsertKeeps, TakeKeeps, CallFailKeeps, CallEndKeeps DEF CallStep
<1>3. CASE \E w \in QueryWorkers, p \in Points : AskPoint(w, p)
  BY <1>3, AskPointKeeps
<1>4. CASE \E w \in QueryWorkers, c \in QueryCells : CellStep(w, c)
  BY <1>4, LoadHexKeeps, IndexKeeps, MemoHitKeeps, MemoPutKeeps DEF CellStep
<1>5. CASE UNCHANGED pqVars
  BY <1>5 DEF pqVars, pqDiskVars, pqCacheVars, PqInv, DiskInv, MemoInv, ResultsInv, CallsInv
<1> QED BY <1>1, <1>2, <1>3, <1>4, <1>5, RestartKeeps DEF PqNext

LEMMA PqInvTrue == PqInv => QueriesAreTrue
<1> SUFFICES ASSUME PqInv PROVE QueriesAreTrue
  OBVIOUS
<1>0. DiskInv /\ pqStore \in Hexes /\ MemoInv /\ ResultsInv /\ CallsInv
  BY DEF PqInv
<1>1. \A n \in 1 .. Len(pqMemo) : pqMemo[n] \in MemoEntryStates
  <2> HIDE DEF MemoEntryStates
  <2> QED BY <1>0 DEF MemoInv, MemoFits
<1>2. Elements(pqMemo) \subseteq [cell : QueryCells, ver : Versions, content : Versions]
  BY <1>0, <1>1 DEF Elements, MemoEntryStates, MemoInv, MemoFits
<1>3. \A n \in 1 .. Len(pqResults) : pqResults[n] \in ResultStates
  <2> HIDE DEF ResultStates
  <2> QED BY <1>0 DEF ResultsInv, ResultsFit
<1>4. DOMAIN pqResults = 1 .. Len(pqResults)
  BY <1>0 DEF ResultsInv, ResultsFit
<1>5. \A e \in Elements(pqResults) :
          /\ e.point \in Points
          /\ e.hex \in [Ring[e.point] -> 0 .. MaxVersions]
          /\ e.index \in [Ring[e.point] -> Versions]
  BY <1>3, <1>4 DEF Elements, ResultStates
<1>6. PqTypeOK
  <2>1. Len(pqMemo) <= MemoCap /\ Len(pqResults) <= ResultCap
    BY <1>0 DEF MemoInv, ResultsInv
  <2> QED BY <1>0, <1>2, <1>5, <2>1 DEF PqTypeOK, DiskInv, CallsInv, EdgeStates, CallStates
<1>7. IndexesAreCurrent
  <2> SUFFICES ASSUME NEW w \in QueryWorkers, NEW c \in QueryCells, pqCall[w].part[c].step \in {"got", "done"}
               PROVE  pqCall[w].part[c].ver <= pqCall[w].part[c].content /\ pqCall[w].part[c].content <= pqTable[c]
    BY DEF IndexesAreCurrent
  <2>1. Claims(pqCall[w].part[c], pqTable[c]) /\ pqCall[w].part[c] \in Parts
    BY <1>0, CallIs
  <2> QED BY <2>1 DEF Claims, Parts
<1>8. ResultsMatchStore
  <2>1. \A n \in 1 .. Len(pqResults) : \A c \in Ring[pqResults[n].point] : pqResults[n].hex[c] = pqStore[c]
    BY <1>0 DEF ResultsInv, ResultsFit
  <2>2. \A m, n \in 1 .. Len(pqResults) : pqResults[m].point = pqResults[n].point => m = n
    BY <1>0 DEF ResultsInv, ResultsFit
  <2> QED BY <1>4, <2>1, <2>2 DEF ResultsMatchStore, Elements
<1> QED BY <1>6, <1>7, <1>8 DEF QueriesAreTrue

\* An index that a query uses is of a table that was there while it ran, and a
\* recent result holds of the resident cells what a computation would take now,
\* for any cells, points, workers, capacities and replacements of the tables.
THEOREM QueriesAlwaysTrue == PqSpec => []QueriesAreTrue
BY PqInitInv, PqStepInv, PqInvTrue, PTL DEF PqSpec
=============================================================================
