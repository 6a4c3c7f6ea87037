---------------------------- MODULE ArchiveReader ----------------------------
(***************************************************************************)
(* The reader of the tile archives (routes/heatmap-pmtiles.ts): a cache of *)
(* opened archives, in insertion order, each an instance that keeps the    *)
(* promises of what it has read, the rejected ones too.  A request that    *)
(* fails takes its instance out of the cache, so that the next one starts  *)
(* afresh.                                                                 *)
(***************************************************************************)
EXTENDS Naturals, Sequences, FiniteSets

CONSTANTS
    Archives,       \* build and layer: an archive's file
    TileRequests,   \* requests in progress
    ArchiveMax      \* ARCHIVE_CACHE_MAX

ASSUME ArchiveAssumption ==
    /\ IsFiniteSet(TileRequests)
    /\ ArchiveMax \in Nat \ {0}

VARIABLES
    arCache,    \* archiveCache: [key, instance], the oldest first
    arStage,    \* of each instance: none, opening, open, broken (it keeps a
                \* rejected leaf) or shut (it has no header)
    arWaits,    \* the instance each request awaits, or 0
    arDoomed,   \* requests that met a rejected promise, before their catch
    arReadable  \* archives whose file can be read

arVars == <<arCache, arStage, arWaits, arDoomed, arReadable>>

\* An instance that nobody awaits and no entry holds is garbage: its number is
\* used again.
ArInstances == 1..(ArchiveMax + Cardinality(TileRequests))
ArGarbage(i) ==
    /\ \A n \in DOMAIN arCache : arCache[n].instance # i
    /\ \A c \in TileRequests : arWaits[c] # i

ArInit ==
    /\ arCache = <<>>
    /\ arStage = [i \in ArInstances |-> [stage |-> "none"]]
    /\ arWaits = [c \in TileRequests |-> 0]
    /\ arDoomed = {}
    /\ arReadable = Archives

\* Around the server, a file becomes unreadable, or readable again.
ArFile(k) ==
    /\ arReadable' = IF k \in arReadable THEN arReadable \ {k} ELSE arReadable \cup {k}
    /\ UNCHANGED <<arCache, arStage, arWaits, arDoomed>>

-----------------------------------------------------------------------------
(* readHeatmapTile.                                                        *)

ArEntry(k, i) == [key |-> k, instance |-> i]
ArHolding(k) == {n \in DOMAIN arCache : arCache[n].key = k}

\* Mutant: the oldest entry goes one insertion too late.
WithNewestLate(k, i) ==
    LET all == Append(arCache, ArEntry(k, i))
    IN  IF Len(all) > ArchiveMax + 1 THEN Tail(all) ELSE all

\* A new entry is the newest; the oldest gives way, in use or not.
WithNewest(k, i) ==
    LET all == Append(arCache, ArEntry(k, i))
    IN  IF Len(all) > ArchiveMax THEN Tail(all) ELSE all

JoinInstance(c, k) ==
    /\ arWaits[c] = 0
    /\ \E n \in ArHolding(k) : arWaits' = [arWaits EXCEPT ![c] = arCache[n].instance]
    /\ UNCHANGED <<arCache, arStage, arDoomed, arReadable>>

OpenInstance(c, k) ==
    /\ arWaits[c] = 0
    /\ ArHolding(k) = {}
    /\ \E i \in ArInstances :
          /\ ArGarbage(i) /\ \A j \in 1..(i - 1) : ~ArGarbage(j)
          /\ arStage' = [arStage EXCEPT ![i] = [stage |-> "opening", key |-> k]]
          /\ arCache' = WithNewest(k, i)
          /\ arWaits' = [arWaits EXCEPT ![c] = i]
    /\ UNCHANGED <<arDoomed, arReadable>>

\* openHeatmapArchive: every request of the instance awaits its header.
ReadHeader(i) ==
    /\ arStage[i].stage = "opening"
    /\ arStage' = [arStage EXCEPT ![i].stage = IF arStage[i].key \in arReadable THEN "open" ELSE "shut"]
    /\ UNCHANGED <<arCache, arWaits, arDoomed, arReadable>>

\* The leaf of the tile was read before, or can be read now.
LeafRead(c) ==
    /\ arWaits[c] # 0
    /\ c \notin arDoomed
    /\ arStage[arWaits[c]].stage \in {"open", "broken"}
    /\ arWaits' = [arWaits EXCEPT ![c] = 0]
    /\ UNCHANGED <<arCache, arStage, arDoomed, arReadable>>

\* The leaf cannot be read, and its rejected promise stays in the instance.
LeafFails(c) ==
    /\ arWaits[c] # 0
    /\ c \notin arDoomed
    /\ arStage[arWaits[c]].stage \in {"open", "broken"}
    /\ arStage[arWaits[c]].key \notin arReadable
    /\ arStage' = [arStage EXCEPT ![arWaits[c]].stage = "broken"]
    /\ arDoomed' = arDoomed \cup {c}
    /\ UNCHANGED <<arCache, arWaits, arReadable>>

\* A request meets what was rejected before it came.
MeetRejected(c) ==
    /\ arWaits[c] # 0
    /\ c \notin arDoomed
    /\ arStage[arWaits[c]].stage \in {"broken", "shut"}
    /\ arDoomed' = arDoomed \cup {c}
    /\ UNCHANGED <<arCache, arStage, arWaits, arReadable>>

\* archiveCache.delete, for the entry at the place in gone, if there is one.
ArWithout(gone) ==
    IF gone = {} THEN arCache
    ELSE LET n == CHOOSE n \in gone : TRUE
         IN  SubSeq(arCache, 1, n - 1) \o SubSeq(arCache, n + 1, Len(arCache))
ArPlaces(i) == {n \in DOMAIN arCache : arCache[n].instance = i}

\* Mutant: a failed request takes out whatever is cached for its archive.
AfterFailureAny(i) == ArWithout(ArHolding(arStage[i].key))

\* Mutant: only a missing header takes the instance out.
AfterFailureOfHeader(i) == IF arStage[i].stage = "shut" THEN ArWithout(ArPlaces(i)) ELSE arCache

\* The entry goes only if it is still the instance that failed.
AfterFailure(i) == ArWithout(ArPlaces(i))

FailRequest(c) ==
    /\ c \in arDoomed
    /\ arCache' = AfterFailure(arWaits[c])
    /\ arDoomed' = arDoomed \ {c}
    /\ arWaits' = [arWaits EXCEPT ![c] = 0]
    /\ UNCHANGED <<arStage, arReadable>>

ArNext ==
    \/ \E k \in Archives : ArFile(k)
    \/ \E c \in TileRequests, k \in Archives : JoinInstance(c, k) \/ OpenInstance(c, k)
    \/ \E i \in ArInstances : ReadHeader(i)
    \/ \E c \in TileRequests : LeafRead(c) \/ LeafFails(c) \/ MeetRejected(c) \/ FailRequest(c)

ArSpec == ArInit /\ [][ArNext]_arVars

-----------------------------------------------------------------------------

\* The state is well formed, and the cache bounded.
ArTypeOK ==
    /\ Len(arCache) <= ArchiveMax
    /\ \A n \in DOMAIN arCache :
          /\ arCache[n].instance \in ArInstances
          /\ arStage[arCache[n].instance].key = arCache[n].key
    /\ \A k \in Archives : Cardinality(ArHolding(k)) <= 1
    /\ arWaits \in [TileRequests -> {0} \cup ArInstances]
    /\ \A c \in TileRequests : arWaits[c] # 0 => arStage[arWaits[c]].stage # "none"
    /\ arDoomed \subseteq {c \in TileRequests : arWaits[c] # 0}
    /\ arReadable \subseteq Archives

\* A rejected read never outlives the requests that met it: while an instance
\* that keeps one is in the cache, a request that will take it out is on its way
\* (the catch of readHeatmapTile; "a failed leaf-directory read retries after the
\* archive becomes readable again", heatmap-pmtiles.test.ts).
FailuresDoNotStick ==
    \A n \in DOMAIN arCache :
        arStage[arCache[n].instance].stage \in {"broken", "shut"} =>
            \E c \in TileRequests : arWaits[c] = arCache[n].instance
                /\ (c \in arDoomed \/ arStage[arWaits[c]].stage = "shut")

\* A failure takes out no instance but the one that failed: not a newer one that
\* other requests have opened since.
TakesOutHealthy ==
    /\ Len(arCache') < Len(arCache)
    /\ \E n \in DOMAIN arCache :
          /\ arStage[arCache[n].instance].stage \in {"opening", "open"}
          /\ \A m \in DOMAIN arCache' : arCache'[m] # arCache[n]
OnlyFailedGo == [][~TakesOutHealthy]_arVars

=============================================================================
