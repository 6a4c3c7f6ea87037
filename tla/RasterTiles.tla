----------------------------- MODULE RasterTiles -----------------------------
(***************************************************************************)
(* The raster tiles of the server (raster-tile-renderer.ts, routes/        *)
(* raster-tiles.ts): a cache of source rasters that makes room before it   *)
(* awaits a file, the walls of the whole world read cell by cell behind    *)
(* one promise, and the rendered tiles, of which only successes are cached.*)
(***************************************************************************)
EXTENDS Naturals, Sequences, FiniteSets

CONSTANTS
    LandTiles,      \* source tiles of one degree that have a file
    SeaTiles,       \* those that have none
    TileReads,      \* reads of source tiles, and renders of walls, in progress
    MaxTiles,       \* MAX_TILES_PER_LAYER
    WallCells,      \* the H3 cells that have a file of structures
    NoTile          \* a read that has no file to wait for

ASSUME RasterAssumption ==
    /\ IsFiniteSet(TileReads)
    /\ LandTiles \cap SeaTiles = {}
    /\ NoTile \notin LandTiles \cup SeaTiles
    /\ MaxTiles \in Nat \ {0}

VARIABLES
    rtCache,    \* tileCacheByLayer of one layer: the source tiles, oldest first
    rtReads,    \* the source tile whose file each read awaits, or NoTile
    rtLoad,     \* barrierLoadPromise: none, loading, loaded or failed
    rtFound,    \* the cells whose walls the load has, and, once it is loaded,
                \* those of barrierSegments
    rtSkipped,  \* the cells whose file the load could not read
    rtWaits,    \* the renders that await the walls
    rtPng       \* pngCache, for a tile of walls: {} when it is not there, or the
                \* set of the cells it was drawn from, in a set

rtTiles == <<rtCache, rtReads>>
rtWalls == <<rtLoad, rtFound, rtSkipped, rtWaits, rtPng>>
rtVars == <<rtCache, rtReads, rtLoad, rtFound, rtSkipped, rtWaits, rtPng>>

RtInit ==
    /\ rtCache = <<>>
    /\ rtReads = [c \in TileReads |-> NoTile]
    /\ rtLoad = "none"
    /\ rtFound = {}
    /\ rtSkipped = {}
    /\ rtWaits = {}
    /\ rtPng = {}

InCache(t) == \E n \in DOMAIN rtCache : rtCache[n] = t
ReadsUnderWay == {c \in TileReads : rtReads[c] # NoTile}
AtRest(c) == c \notin ReadsUnderWay \cup rtWaits

-----------------------------------------------------------------------------
(* readSourceTile.                                                         *)

PromoteTile(c, t) ==
    /\ AtRest(c)
    /\ \E n \in DOMAIN rtCache :
          /\ rtCache[n] = t
          /\ rtCache' = Append(SubSeq(rtCache, 1, n - 1) \o SubSeq(rtCache, n + 1, Len(rtCache)), t)
    /\ UNCHANGED <<rtReads, rtWalls>>

\* No file: the absence is cached, without making room for it.
CacheAbsence(c, t) ==
    /\ AtRest(c)
    /\ t \in SeaTiles
    /\ ~InCache(t)
    /\ rtCache' = Append(rtCache, t)
    /\ UNCHANGED <<rtReads, rtWalls>>

Newest(n) == IF Len(rtCache) > n THEN SubSeq(rtCache, Len(rtCache) - n + 1, Len(rtCache)) ELSE rtCache

\* Mutant: no room for the one to come.
EvictedLate == Newest(MaxTiles)

\* evictIfNeeded: room for one more.
EvictIfNeeded == Newest(MaxTiles - 1)

\* Room is made before the file is awaited.
BeginRead(c, t) ==
    /\ AtRest(c)
    /\ t \in LandTiles
    /\ ~InCache(t)
    /\ rtCache' = EvictIfNeeded
    /\ rtReads' = [rtReads EXCEPT ![c] = t]
    /\ UNCHANGED rtWalls

\* A tile that another read has put there meanwhile keeps its place.
ReadArrives(c) ==
    /\ c \in ReadsUnderWay
    /\ rtCache' = IF InCache(rtReads[c]) THEN rtCache ELSE Append(rtCache, rtReads[c])
    /\ rtReads' = [rtReads EXCEPT ![c] = NoTile]
    /\ UNCHANGED rtWalls

ReadFails(c) ==
    /\ c \in ReadsUnderWay
    /\ rtReads' = [rtReads EXCEPT ![c] = NoTile]
    /\ UNCHANGED <<rtCache, rtWalls>>

-----------------------------------------------------------------------------
(* preloadBarriers, loadAllBarriersAsync, renderBarrierTile.               *)

PreloadBarriers ==
    /\ rtLoad = "none"
    /\ rtLoad' = "loading"
    /\ UNCHANGED <<rtTiles, rtFound, rtSkipped, rtWaits, rtPng>>

\* A tile of walls that is not cached awaits the one load, and begins it if
\* there is none.  A load that failed stays.
AskWalls(c) ==
    /\ AtRest(c)
    /\ rtPng = {}
    /\ rtWaits' = rtWaits \cup {c}
    /\ rtLoad' = IF rtLoad = "none" THEN "loading" ELSE rtLoad
    /\ UNCHANGED <<rtTiles, rtFound, rtSkipped, rtPng>>

\* A file that cannot be read is skipped.
LoadCell(w) ==
    /\ rtLoad = "loading"
    /\ w \notin rtFound \cup rtSkipped
    /\ \/ rtFound' = rtFound \cup {w} /\ rtSkipped' = rtSkipped
       \/ rtSkipped' = rtSkipped \cup {w} /\ rtFound' = rtFound
    /\ UNCHANGED <<rtTiles, rtLoad, rtWaits, rtPng>>

WallsLoaded ==
    /\ rtLoad = "loading"
    /\ WallCells \subseteq rtFound \cup rtSkipped
    /\ rtLoad' = "loaded"
    /\ UNCHANGED <<rtTiles, rtFound, rtSkipped, rtWaits, rtPng>>

\* The directory of the cells cannot be listed.
WallsFail ==
    /\ rtLoad = "loading"
    /\ rtFound \cup rtSkipped = {}
    /\ rtLoad' = "failed"
    /\ UNCHANGED <<rtTiles, rtFound, rtSkipped, rtWaits, rtPng>>

\* Mutant: a tile does not await the load, and is drawn from what there is.
MayDrawAtOnce == rtLoad # "none"

\* Mutant: a failed load is swallowed, and a tile drawn from no walls.
MayDrawAnyway == rtLoad \in {"loaded", "failed"}

MayDraw == rtLoad = "loaded"

DrawWalls(c) ==
    /\ c \in rtWaits
    /\ MayDraw
    /\ rtPng' = {rtFound}
    /\ rtWaits' = rtWaits \ {c}
    /\ UNCHANGED <<rtTiles, rtLoad, rtFound, rtSkipped>>

\* The error handler answers, and nothing is cached.
FailWalls(c) ==
    /\ c \in rtWaits
    /\ rtLoad = "failed"
    /\ rtWaits' = rtWaits \ {c}
    /\ UNCHANGED <<rtTiles, rtLoad, rtFound, rtSkipped, rtPng>>

\* CACHE_MAX tiles later
ForgetPng ==
    /\ rtPng # {}
    /\ rtPng' = {}
    /\ UNCHANGED <<rtTiles, rtLoad, rtFound, rtSkipped, rtWaits>>

RtNext ==
    \/ PreloadBarriers
    \/ \E w \in WallCells : LoadCell(w)
    \/ WallsLoaded
    \/ WallsFail
    \/ ForgetPng
    \/ \E c \in TileReads :
          \/ \E t \in LandTiles \cup SeaTiles : PromoteTile(c, t) \/ CacheAbsence(c, t) \/ BeginRead(c, t)
          \/ ReadArrives(c) \/ ReadFails(c)
          \/ AskWalls(c) \/ DrawWalls(c) \/ FailWalls(c)

RtSpec == RtInit /\ [][RtNext]_rtVars

-----------------------------------------------------------------------------

\* The state is well formed.
RtTypeOK ==
    /\ \A n \in DOMAIN rtCache : rtCache[n] \in LandTiles \cup SeaTiles
    /\ \A m, n \in DOMAIN rtCache : rtCache[m] = rtCache[n] => m = n
    /\ rtReads \in [TileReads -> LandTiles \cup {NoTile}]
    /\ rtLoad \in {"none", "loading", "loaded", "failed"}
    /\ rtWaits \subseteq TileReads \ ReadsUnderWay
    /\ rtFound \cup rtSkipped \subseteq WallCells
    /\ rtPng \subseteq SUBSET WallCells

\* Room is made before the await, and so concurrent reads overshoot: the rasters
\* held and on their way stay within one less than the limit and one for each
\* read (readSourceTile).  Absences are not counted: nothing bounds them.
RastersHeld == Cardinality({n \in DOMAIN rtCache : rtCache[n] \in LandTiles})
RastersAreBounded ==
    RastersHeld + Cardinality(ReadsUnderWay) <= MaxTiles - 1 + Cardinality(TileReads)

\* A tile of walls lacks a cell only if the one load could not read that cell:
\* never because the load was still going on or had failed ("data loss disguised
\* as a quiet place", raster-tiles.ts).
NoWallsLost == \A drawn \in rtPng : drawn \cup rtSkipped = WallCells

=============================================================================
