---------------------------- MODULE PointQueries ----------------------------
(***************************************************************************)
(* The caches under a point query (source-reader): the resident cells,     *)
(* loaded once in a process; the memo of structure indexes, keyed by the   *)
(* identity of the table each was built from; the edge tables that the     *)
(* warm sweep writes beside the tables; and the recent results.  One       *)
(* action is one critical section of the locks in between, one read of a   *)
(* file or one rename.  "Show all" and the building under a point go the   *)
(* same way past the recent results.                                       *)
(*                                                                         *)
(* A structures.arrow is its version: the world build replaces it by a     *)
(* rename, and path, length and mtime tell two versions apart.  Version 0  *)
(* stands for what could not be read.                                      *)
(***************************************************************************)
EXTENDS Naturals, Sequences

CONSTANTS
    QueryCells,     \* cells of the prepared world
    Points,         \* points a visitor asks for
    Ring,           \* the cells around each point (grid_disk)
    QueryWorkers,   \* workers of the server's pool, each in one native call
    MemoCap,        \* CELL_MEMO_CAP
    ResultCap,      \* the capacity of RESULT_CACHE
    MaxVersions,    \* bound: versions of a table
    NoPoint,        \* a worker without a call
    NoCell          \* a cell not resident; no edge table

ASSUME QueryAssumption ==
    /\ Ring \in [Points -> SUBSET QueryCells]
    /\ MemoCap \in Nat \ {0}
    /\ ResultCap \in Nat \ {0}
    /\ MaxVersions \in Nat \ {0}
    /\ NoPoint \notin Points
    /\ NoCell \notin Nat

VARIABLES
    pqTable,    \* the version of each cell's structures.arrow
    pqEdges,    \* the edge table beside it: the version it claims and holds
    pqSweep,    \* the warm sweep: per cell what it has fingerprinted and built
    pqStore,    \* STORE: the version each resident cell was loaded from
    pqMemo,     \* CELL_MEMO, least recently used first
    pqResults,  \* RESULT_CACHE, least recently used first
    pqCall      \* the call of each worker

pqDiskVars == <<pqTable, pqEdges, pqSweep>>
pqCacheVars == <<pqStore, pqMemo, pqResults>>
pqVars == <<pqDiskVars, pqCacheVars, pqCall>>

Versions == 1 .. MaxVersions

Part(step, ver, content) == [step |-> step, ver |-> ver, content |-> content]
Untouched == [c \in QueryCells |-> Part("todo", 0, 0)]
NothingLoaded == [c \in QueryCells |-> NoCell]

Call(pc, p) ==
    [pc |-> pc, point |-> p, missing |-> {}, hex |-> NothingLoaded,
     part |-> Untouched]
NoCall == Call("rest", NoPoint)

PqInit ==
    /\ pqTable = [c \in QueryCells |-> 1]
    /\ pqEdges = [c \in QueryCells |-> Part("absent", 0, 0)]
    /\ pqSweep = Untouched
    /\ pqStore = NothingLoaded
    /\ pqMemo = <<>>
    /\ pqResults = <<>>
    /\ pqCall = [w \in QueryWorkers |-> NoCall]

Elements(s) == {s[i] : i \in DOMAIN s}

\* Both caches drop their oldest entry for room, and put the newest last; an
\* entry at the place in gone, if there is one, leaves its place.
Without(s, gone) ==
    IF gone = {} THEN s
    ELSE LET n == CHOOSE n \in gone : TRUE IN SubSeq(s, 1, n - 1) \o SubSeq(s, n + 1, Len(s))
Youngest(s, n) == Append(Without(s, {n}), s[n])

ResultsOf(p) == {n \in DOMAIN pqResults : pqResults[n].point = p}

-----------------------------------------------------------------------------
(* The disk: the world build and its warm sweep.                           *)

\* A new table by rename: a query sees the old bytes or the new ones.
ReplaceTable(c) ==
    /\ pqTable[c] < MaxVersions
    /\ pqTable' = [pqTable EXCEPT ![c] = @ + 1]
    /\ UNCHANGED <<pqEdges, pqSweep, pqCacheVars, pqCall>>

\* warm_cell_index: fingerprint, and skip the file that carries it already.
SweepFingerprints(c) ==
    /\ pqSweep[c].step = "todo"
    /\ pqEdges[c].ver # pqTable[c]
    /\ pqSweep' = [pqSweep EXCEPT ![c] = Part("known", pqTable[c], 0)]
    /\ UNCHANGED <<pqTable, pqEdges, pqCacheVars, pqCall>>

SweepBuilds(c) ==
    /\ pqSweep[c].step = "known"
    /\ pqSweep' = [pqSweep EXCEPT ![c] = Part("got", @.ver, pqTable[c])]
    /\ UNCHANGED <<pqTable, pqEdges, pqCacheVars, pqCall>>

\* Mutant: the header carries the identity the table has by now.
SweepWritesFresh(c) ==
    /\ pqSweep[c].step = "got"
    /\ pqEdges' = [pqEdges EXCEPT ![c] = Part("written", pqTable[c], pqSweep[c].content)]
    /\ pqSweep' = [pqSweep EXCEPT ![c] = Part("todo", 0, 0)]
    /\ UNCHANGED <<pqTable, pqCacheVars, pqCall>>

\* store_edge_file: a temporary file and a rename.
SweepWrites(c) ==
    /\ pqSweep[c].step = "got"
    /\ pqEdges' = [pqEdges EXCEPT ![c] = Part("written", pqSweep[c].ver, pqSweep[c].content)]
    /\ pqSweep' = [pqSweep EXCEPT ![c] = Part("todo", 0, 0)]
    /\ UNCHANGED <<pqTable, pqCacheVars, pqCall>>

\* The sweep fails or is killed, which leaves at most a temporary file.
SweepStops(c) ==
    /\ pqSweep[c].step # "todo"
    /\ pqSweep' = [pqSweep EXCEPT ![c] = Part("todo", 0, 0)]
    /\ UNCHANGED <<pqTable, pqEdges, pqCacheVars, pqCall>>

-----------------------------------------------------------------------------
(* A call: the recent results and the resident cells.                      *)

\* get_with: a hit is served and kept young.
AskHits(w, p) ==
    /\ pqCall[w].pc = "rest"
    /\ \E n \in ResultsOf(p) : pqResults' = Youngest(pqResults, n)
    /\ UNCHANGED <<pqDiskVars, pqStore, pqMemo, pqCall>>

AskMisses(w, p) ==
    /\ pqCall[w].pc = "rest"
    /\ ResultsOf(p) = {}
    /\ pqCall' = [pqCall EXCEPT ![w] = Call("look", p)]
    /\ UNCHANGED <<pqDiskVars, pqCacheVars>>

LookForMissing(w) ==
    LET missing == {c \in Ring[pqCall[w].point] : pqStore[c] = NoCell}
    IN /\ pqCall[w].pc = "look"
       /\ pqCall' = [pqCall EXCEPT ![w].missing = missing,
                                   ![w].pc = IF missing = {} THEN "take" ELSE "load"]
       /\ UNCHANGED <<pqDiskVars, pqCacheVars>>

\* load_hex on a thread of its own; a cell that fails to load reads as empty.
LoadHex(w, c) ==
    /\ pqCall[w].pc = "load"
    /\ c \in pqCall[w].missing
    /\ pqCall[w].hex[c] = NoCell
    /\ \E v \in {0, pqTable[c]} : pqCall' = [pqCall EXCEPT ![w].hex[c] = v]
    /\ UNCHANGED <<pqDiskVars, pqCacheVars>>

Loaded(w) == pqCall[w].pc = "load" /\ \A c \in pqCall[w].missing : pqCall[w].hex[c] # NoCell

\* Mutant: the last insert wins.
InsertHexesOver(w) ==
    /\ Loaded(w)
    /\ pqStore' = [c \in QueryCells |->
                     IF c \in pqCall[w].missing THEN pqCall[w].hex[c] ELSE pqStore[c]]
    /\ pqCall' = [pqCall EXCEPT ![w].pc = "take", ![w].missing = {}]
    /\ UNCHANGED <<pqDiskVars, pqMemo, pqResults>>

\* The first insert wins, the duplicate load is dropped.
InsertHexes(w) ==
    /\ Loaded(w)
    /\ pqStore' = [c \in QueryCells |->
                     IF c \in pqCall[w].missing /\ pqStore[c] = NoCell
                     THEN pqCall[w].hex[c] ELSE pqStore[c]]
    /\ pqCall' = [pqCall EXCEPT ![w].pc = "take", ![w].missing = {}]
    /\ UNCHANGED <<pqDiskVars, pqMemo, pqResults>>

\* Mutant: the call goes on with the cells it loaded itself.
TakeOwnHexes(w) ==
    /\ pqCall[w].pc = "take"
    /\ pqCall' = [pqCall EXCEPT
         ![w].pc = "index",
         ![w].hex = [c \in QueryCells |->
            IF c \in Ring[pqCall[w].point] /\ @[c] = NoCell THEN pqStore[c] ELSE @[c]]]
    /\ UNCHANGED <<pqDiskVars, pqCacheVars>>

\* The Arcs of the ring's cells, under a short read lock.
TakeHexes(w) ==
    /\ pqCall[w].pc = "take"
    /\ pqCall' = [pqCall EXCEPT
         ![w].pc = "index",
         ![w].hex = [c \in QueryCells |->
            IF c \in Ring[pqCall[w].point] THEN pqStore[c] ELSE NoCell]]
    /\ UNCHANGED <<pqDiskVars, pqCacheVars>>

-----------------------------------------------------------------------------
(* load_obstacle_set: the ring's indexes in parallel, each by cell_index.  *)

Indexing(w, c, step) ==
    /\ pqCall[w].pc = "index"
    /\ c \in Ring[pqCall[w].point]
    /\ pqCall[w].part[c].step = step

Becomes(w, c, part) == pqCall' = [pqCall EXCEPT ![w].part[c] = part]

\* cell_data_ver; metadata that cannot be read pins no identity, and nothing
\* is memoised.
Fingerprint(w, c) ==
    /\ Indexing(w, c, "todo")
    /\ \/ Becomes(w, c, Part("known", pqTable[c], 0))
       \/ Becomes(w, c, Part("missed", 0, 0))
    /\ UNCHANGED <<pqDiskVars, pqCacheVars>>

Keyed(memo, c, ver) == {n \in DOMAIN memo : memo[n].cell = c /\ memo[n].ver = ver}

\* Mutant: the memo is keyed by the cell alone.
KeyedByCell(c, ver) == {n \in DOMAIN pqMemo : pqMemo[n].cell = c}

\* The entries a lookup finds.
MemoEntries(c, ver) == Keyed(pqMemo, c, ver)

MemoHit(w, c) ==
    LET ver == pqCall[w].part[c].ver
    IN /\ Indexing(w, c, "known")
       /\ \E n \in MemoEntries(c, ver) :
             /\ Becomes(w, c, Part("done", ver, pqMemo[n].content))
             /\ pqMemo' = Youngest(pqMemo, n)
       /\ UNCHANGED <<pqDiskVars, pqStore, pqResults>>

MemoMiss(w, c) ==
    /\ Indexing(w, c, "known")
    /\ MemoEntries(c, pqCall[w].part[c].ver) = {}
    /\ Becomes(w, c, Part("missed", pqCall[w].part[c].ver, 0))
    /\ UNCHANGED <<pqDiskVars, pqCacheVars>>

\* Mutant: an edge table is trusted whatever its header says.
EdgesAreAny(c, ver) == pqEdges[c].step = "written"

\* A header that carries another identity is refused.
EdgesAreCurrent(c, ver) == ver # 0 /\ pqEdges[c].step = "written" /\ pqEdges[c].ver = ver

MapEdges(w, c) ==
    LET ver == pqCall[w].part[c].ver
    IN /\ Indexing(w, c, "missed")
       /\ EdgesAreCurrent(c, ver)
       /\ Becomes(w, c, Part("got", ver, pqEdges[c].content))
       /\ UNCHANGED <<pqDiskVars, pqCacheVars>>

\* build_cell_index reads the table that is there by now, or fails.
BuildIndex(w, c) ==
    LET ver == pqCall[w].part[c].ver
    IN /\ Indexing(w, c, "missed")
       /\ ~EdgesAreCurrent(c, ver)
       /\ \/ Becomes(w, c, Part(IF ver = 0 THEN "done" ELSE "got", ver, pqTable[c]))
          \/ Becomes(w, c, Part("failed", ver, 0))
       /\ UNCHANGED <<pqDiskVars, pqCacheVars>>

\* Mutant: the identity is taken when the entry is made.
MemoPutFresh(w, c) ==
    LET part == pqCall[w].part[c]
        kept == IF Len(pqMemo) >= MemoCap THEN Tail(pqMemo) ELSE pqMemo
    IN /\ Indexing(w, c, "got")
       /\ pqMemo' = Append(Without(kept, Keyed(kept, c, pqTable[c])),
                           [cell |-> c, ver |-> pqTable[c], content |-> part.content])
       /\ Becomes(w, c, Part("done", part.ver, part.content))
       /\ UNCHANGED <<pqDiskVars, pqStore, pqResults>>

\* memo_put makes room whether or not the key is there already.
MemoPut(w, c) ==
    LET part == pqCall[w].part[c]
        kept == IF Len(pqMemo) >= MemoCap THEN Tail(pqMemo) ELSE pqMemo
    IN /\ Indexing(w, c, "got")
       /\ pqMemo' = Append(Without(kept, Keyed(kept, c, part.ver)),
                           [cell |-> c, ver |-> part.ver, content |-> part.content])
       /\ Becomes(w, c, Part("done", part.ver, part.content))
       /\ UNCHANGED <<pqDiskVars, pqStore, pqResults>>

-----------------------------------------------------------------------------
(* The answer.                                                             *)

PartsAre(w, steps) == \A c \in Ring[pqCall[w].point] : pqCall[w].part[c].step \in steps

\* All or error: one index that cannot be had fails the call.  The parts that
\* have not begun are dropped, those under way end.
CallFails(w) ==
    /\ pqCall[w].pc = "index"
    /\ PartsAre(w, {"todo", "done", "failed"})
    /\ ~PartsAre(w, {"todo", "done"})
    /\ pqCall' = [pqCall EXCEPT ![w] = NoCall]
    /\ UNCHANGED <<pqDiskVars, pqCacheVars>>

Result(w) ==
    [point |-> pqCall[w].point,
     hex |-> [c \in Ring[pqCall[w].point] |-> pqCall[w].hex[c]],
     index |-> [c \in Ring[pqCall[w].point] |-> pqCall[w].part[c].content]]

\* RESULT_CACHE.put.
KeepResult(w) ==
    LET others == Without(pqResults, ResultsOf(pqCall[w].point))
        kept == IF Len(others) >= ResultCap THEN Tail(others) ELSE others
    IN pqResults' = Append(kept, Result(w))

CallEnds(w) ==
    /\ pqCall[w].pc = "index"
    /\ PartsAre(w, {"done"})
    /\ KeepResult(w)
    /\ pqCall' = [pqCall EXCEPT ![w] = NoCall]
    /\ UNCHANGED <<pqDiskVars, pqStore, pqMemo>>

\* The server process goes, and its caches with it.
ServerRestarts ==
    /\ pqStore' = NothingLoaded
    /\ pqMemo' = <<>>
    /\ pqResults' = <<>>
    /\ pqCall' = [w \in QueryWorkers |-> NoCall]
    /\ UNCHANGED pqDiskVars

-----------------------------------------------------------------------------

DiskStep(c) ==
    \/ ReplaceTable(c)
    \/ SweepFingerprints(c)
    \/ SweepBuilds(c)
    \/ SweepWrites(c)
    \/ SweepStops(c)

AskPoint(w, p) ==
    \/ AskHits(w, p)
    \/ AskMisses(w, p)

CallStep(w) ==
    \/ LookForMissing(w)
    \/ InsertHexes(w)
    \/ TakeHexes(w)
    \/ CallFails(w)
    \/ CallEnds(w)

CellStep(w, c) ==
    \/ LoadHex(w, c)
    \/ Fingerprint(w, c)
    \/ MemoHit(w, c)
    \/ MemoMiss(w, c)
    \/ MapEdges(w, c)
    \/ BuildIndex(w, c)
    \/ MemoPut(w, c)

PqNext ==
    \/ \E c \in QueryCells : DiskStep(c)
    \/ \E w \in QueryWorkers : CallStep(w)
    \/ \E w \in QueryWorkers, p \in Points : AskPoint(w, p)
    \/ \E w \in QueryWorkers, c \in QueryCells : CellStep(w, c)
    \/ ServerRestarts

PqSpec == PqInit /\ [][PqNext]_pqVars

-----------------------------------------------------------------------------

Steps == {"todo", "known", "missed", "got", "done", "failed"}
Parts == [step : Steps, ver : 0 .. MaxVersions, content : 0 .. MaxVersions]
Hexes == [QueryCells -> 0 .. MaxVersions \cup {NoCell}]

\* The state is well formed, and neither cache outgrows its capacity.
PqTypeOK ==
    /\ pqTable \in [QueryCells -> Versions]
    /\ pqEdges \in [QueryCells -> [step : {"absent", "written"}, ver : 0 .. MaxVersions,
                                   content : 0 .. MaxVersions]]
    /\ pqSweep \in [QueryCells -> Parts]
    /\ pqStore \in Hexes
    /\ Len(pqMemo) <= MemoCap
    /\ Elements(pqMemo) \subseteq [cell : QueryCells, ver : Versions, content : Versions]
    /\ Len(pqResults) <= ResultCap
    /\ \A e \in Elements(pqResults) :
          /\ e.point \in Points
          /\ e.hex \in [Ring[e.point] -> 0 .. MaxVersions]
          /\ e.index \in [Ring[e.point] -> Versions]
    /\ pqCall \in [QueryWorkers -> [pc : {"rest", "look", "load", "take", "index"},
                                    point : Points \cup {NoPoint},
                                    missing : SUBSET QueryCells, hex : Hexes,
                                    part : [QueryCells -> Parts]]]

\* An index that a call uses is of a table that was there while the call ran,
\* whether it was built, mapped from an edge table or found in the memo, and
\* whatever replaced the table meanwhile ("a hit is only ever the index this
\* process would have built from these very files", cell_index).
IndexesAreCurrent ==
    \A w \in QueryWorkers, c \in QueryCells :
       LET part == pqCall[w].part[c]
       IN part.step \in {"got", "done"} =>
             part.ver <= part.content /\ part.content <= pqTable[c]

\* A recent result holds of every resident cell what a computation would take
\* now, and there is one result of a point (RESULT_CACHE over STORE).
ResultsMatchStore ==
    /\ \A e \in Elements(pqResults) : \A c \in Ring[e.point] : e.hex[c] = pqStore[c]
    /\ \A i, j \in DOMAIN pqResults : pqResults[i].point = pqResults[j].point => i = j

\* The caches answer what was asked.
QueriesAreTrue == PqTypeOK /\ IndexesAreCurrent /\ ResultsMatchStore

=============================================================================
