------------------------- MODULE StoreTransactions -------------------------
(***************************************************************************)
(* The transactions over one store root: every process that repaints,      *)
(* derives, ingests or packs, as a program over four kinds of file locks   *)
(* (the master, the ingest lock, a layer's rebuild mutex, a level's write  *)
(* lock), the durable markers of unfinished work, and the tiles.           *)
(*                                                                         *)
(* A column stands for a base tile together with its ancestors, so that a  *)
(* level is one value per column and the level below it is pooled from the *)
(* same column.  A source tile's content is the run that painted it, the   *)
(* content of a tile of Total what it was summed from, and a pooled tile's *)
(* that of the tile under it.  A tile is read and written in one step: its *)
(* level is locked against every other writer.                             *)
(***************************************************************************)
EXTENDS Integers, Sequences, SequencesExt

CONSTANTS
    Layers,     \* TOTAL_INPUT_LAYERS, a sequence of layer directories
    Total,      \* the total layer's directory
    Root,       \* the store root
    Columns,
    MinZoom,    \* PUBLISHED_MIN_ZOOM
    BaseZoom,   \* the zoom the world is painted at
    Procs,
    Kinds,      \* the kinds of process that run
    MaxRuns,    \* bound: processes started
    MaxKills,   \* bound: processes killed, or failed by the machine
    None

Sources == {Layers[i] : i \in DOMAIN Layers}
Dirs == Sources \cup {Total}
Zooms == MinZoom .. BaseZoom

\* What a marker file says.
Descriptors ==
    [operation : {"scoped", "transcode", "combine-total", "pyramid"}, layers : SUBSET Dirs,
     full : BOOLEAN, cols : SUBSET Columns]
Markers == [descriptor : Descriptors, token : Nat, adopted : BOOLEAN]

ASSUME TransactionAssumption ==
    /\ Layers \in Seq(Sources) \ {<<>>}
    /\ Total \notin Sources /\ Root \notin Dirs
    /\ MinZoom \in Nat \ {0} /\ BaseZoom \in Nat /\ MinZoom <= BaseZoom
    /\ Kinds \subseteq {"scoped", "world", "combine", "pyramid", "hub", "pack"}
    /\ MaxRuns \in Nat /\ MaxKills \in Nat
    /\ None \notin Procs \cup Markers \cup Nat

\* A lock is named by its directory and a number.
Master == <<Root, 0>>                   \* .master._combine.lock
IngestLock == <<Root, 1>>               \* .ingest.lock
Mutex(d) == <<d, 0>>                    \* .rebuild.lock
Level(d, z) == <<d, z>>                 \* z{N}.lock
Locks == {Master, IngestLock} \cup {Mutex(d) : d \in Dirs} \cup {Level(d, z) : d \in Dirs, z \in Zooms}

VARIABLES
    store,      \* the tiles: directory, zoom, column
    marker,     \* the marker file of each directory and of the root, or None
    holder,     \* the holder of each lock, or None
    job,        \* what each process was started for, or None
    pc,         \* its place in its program
    due,        \* the columns its current level has still to write
    owed,       \* columns some unfenced change left for a later run to derive
    runs,       \* processes started so far
    kills       \* of which were killed

vars == <<store, marker, holder, job, pc, due, owed, runs, kills>>

-----------------------------------------------------------------------------
(* The programs.                                                           *)

Do(op, d) == <<[op |-> op, dir |-> d, zoom |-> BaseZoom]>>
At(op, d, z) == <<[op |-> op, dir |-> d, zoom |-> z]>>
Lock(l) == At("lock", l[1], l[2])
LockWithin(l) == At("lockWithin", l[1], l[2])     \* gives up after a while
Unlock(l) == At("unlock", l[1], l[2])

Members(seq) == {seq[i] : i \in DOMAIN seq}
ForEach(seq, Body(_)) == FlattenSeq([i \in 1 .. Len(seq) |-> Body(seq[i])])

\* Mutant: a pyramid level written without its store's write lock.
BuildOneLevelUnlocked(d, z) == At("scan", d, z) \o At("open", d, z) \o At("put", d, z)

BuildOneLevel(d, z) ==
    At("scan", d, z) \o Lock(Level(d, z)) \o At("open", d, z) \o At("put", d, z) \o Unlock(Level(d, z))

BuildPyramidLevels(d) ==
    FlattenSeq([i \in 1 .. (BaseZoom - MinZoom) |-> BuildOneLevel(d, BaseZoom - i)])

\* Mutant: no mutex around a layer's marker.
FencedWithoutMutex(d, body) == Do("begin", d) \o body \o Do("finish", d)

\* Mutant: the fence finishes before the work.
FencedTooShort(d, body) ==
    LockWithin(Mutex(d)) \o Do("begin", d) \o Do("finish", d) \o body \o Unlock(Mutex(d))

\* StoreRebuildFence::begin .. finish around one layer's work.
Fenced(d, body) ==
    LockWithin(Mutex(d)) \o Do("begin", d) \o body \o Do("finish", d) \o Unlock(Mutex(d))

BuildPyramid(d) == Fenced(d, BuildPyramidLevels(d))

\* The base level of a store, emptied first when it is replaced whole.
RewriteBase(d) ==
    Lock(Level(d, BaseZoom)) \o Do("open", d) \o Do("scan", d) \o Do("put", d) \o Unlock(Level(d, BaseZoom))

\* A base level and all that is pooled from it, in one transaction.
RewriteStore(d) == Fenced(d, RewriteBase(d) \o BuildPyramidLevels(d))

Combine == RewriteStore(Total)

Transcode(l) ==
    LockWithin(Master) \o LockWithin(IngestLock) \o RewriteStore(l) \o Unlock(IngestLock) \o Unlock(Master)

IngestGroup(l) == Do("tripwire", l) \o RewriteBase(l)

\* groups are the layers for which the staging has a numeric zoom directory.
Ingest(layers, groups) ==
    LET IngestDir(l) == IF l \in groups THEN IngestGroup(l) ELSE <<>>
    IN  Lock(IngestLock)
        \o (IF groups = {} THEN Do("bail", Root) ELSE ForEach(layers, IngestDir))
        \o Unlock(IngestLock)

\* build-heatmap.sh --bbox
Scoped(layers, groups) ==
    Lock(Master) \o Do("begin", Root) \o Ingest(layers, groups) \o Lock(IngestLock)
    \o ForEach(layers, BuildPyramid) \o Combine
    \o Do("finish", Root) \o Unlock(IngestLock) \o Unlock(Master)

\* build-heatmap.sh --combine-only
RunLockedCombine == Lock(Master) \o Combine \o Unlock(Master)

\* build-heatmap.sh --world
World(layers) == ForEach(layers, Transcode) \o RunLockedCombine

LockLevels(d) == FlattenSeq([i \in 1 .. (BaseZoom - MinZoom + 1) |-> LockWithin(Level(d, MinZoom + i - 1))])

\* Mutant: the markers are looked at only before the levels are locked.
PackRejectsOnce(dirs) ==
    LockWithin(Master) \o LockWithin(IngestLock) \o Do("reject", Root)
    \o ForEach(dirs, LockLevels) \o Do("ship", Root)

\* Mutant: the outer locks of a pack in the other order.
PackIngestFirst(dirs) ==
    LockWithin(IngestLock) \o LockWithin(Master) \o Do("reject", Root)
    \o ForEach(dirs, LockLevels) \o Do("reject", Root) \o Do("ship", Root)

\* with_store_snapshots_after_capture over the selected layers
Pack(dirs) ==
    LockWithin(Master) \o LockWithin(IngestLock) \o Do("reject", Root)
    \o ForEach(dirs, LockLevels) \o Do("reject", Root) \o Do("ship", Root)

ProgramFor(kind, layers, groups) ==
    (CASE kind = "scoped"  -> Scoped(layers, groups)
       [] kind = "world"   -> World(layers)
       [] kind = "combine" -> RunLockedCombine
       [] kind = "pyramid" -> ForEach(layers, BuildPyramid)
       [] kind = "hub"     -> Ingest(layers, Members(layers))
       [] kind = "pack"    -> Pack(layers))
    \o Do("end", Root)

\* What a process may be asked for: a layer, all of them, or all and Total.
Requests == {<<l>> : l \in Sources} \cup {Layers}
PackRequests == {<<l>> : l \in Sources} \cup {Append(Layers, Total)}
Requested == Requests \cup PackRequests \cup {<<Total>>}

\* Built once.
Program ==
    [kind \in Kinds |->
        [layers \in Requested |->
            [groups \in {S : S \in SUBSET Sources} |-> ProgramFor(kind, layers, groups)]]]

\* A builder writes no tile for a silent column, and no directory for a
\* layer without tiles: the layers that have one.
GroupsOf(layers, loud) == {d \in Members(layers) : \E c \in Columns : <<d, c>> \in loud}

Instr(p) == Program[job[p].kind][job[p].layers][job[p].groups][pc[p]]

-----------------------------------------------------------------------------
(* The tiles.                                                              *)

\* combine_cell over the layers that have the tile.
Sum(c) ==
    IF \A l \in Sources : store[l][BaseZoom][c] = None THEN None
    ELSE [l \in Sources |-> store[l][BaseZoom][c]]

\* What process p writes to a column of the level its program is at.
Value(p, d, z, c) ==
    IF z < BaseZoom THEN store[d][z + 1][c]
    ELSE IF d = Total THEN Sum(c)
    ELSE IF <<d, c>> \in job[p].loud THEN job[p].run ELSE None

\* Mutant: an ingest leaves what is not staged alone.
PassStaged(p, d, z) ==
    IF z < BaseZoom THEN {c \in job[p].cols : job[p].full => store[d][z + 1][c] # None}
    ELSE IF d = Total
         THEN {c \in job[p].cols : Sum(c) # None \/ (~job[p].full /\ store[Total][z][c] # None)}
    ELSE {c \in job[p].cols : <<d, c>> \in job[p].loud}

\* The columns a level's pass goes over: a whole rebuild scans what is there
\* to derive from, an ingest sweeps what is not staged, and a combine of a
\* bbox visits the tiles of Total too.
Pass(p, d, z) ==
    IF z < BaseZoom THEN {c \in job[p].cols : job[p].full => store[d][z + 1][c] # None}
    ELSE IF d = Total
         THEN {c \in job[p].cols : Sum(c) # None \/ (~job[p].full /\ store[Total][z][c] # None)}
    ELSE {c \in job[p].cols : job[p].full => <<d, c>> \in job[p].loud}

\* The levels below are pooled from the base, and Total's base is the sum.
Coherent(d, c) ==
    /\ \A z \in MinZoom .. (BaseZoom - 1) : store[d][z][c] = store[d][z + 1][c]
    /\ d = Total => store[Total][BaseZoom][c] = Sum(c)

\* What a process does to the base of source d at column c outside of any
\* fence over what is derived from it.
Owes(p, d, z, c) ==
    CASE z < BaseZoom \/ d = Total -> {}
      [] job[p].kind = "hub"       -> {<<d, c>>, <<Total, c>>}
      [] job[p].kind = "world"     -> {<<Total, c>>}
      [] OTHER                     -> {}

-----------------------------------------------------------------------------
\* The world once bootstrapped: every level of every layer, all derived.
Init ==
    /\ store = [d \in Dirs |-> [z \in Zooms |-> [c \in Columns |->
                    IF d = Total THEN [l \in Sources |-> 0] ELSE 0]]]
    /\ marker = [d \in Dirs \cup {Root} |-> None]
    /\ holder = [l \in Locks |-> None]
    /\ job = [p \in Procs |-> None]
    /\ pc = [p \in Procs |-> 0]
    /\ due = [p \in Procs |-> {}]
    /\ owed = {}
    /\ runs = 0
    /\ kills = 0

Start(p, kind, layers, push, full, cols, loud) ==
    /\ kind \in Kinds
    /\ job[p] = None
    /\ runs < MaxRuns
    /\ runs' = runs + 1
    /\ job' = [job EXCEPT ![p] = [kind |-> kind, layers |-> layers, push |-> push, full |-> full,
                                  groups |-> GroupsOf(layers, loud), cols |-> cols,
                                  loud |-> loud, run |-> runs + 1]]
    /\ pc' = [pc EXCEPT ![p] = 1]
    /\ UNCHANGED <<store, marker, holder, due, owed, kills>>

StartScoped(p) ==
    \E layers \in Requests, cols \in (SUBSET Columns) \ {{}} :
        \E loud \in SUBSET (Members(layers) \X cols) : Start(p, "scoped", layers, BaseZoom, FALSE, cols, loud)

\* A transcode refuses an empty source before it takes a lock.
StartWorld(p) ==
    \E layers \in Requests :
        \E loud \in SUBSET (Members(layers) \X Columns) :
            /\ \A l \in Members(layers) : \E c \in Columns : <<l, c>> \in loud
            /\ Start(p, "world", layers, BaseZoom, TRUE, Columns, loud)

StartCombine(p) == Start(p, "combine", <<Total>>, BaseZoom, TRUE, Columns, {})

\* build-pyramid run by hand
StartPyramid(p) ==
    \E d \in Dirs :
        \/ Start(p, "pyramid", <<d>>, BaseZoom, TRUE, Columns, {})
        \/ \E c \in Columns : Start(p, "pyramid", <<d>>, BaseZoom, FALSE, {c}, {})

\* The hub ingests one rebuilt cell with its exact scope, as its worker
\* painted it: a worker that was not updated still paints at 13.
Pushed == {BaseZoom} \cup {z \in {13} : 12 \in Zooms}

StartHub(p) ==
    \E l \in Sources, c \in Columns, push \in Pushed :
        \E loud \in SUBSET {<<l, c>>} : Start(p, "hub", <<l>>, push, FALSE, {c}, loud)

\* A pack of everything, or of one layer.
StartPack(p) ==
    \E dirs \in PackRequests : Start(p, "pack", dirs, BaseZoom, FALSE, Columns, {})

-----------------------------------------------------------------------------
\* Mutant: the locks outlive the process.
LocksKept(p) == holder

Released(p) == [l \in Locks |-> IF holder[l] = p THEN None ELSE holder[l]]

\* The process ends: its locks drop, its markers stay.
Leave(p) ==
    /\ job' = [job EXCEPT ![p] = None]
    /\ pc' = [pc EXCEPT ![p] = 0]
    /\ due' = [due EXCEPT ![p] = {}]
    /\ holder' = Released(p)

Reached(p, op) ==
    /\ job[p] # None
    /\ Instr(p).op = op

Goes(p) == pc' = [pc EXCEPT ![p] = @ + 1]

AcquireLock(p) ==
    /\ Reached(p, "lock") \/ Reached(p, "lockWithin")
    /\ LET l == <<Instr(p).dir, Instr(p).zoom>> IN
           /\ holder[l] = None
           /\ holder' = [holder EXCEPT ![l] = p]
    /\ Goes(p)
    /\ UNCHANGED <<store, marker, job, due, owed, runs, kills>>

\* A bounded wait ends, and with it the process.
LockTimesOut(p) ==
    /\ Reached(p, "lockWithin")
    /\ holder[<<Instr(p).dir, Instr(p).zoom>>] # None
    /\ Leave(p)
    /\ UNCHANGED <<store, marker, owed, runs, kills>>

ReleaseLock(p) ==
    /\ Reached(p, "unlock")
    /\ holder' = [holder EXCEPT ![<<Instr(p).dir, Instr(p).zoom>>] = None]
    /\ Goes(p)
    /\ UNCHANGED <<store, marker, job, due, owed, runs, kills>>

\* What the marker of d says of the work of p.
Descriptor(p, d) ==
    [operation |-> CASE d = Root                                          -> "scoped"
                     [] d = Total /\ job[p].kind \in {"scoped", "world", "combine"} -> "combine-total"
                     [] d # Total /\ job[p].kind = "world"                -> "transcode"
                     [] OTHER                                             -> "pyramid",
     layers |-> IF d = Root THEN Members(job[p].layers) ELSE {},
     full   |-> job[p].full,
     cols   |-> job[p].cols]

\* Mutant: a marker of any operation is adopted.
BeginAnyway(p) ==
    /\ Reached(p, "begin")
    /\ LET d == Instr(p).dir IN
           marker' = [marker EXCEPT ![d] = [descriptor |-> Descriptor(p, d), token |-> job[p].run,
                                             adopted |-> marker[d] # None]]
    /\ Goes(p)
    /\ UNCHANGED <<store, holder, job, due, owed, runs, kills>>

\* begin_owned_marker: a marker left by the same operation is adopted under a
\* token of its own.  (adopted is not in the file: it is what the process did.)
Begin(p) ==
    /\ Reached(p, "begin")
    /\ LET d == Instr(p).dir IN
           /\ marker[d] # None => marker[d].descriptor = Descriptor(p, d)
           /\ marker' = [marker EXCEPT ![d] = [descriptor |-> Descriptor(p, d), token |-> job[p].run,
                                               adopted |-> marker[d] # None]]
    /\ Goes(p)
    /\ UNCHANGED <<store, holder, job, due, owed, runs, kills>>

\* A marker left by another operation.
BeginRefused(p) ==
    /\ Reached(p, "begin")
    /\ LET d == Instr(p).dir IN marker[d] # None /\ marker[d].descriptor # Descriptor(p, d)
    /\ Leave(p)
    /\ UNCHANGED <<store, marker, owed, runs, kills>>

Owns(p, d) == marker[d] # None /\ marker[d].token = job[p].run

\* finish_owned_marker.  It refuses to remove another process's marker:
\* FenceIsOwned says that it is never asked to.  What is derived by now in
\* this directory is owed no longer.
Finish(p) ==
    /\ Reached(p, "finish")
    /\ Owns(p, Instr(p).dir)
    /\ marker' = [marker EXCEPT ![Instr(p).dir] = None]
    /\ owed' = {dc \in owed : dc[1] = Instr(p).dir => ~Coherent(dc[1], dc[2])}
    /\ Goes(p)
    /\ UNCHANGED <<store, holder, job, due, runs, kills>>

-----------------------------------------------------------------------------
\* The tile list of one pass.
Scan(p) ==
    /\ Reached(p, "scan")
    /\ due' = [due EXCEPT ![p] = Pass(p, Instr(p).dir, Instr(p).zoom)]
    /\ Goes(p)
    /\ UNCHANGED <<store, marker, holder, job, owed, runs, kills>>

\* TileStore::create empties the level; TileStore::open leaves it.
Open(p) ==
    /\ Reached(p, "open")
    /\ IF job[p].full
       THEN /\ store' = [store EXCEPT ![Instr(p).dir][Instr(p).zoom] = [c \in Columns |-> None]]
            /\ owed' = owed \cup UNION {Owes(p, Instr(p).dir, Instr(p).zoom, c) : c \in Columns}
       ELSE UNCHANGED <<store, owed>>
    /\ Goes(p)
    /\ UNCHANGED <<marker, holder, job, due, runs, kills>>

\* put_blob, put_cells or delete of one tile
PutTile(p, c) ==
    /\ Reached(p, "put")
    /\ c \in due[p]
    /\ LET d == Instr(p).dir
           z == Instr(p).zoom
       IN  /\ store' = [store EXCEPT ![d][z][c] = Value(p, d, z, c)]
           /\ owed' = owed \cup Owes(p, d, z, c)
    /\ due' = [due EXCEPT ![p] = @ \ {c}]
    /\ UNCHANGED <<marker, holder, job, pc, runs, kills>>

SyncAll(p) ==
    /\ Reached(p, "put")
    /\ due[p] = {}
    /\ Goes(p)
    /\ UNCHANGED <<store, marker, holder, job, due, owed, runs, kills>>

-----------------------------------------------------------------------------
\* An ingest refuses a push at zoom 13 into a store that has a level 12.
PreShift(p) == job[p].push = 13 /\ 12 \in Zooms

Tripwire(p) ==
    /\ Reached(p, "tripwire")
    /\ PreShift(p)
    /\ Leave(p)
    /\ UNCHANGED <<store, marker, owed, runs, kills>>

TripwirePassed(p) ==
    /\ Reached(p, "tripwire")
    /\ ~PreShift(p)
    /\ Goes(p)
    /\ UNCHANGED <<store, marker, holder, job, due, owed, runs, kills>>

\* No staged layer: "no tiles under ..."
Bail(p) ==
    /\ Reached(p, "bail")
    /\ Leave(p)
    /\ UNCHANGED <<store, marker, owed, runs, kills>>

\* The markers a pack of these layers looks at.
Unfinished(p) == \E d \in Members(job[p].layers) \cup {Root} : marker[d] # None

\* reject_incomplete_store_transactions
Rejected(p) ==
    /\ Reached(p, "reject")
    /\ Unfinished(p)
    /\ Leave(p)
    /\ UNCHANGED <<store, marker, owed, runs, kills>>

NotRejected(p) ==
    /\ Reached(p, "reject")
    /\ ~Unfinished(p)
    /\ Goes(p)
    /\ UNCHANGED <<store, marker, holder, job, due, owed, runs, kills>>

\* The archives are written from the captured levels under all the locks.
Shipping(p) == Reached(p, "ship")

\* The end of a program drops whatever lock is left.
Ends(p) ==
    /\ Reached(p, "ship") \/ Reached(p, "end")
    /\ Leave(p)
    /\ UNCHANGED <<store, marker, owed, runs, kills>>

\* A kill, or an error of the machine; a script that runs under set -e ends
\* with the program that failed.
Dies(p) ==
    /\ job[p] # None
    /\ kills < MaxKills
    /\ kills' = kills + 1
    /\ Leave(p)
    /\ UNCHANGED <<store, marker, owed, runs>>

-----------------------------------------------------------------------------
Starts(p) ==
    StartScoped(p) \/ StartWorld(p) \/ StartCombine(p) \/ StartPyramid(p) \/ StartHub(p) \/ StartPack(p)

Step(p) ==
    \/ AcquireLock(p) \/ ReleaseLock(p)
    \/ Begin(p) \/ BeginRefused(p) \/ Finish(p)
    \/ Scan(p) \/ Open(p) \/ (\E c \in Columns : PutTile(p, c)) \/ SyncAll(p)
    \/ Tripwire(p) \/ TripwirePassed(p) \/ Bail(p) \/ Rejected(p) \/ NotRejected(p) \/ Ends(p)

Next == \E p \in Procs : Starts(p) \/ Step(p) \/ LockTimesOut(p) \/ Dies(p)

Spec == Init /\ [][Next]_vars

\* Every process is scheduled; nothing has to start, fail or time out.
FairSpec == Spec /\ \A p \in Procs : WF_vars(Step(p))
-----------------------------------------------------------------------------
(* What is checked.                                                        *)

Contents == {None} \cup 0 .. MaxRuns

TypeOK ==
    /\ \A d \in Dirs, z \in Zooms, c \in Columns :
          IF d = Total THEN store[d][z][c] = None \/ store[d][z][c] \in [Sources -> Contents]
          ELSE store[d][z][c] \in Contents
    /\ \A l \in Locks : holder[l] # None => holder[l] \in Procs /\ job[holder[l]] # None
    /\ \A d \in Dirs \cup {Root} : marker[d] # None => marker[d].token \in 1 .. runs
    /\ \A p \in Procs : job[p] # None => job[p].run \in 1 .. runs
    /\ due \in [Procs -> SUBSET Columns]
    /\ owed \subseteq Dirs \X Columns

\* The columns of d that a marker accounts for.
Covers(d, c) ==
    \/ marker[d] # None /\ c \in marker[d].descriptor.cols
    \/ /\ marker[Root] # None
       /\ c \in marker[Root].descriptor.cols
       /\ d \in marker[Root].descriptor.layers \cup {Total}

\* At any moment, whatever was killed and wherever, a level that is not
\* pooled from the one above it, or a total that is not the sum, lies under a
\* durable marker that covers it or was left to a later run on purpose:
\* "a crash cannot expose a half-updated store" (rebuild.rs, the marker
\* protocol of every layer transaction and of the scoped update).
DamageIsFenced ==
    \A d \in Dirs, c \in Columns : Coherent(d, c) \/ Covers(d, c) \/ <<d, c>> \in owed

\* What a pack captures is coherent, all levels of all its layers, except for
\* cells the hub pushed, or a world transcode replaced, since they were last
\* derived (tile_store_pack.rs, with_store_snapshots_after_capture).
PackIsCoherent ==
    \A p \in Procs : Shipping(p) =>
        \A d \in Members(job[p].layers), c \in Columns : Coherent(d, c) \/ <<d, c>> \in owed

\* The instructions p has behind and ahead of it.
Done(p, op, d) ==
    \E i \in 1 .. (pc[p] - 1) :
        LET instr == Program[job[p].kind][job[p].layers][job[p].groups][i]
        IN  instr.op = op /\ instr.dir = d

\* A live transaction's marker is its own until it removes it: nobody
\* adopts, overwrites or removes it (rebuild.rs, StoreRebuildFence and
\* StoreUpdateFence).
FenceIsOwned ==
    \A p \in Procs : job[p] # None =>
        \A d \in Dirs \cup {Root} :
            Done(p, "begin", d) /\ ~Done(p, "finish", d) => Owns(p, d)

\* Two processes never write one level at once, and no level is written while
\* a pack that selected it reads it (store.rs, acquire_write_lock).
WritersExclude ==
    \A p, q \in Procs : p # q /\ Reached(p, "put") =>
        /\ ~(Reached(q, "put") /\ Instr(q) = Instr(p))
        /\ ~(Shipping(q) /\ Instr(p).dir \in Members(job[q].layers))

\* Nobody works on what another transaction owns, neither on its marker nor on
\* its levels.
OwnersExclude == FenceIsOwned /\ WritersExclude

\* A scoped update that finishes has put what was staged into every layer of
\* which anything was staged, and removed what went silent there
\* (build-heatmap.sh, the scoped bracket; without ingests of the hub).
Finishes(p) == Reached(p, "finish") /\ Instr(p).dir = Root
Staged(p, l, c) == IF <<l, c>> \in job[p].loud THEN job[p].run ELSE None
RepaintArrives ==
    \A p \in Procs : Finishes(p) =>
        \A l \in job[p].groups, c \in job[p].cols :
            store[l][BaseZoom][c] = Staged(p, l, c)

\* A repaint leaves neither a tile that it did not stage where it finished, nor
\* an unmarked mismatch where it did not.
RepaintIsSafe == RepaintArrives /\ DamageIsFenced

\* Every process ends, whoever waits for whom (locks.rs and store.rs, the
\* one lock order).
EveryProcessEnds == \A p \in Procs : job[p] # None ~> job[p] = None

-----------------------------------------------------------------------------
(* What the repository says, and the code does not do.                     *)

\* "An empty numeric zoom directory means the requested layer was rebuilt and
\* wholly silent in this bbox, so ingest must tombstone its old loud tiles"
\* (build-heatmap.sh).
SilentLayersAreTombstoned ==
    \A p \in Procs : Finishes(p) =>
        \A l \in Members(job[p].layers), c \in job[p].cols :
            store[l][BaseZoom][c] = Staged(p, l, c)

\* "an exact retry can adopt and finish the marker" (build-heatmap.sh): a
\* scoped update with something staged that adopted its marker ends by
\* removing it, unless it is killed.
Adopts(p) ==
    /\ job[p] # None
    /\ job[p].kind = "scoped"
    /\ Owns(p, Root)
    /\ marker[Root].adopted
    /\ job[p].groups # {}
ExactRetryFinishes ==
    [][\A p \in Procs : Adopts(p) /\ job'[p] = None /\ kills' = kills => marker'[Root] = None]_vars
=============================================================================
