----------------------------- MODULE TileStore -----------------------------
(***************************************************************************)
(* engine/tile-painter/src/tile_store: one (layer, zoom) store, a dense    *)
(* index over an append-only data log.  Writers are processes serialized   *)
(* by the flock of z{N}.lock; a writer runs many put_* calls in parallel   *)
(* (rayon), each a reservation of log space, a pwrite of the blob and a    *)
(* pwrite of the index entry, which is the commit.  The packer takes the   *)
(* same lock, captures the index, validates it, punches the dead blocks    *)
(* out of the log and ships the captured blobs; the combiner and the       *)
(* pyramid read other stores under the master lock alone.                  *)
(*                                                                         *)
(* index, data and length are the files as the page cache shows them;      *)
(* onDisk* collect what a crash of the host may leave of them: every value *)
(* written since the last fsync.  A log unit stands for any number of      *)
(* bytes; every put writes bytes of its own.                               *)
(***************************************************************************)
EXTENDS Naturals

CONSTANTS
    Tiles,
    Blobs,       \* the blobs put, each once
    BlobLen,     \* their lengths
    Writers,     \* processes that open the store to write
    Header,      \* HEADER_BYTES
    Block,       \* the file system's allocation block
    LogLimit,    \* u64::MAX
    MaxKills,    \* bound: crashes of a process
    MaxCrashes,  \* bound: crashes of the host
    None

ASSUME StoreAssumption ==
    /\ BlobLen \in [Blobs -> Nat \ {0}]
    /\ Header \in Nat
    /\ LogLimit \in Nat
    /\ Header <= LogLimit
    /\ Block \in Nat \ {0}
    /\ MaxKills \in Nat
    /\ MaxCrashes \in Nat
    /\ None \notin Blobs
    /\ None \notin Writers
    /\ "packer" \notin Writers
    /\ None \notin {"packer", "reader"}
    /\ None \notin [off : Nat, blob : Blobs]

VARIABLES
    index,       \* z{N}.qtsi: the entry of each tile, or None
    data,        \* z{N}.qtsd: the blob whose bytes each unit holds, or None
    length,      \* the length of z{N}.qtsd
    onDiskIndex, onDiskData, onDiskLength,
    lock,        \* holder of the flock on z{N}.lock
    master,      \* holder of the master lock
    phase,       \* each writer's TileStore
    tail,        \* TileStore.tail; Header while the writer has no TileStore
    puts,        \* put_blob calls in flight
    put,         \* blobs handed to a put_blob so far
    packing,     \* where the packer is
    captured,    \* the packer's SnapshotEntry list
    reading,     \* the entry an unlocked reader holds between its two preads
    kills,       \* crashes of processes so far
    crashes      \* crashes of the host so far

fileVars == <<index, data, length>>
diskVars == <<onDiskIndex, onDiskData, onDiskLength>>
writerVars == <<phase, tail, puts>>
packVars == <<packing, captured>>
faultVars == <<kills, crashes>>
vars == <<fileVars, diskVars, lock, master, writerVars, put, packVars, reading, faultVars>>

Units == Header .. (LogLimit - 1)
Entries == {e \in [off : Header .. LogLimit, blob : Blobs] : e.off + BlobLen[e.blob] <= LogLimit}
Puts == {p \in [off : Header .. LogLimit, blob : Blobs, tile : Tiles, step : {"reserved", "written"}] :
            p.off + BlobLen[p.blob] <= LogLimit}

\* The units of an entry's (or a put's) offset..offset+len.
Extent(e) == {u \in Units : e.off <= u /\ u < e.off + BlobLen[e.blob]}

-----------------------------------------------------------------------------
Init ==
    /\ index = [t \in Tiles |-> None]
    /\ data = [u \in Units |-> None]
    /\ length = Header
    /\ onDiskIndex = [t \in Tiles |-> {None}]
    /\ onDiskData = [u \in Units |-> {None}]
    /\ onDiskLength = {Header}
    /\ lock = None /\ master = None
    /\ phase = [w \in Writers |-> "out"]
    /\ tail = [w \in Writers |-> Header]
    /\ puts = [w \in Writers |-> {}]
    /\ put = {}
    /\ packing = "out"
    /\ captured = [t \in Tiles |-> None]
    /\ reading = None
    /\ kills = 0 /\ crashes = 0

-----------------------------------------------------------------------------
(* A writer: TileStore::open(dir, zoom, true), put_*, delete, sync_all.    *)

\* Mutant: a writable open takes no lock.
OpenUnlocked(w) ==
    /\ phase[w] = "out"
    /\ lock' = w
    /\ phase' = [phase EXCEPT ![w] = "locked"]
    /\ UNCHANGED <<fileVars, diskVars, master, tail, puts, put, packVars, reading, faultVars>>

\* acquire_write_lock
AcquireWriteLock(w) ==
    /\ phase[w] = "out"
    /\ lock = None
    /\ lock' = w
    /\ phase' = [phase EXCEPT ![w] = "locked"]
    /\ UNCHANGED <<fileVars, diskVars, master, tail, puts, put, packVars, reading, faultVars>>

IndexedEnds == {index[t].off + BlobLen[index[t].blob] : t \in {s \in Tiles : index[s] # None}}

\* Mutant: the tail is recovered from the file length alone.
RecoverTailFromLength(w) ==
    /\ phase[w] = "locked"
    /\ tail' = [tail EXCEPT ![w] = length]
    /\ phase' = [phase EXCEPT ![w] = "open"]
    /\ UNCHANGED <<fileVars, diskVars, lock, master, puts, put, packVars, reading, faultVars>>

\* The tail is the larger of the file length and the highest indexed end.
RecoverTail(w) ==
    /\ phase[w] = "locked"
    /\ \E end \in {length} \cup IndexedEnds :
          /\ \A other \in {length} \cup IndexedEnds : other <= end
          /\ tail' = [tail EXCEPT ![w] = end]
    /\ phase' = [phase EXCEPT ![w] = "open"]
    /\ UNCHANGED <<fileVars, diskVars, lock, master, puts, put, packVars, reading, faultVars>>

\* Mutant: an unchecked fetch_add of the tail.
ReserveUnchecked(w, b, t) ==
    /\ phase[w] = "open"
    /\ b \notin put
    /\ tail' = [tail EXCEPT ![w] = @ + BlobLen[b]]
    /\ puts' = [puts EXCEPT ![w] = @ \cup {[off |-> tail[w], blob |-> b, tile |-> t, step |-> "reserved"]}]
    /\ put' = put \cup {b}
    /\ UNCHANGED <<fileVars, diskVars, lock, master, phase, packVars, reading, faultVars>>

\* put_blob up to its fetch_update of the tail; past LogLimit it fails and
\* leaves the tail alone.
Reserve(w, b, t) ==
    /\ phase[w] = "open"
    /\ b \notin put
    /\ tail[w] + BlobLen[b] <= LogLimit
    /\ tail' = [tail EXCEPT ![w] = @ + BlobLen[b]]
    /\ puts' = [puts EXCEPT ![w] = @ \cup {[off |-> tail[w], blob |-> b, tile |-> t, step |-> "reserved"]}]
    /\ put' = put \cup {b}
    /\ UNCHANGED <<fileVars, diskVars, lock, master, phase, packVars, reading, faultVars>>

\* pwrite of the first n units of a put.
WriteUnits(p, n) ==
    LET U == {u \in Extent(p) : u < p.off + n} IN
    /\ data' = [u \in Units |-> IF u \in U THEN p.blob ELSE data[u]]
    /\ onDiskData' = [u \in Units |-> IF u \in U THEN onDiskData[u] \cup {p.blob} ELSE onDiskData[u]]
    /\ length' = IF n > 0 /\ p.off + n > length THEN p.off + n ELSE length
    /\ onDiskLength' = onDiskLength \cup {length'}

WriteBlob(w, p) ==
    /\ p.step = "reserved"
    /\ WriteUnits(p, BlobLen[p.blob])
    /\ puts' = [puts EXCEPT ![w] = (@ \ {p}) \cup {[p EXCEPT !.step = "written"]}]
    /\ UNCHANGED <<index, onDiskIndex, lock, master, phase, tail, put, packVars, reading, faultVars>>

\* fallocate or pwrite fails: part of the blob may be in the log already.
PutFails(w, p) ==
    /\ p.step = "reserved"
    /\ \E n \in 0 .. (BlobLen[p.blob] - 1) : WriteUnits(p, n)
    /\ puts' = [puts EXCEPT ![w] = @ \ {p}]
    /\ UNCHANGED <<index, onDiskIndex, lock, master, phase, tail, put, packVars, reading, faultVars>>

\* pwrite of an index entry.
WriteEntry(t, e) ==
    /\ index' = [index EXCEPT ![t] = e]
    /\ onDiskIndex' = [onDiskIndex EXCEPT ![t] = @ \cup {e}]

\* Mutant: the index entry is written before the blob.
CommitFirst(w, p) ==
    /\ WriteEntry(p.tile, [off |-> p.off, blob |-> p.blob])
    /\ puts' = [puts EXCEPT ![w] = @ \ {p}]
    /\ UNCHANGED <<data, length, onDiskData, onDiskLength, lock, master, phase, tail, put, packVars, reading, faultVars>>

Commit(w, p) ==
    /\ p.step = "written"
    /\ WriteEntry(p.tile, [off |-> p.off, blob |-> p.blob])
    /\ puts' = [puts EXCEPT ![w] = @ \ {p}]
    /\ UNCHANGED <<data, length, onDiskData, onDiskLength, lock, master, phase, tail, put, packVars, reading, faultVars>>

\* delete, also reached by put_cells with all-silent cells.
Delete(w, t) ==
    /\ phase[w] = "open"
    /\ WriteEntry(t, None)
    /\ UNCHANGED <<data, length, onDiskData, onDiskLength, lock, master, writerVars, put, packVars, reading, faultVars>>

FsyncData ==
    /\ onDiskData' = [u \in Units |-> {data[u]}]
    /\ onDiskLength' = {length}

FsyncIndex == onDiskIndex' = [t \in Tiles |-> {index[t]}]

\* sync_all: the data log first, then the index; called between batches of puts.
SyncData(w) ==
    /\ phase[w] = "open"
    /\ puts[w] = {}
    /\ FsyncData
    /\ phase' = [phase EXCEPT ![w] = "syncing"]
    /\ UNCHANGED <<fileVars, onDiskIndex, lock, master, tail, puts, put, packVars, reading, faultVars>>

SyncIndex(w) ==
    /\ phase[w] = "syncing"
    /\ FsyncIndex
    /\ phase' = [phase EXCEPT ![w] = "open"]
    /\ UNCHANGED <<fileVars, onDiskData, onDiskLength, lock, master, tail, puts, put, packVars, reading, faultVars>>

\* Drop of the TileStore, after its last put, synced or not.
Close(w) ==
    /\ phase[w] = "open"
    /\ puts[w] = {}
    /\ phase' = [phase EXCEPT ![w] = "out"]
    /\ tail' = [tail EXCEPT ![w] = Header]
    /\ lock' = None
    /\ UNCHANGED <<fileVars, diskVars, master, puts, put, packVars, reading, faultVars>>

\* The process dies; its flock goes with it, its puts stop where they are.
WriterCrash(w) ==
    /\ phase[w] # "out"
    /\ kills < MaxKills
    /\ kills' = kills + 1
    /\ phase' = [phase EXCEPT ![w] = "out"]
    /\ tail' = [tail EXCEPT ![w] = Header]
    /\ puts' = [puts EXCEPT ![w] = {}]
    /\ lock' = None
    /\ UNCHANGED <<fileVars, diskVars, master, put, packVars, reading, crashes>>

-----------------------------------------------------------------------------
(* The packer: with_store_snapshots_after_capture, reclaim, ship-out.      *)

PackerFrame == UNCHANGED <<index, length, onDiskLength, writerVars, put, reading>>

\* Mutant: the packer relies on the master lock and skips the store's own.
PackerLocksMaster ==
    /\ packing = "out"
    /\ master = None
    /\ master' = "packer"
    /\ packing' = "locked"
    /\ UNCHANGED <<data, onDiskIndex, onDiskData, lock, captured, faultVars>>
    /\ PackerFrame

\* StoreMasterIngestLocks, then the store's own lock.
PackerLocks ==
    /\ packing = "out"
    /\ master = None
    /\ lock = None
    /\ master' = "packer"
    /\ lock' = "packer"
    /\ packing' = "locked"
    /\ UNCHANGED <<data, onDiskIndex, onDiskData, captured, faultVars>>
    /\ PackerFrame

\* The packer returns or dies: every guard drops.
PackerOut ==
    /\ packing' = "out"
    /\ captured' = [t \in Tiles |-> None]
    /\ master' = None
    /\ lock' = None

\* snapshot_layer
Capture ==
    /\ packing = "locked"
    /\ captured' = index
    /\ packing' = "captured"
    /\ UNCHANGED <<data, onDiskIndex, onDiskData, lock, master, faultVars>>
    /\ PackerFrame

\* get_blob_by_entry: the bytes of the entry, all of them and nothing else.
ReadsWhole(e) ==
    /\ e.off + BlobLen[e.blob] <= length
    /\ \A u \in Extent(e) : data[u] = e.blob

\* Every range lies in the log and no two overlap.
RangesValid(entry) ==
    \A t \in Tiles : entry[t] # None =>
        /\ entry[t].off >= Header /\ entry[t].off + BlobLen[entry[t].blob] <= length
        /\ \A s \in Tiles \ {t} : entry[s] # None => Extent(entry[s]) \cap Extent(entry[t]) = {}

\* validate_captured_store finds no problem.
Clean == RangesValid(captured) /\ \A t \in Tiles : captured[t] # None => ReadsWhole(captured[t])

Validate ==
    /\ packing = "captured"
    /\ Clean
    /\ packing' = "valid"
    /\ UNCHANGED <<data, onDiskIndex, onDiskData, lock, master, captured, faultVars>>
    /\ PackerFrame

Reject ==
    /\ packing = "captured"
    /\ ~Clean
    /\ PackerOut
    /\ UNCHANGED <<data, onDiskIndex, onDiskData, faultVars>>
    /\ PackerFrame

\* A whole block between the header and the end of the log that no entry of
\* the current index reaches into.
Dead(k) ==
    LET Whole == (k * Block) .. (k * Block + Block - 1)
    IN  /\ Whole \subseteq Header .. (length - 1)
        /\ \A t \in Tiles : index[t] # None => Whole \cap Extent(index[t]) = {}

Blocks == 0 .. LogLimit

\* Mutant: reclaim_unreferenced_blocks punches without a sync_all before it.
ReclaimUnsynced ==
    /\ packing = "valid"
    /\ RangesValid(index)
    /\ packing' = "punching"
    /\ UNCHANGED <<data, onDiskIndex, onDiskData, lock, master, captured, faultVars>>
    /\ PackerFrame

\* reclaim_unreferenced_blocks up to the end of its sync_all: it validates
\* the whole current index before anything is punched.
Reclaim ==
    /\ packing = "valid"
    /\ RangesValid(index)
    /\ \E k \in Blocks : Dead(k)
    /\ FsyncData
    /\ FsyncIndex
    /\ packing' = "punching"
    /\ UNCHANGED <<data, lock, master, captured, faultVars>>
    /\ UNCHANGED <<index, length, writerVars, put, reading>>

\* One fallocate(PUNCH_HOLE) of one block of a gap.
Punch(k) ==
    /\ packing = "punching"
    /\ Dead(k)
    /\ LET Whole == (k * Block) .. (k * Block + Block - 1) IN
       /\ data' = [u \in Units |-> IF u \in Whole THEN None ELSE data[u]]
       /\ onDiskData' = [u \in Units |-> IF u \in Whole THEN onDiskData[u] \cup {None} ELSE onDiskData[u]]
    /\ UNCHANGED <<onDiskIndex, lock, master, packing, captured, faultVars>>
    /\ PackerFrame

\* Nothing to reclaim, a shared log, or a failed or finished reclamation:
\* the pack goes on either way.  A finished one ends with an fsync.
Ship ==
    /\ packing \in {"valid", "punching"}
    /\ \/ UNCHANGED <<onDiskData, onDiskLength>>
       \/ packing = "punching" /\ FsyncData
    /\ packing' = "shipping"
    /\ UNCHANGED <<data, onDiskIndex, lock, master, captured, faultVars>>
    /\ UNCHANGED <<index, length, writerVars, put, reading>>

Published ==
    /\ packing = "shipping"
    /\ PackerOut
    /\ UNCHANGED <<data, onDiskIndex, onDiskData, faultVars>>
    /\ PackerFrame

PackerCrash ==
    /\ packing # "out"
    /\ kills < MaxKills
    /\ kills' = kills + 1
    /\ PackerOut
    /\ UNCHANGED <<data, onDiskIndex, onDiskData, crashes>>
    /\ PackerFrame

-----------------------------------------------------------------------------
(* Combiner and pyramid as readers of a store: TileStore::open(.., false). *)

ReaderFrame == UNCHANGED <<fileVars, diskVars, lock, writerVars, put, packVars, faultVars>>

ReaderStarts ==
    /\ master = None
    /\ master' = "reader"
    /\ UNCHANGED reading
    /\ ReaderFrame

\* get_blob's first pread.
ReadEntry(t) ==
    /\ master = "reader"
    /\ reading = None
    /\ index[t] # None
    /\ reading' = index[t]
    /\ UNCHANGED master
    /\ ReaderFrame

\* get_blob's second pread; the bytes go to the decoder.
ReadBlob ==
    /\ reading # None
    /\ reading' = None
    /\ UNCHANGED master
    /\ ReaderFrame

ReaderEnds ==
    /\ master = "reader"
    /\ master' = None
    /\ reading' = None
    /\ ReaderFrame

-----------------------------------------------------------------------------
\* Units written or punched since the last fsync of the log.
Volatile == {u \in Units : onDiskData[u] # {data[u]}}

\* The host dies: of every entry, unit and length, the disk has one of the
\* values written since the last fsync.
HostCrash ==
    /\ crashes < MaxCrashes
    /\ crashes' = crashes + 1
    /\ \E i \in [Tiles -> UNION {onDiskIndex[t] : t \in Tiles}],
          d \in [Volatile -> UNION {onDiskData[u] : u \in Volatile}],
          n \in onDiskLength :
          /\ \A t \in Tiles : i[t] \in onDiskIndex[t]
          /\ \A u \in Volatile : d[u] \in onDiskData[u]
          /\ index' = i
          /\ length' = n
          /\ data' = [u \in Units |-> IF u >= n THEN None
                                    ELSE IF u \in Volatile THEN d[u] ELSE data[u]]
    /\ onDiskIndex' = [t \in Tiles |-> {index'[t]}]
    /\ onDiskData' = [u \in Units |-> {data'[u]}]
    /\ onDiskLength' = {length'}
    /\ lock' = None
    /\ phase' = [w \in Writers |-> "out"]
    /\ tail' = [w \in Writers |-> Header]
    /\ puts' = [w \in Writers |-> {}]
    /\ packing' = "out"
    /\ captured' = [t \in Tiles |-> None]
    /\ master' = None
    /\ reading' = None
    /\ UNCHANGED <<put, kills>>

WriterNext(w) ==
    \/ AcquireWriteLock(w) \/ RecoverTail(w)
    \/ SyncData(w) \/ SyncIndex(w) \/ Close(w) \/ WriterCrash(w)
    \/ \E t \in Tiles : Delete(w, t) \/ \E b \in Blobs : Reserve(w, b, t)
    \/ \E p \in puts[w] : WriteBlob(w, p) \/ PutFails(w, p) \/ Commit(w, p)

PackerNext ==
    \/ PackerLocks \/ Capture \/ Validate \/ Reject
    \/ Reclaim \/ Ship \/ Published \/ PackerCrash
    \/ \E k \in Blocks : Punch(k)

ReaderNext ==
    \/ ReaderStarts \/ ReadBlob \/ ReaderEnds
    \/ \E t \in Tiles : ReadEntry(t)

Next ==
    \/ \E w \in Writers : WriterNext(w)
    \/ PackerNext
    \/ ReaderNext
    \/ HostCrash

Spec == Init /\ [][Next]_vars

-----------------------------------------------------------------------------
(* Properties.                                                             *)

TypeOK ==
    /\ index \in [Tiles -> Entries \cup {None}]
    /\ data \in [Units -> Blobs \cup {None}]
    /\ length \in Header .. LogLimit
    /\ onDiskIndex \in [Tiles -> SUBSET (Entries \cup {None})]
    /\ onDiskData \in [Units -> SUBSET (Blobs \cup {None})]
    /\ onDiskLength \subseteq Header .. LogLimit
    /\ lock \in Writers \cup {"packer", None}
    /\ master \in {"packer", "reader", None}
    /\ phase \in [Writers -> {"out", "locked", "open", "syncing"}]
    /\ tail \in [Writers -> Header .. LogLimit]
    /\ puts \in [Writers -> SUBSET Puts]
    /\ put \subseteq Blobs
    /\ packing \in {"out", "locked", "captured", "valid", "punching", "shipping"}
    /\ captured \in [Tiles -> Entries \cup {None}]
    /\ reading \in Entries \cup {None}
    /\ kills \in 0 .. MaxKills
    /\ crashes \in 0 .. MaxCrashes

Disjoint(e, f) == Extent(e) \cap Extent(f) = {}

InFlight == UNION {puts[w] : w \in Writers}

\* No put is ever given log space that an entry of the index or another put
\* owns, even when a crash of the host left the log shorter than its index
\* (store.rs, "A stale short tail would hand out offsets that OVERWRITE
\* committed blobs").
NoOverwrite ==
    \A p \in InFlight :
        /\ \A t \in Tiles : index[t] # None => Disjoint(p, index[t])
        /\ \A q \in InFlight \ {p} : Disjoint(p, q)

\* A tile never reads as bytes of another blob, through any number of writers,
\* crashes, reclamations and losses of unsynced pages; at worst it is lost.
NoAliasing ==
    \A t \in Tiles : index[t] # None =>
        \A u \in Extent(index[t]) : data[u] \in {index[t].blob, None}

\* A lost blob fails loudly: no tile reads, undetected, the bytes another put
\* of the same length wrote (store.rs, "they fail loudly (read/decode error),
\* they are never silently wrong").
NeverSilentlyWrong ==
    \A t \in Tiles : index[t] # None =>
        ~\E b \in Blobs \ {index[t].blob} :
            /\ BlobLen[b] = BlobLen[index[t].blob]
            /\ \A u \in Extent(index[t]) : data[u] = b

\* A process may die anywhere: a tile in the index is whole, unless a host
\* crash lost it.
CommittedIntact ==
    crashes = 0 => \A t \in Tiles : index[t] # None => ReadsWhole(index[t])

\* A read gives the tile's bytes or fails: never another tile's, and it fails
\* only after a host crash.
ReadsAreTrue == NoAliasing /\ CommittedIntact

\* While the packer ships or a reader of the master domain reads, the bytes
\* under the entries it holds do not change: rewritten tiles keep their old
\* bytes and nothing held is punched.
HeldEntriesStable ==
    [][\A e \in {reading} \cup {captured[t] : t \in Tiles} :
          /\ e # None
          /\ reading' = reading /\ captured' = captured
          => (ReadsWhole(e) => ReadsWhole(e)')]_vars

\* The content a read of entry e returns.
ContentOf(e) == IF e = None THEN "absent" ELSE IF ReadsWhole(e) THEN e.blob ELSE "garbage"

\* A host crash may bring all of entry e's bytes back, or loses none of them.
MayRead(e) == \A u \in Extent(e) : e.blob \in onDiskData[u]
Safe(e) ==
    /\ \A u \in Extent(e) : onDiskData[u] = {e.blob}
    /\ \A n \in onDiskLength : e.off + BlobLen[e.blob] <= n

\* What a read may return after a host crash that leaves entry e.
AfterLoss(e) ==
    IF e = None THEN {"absent"}
    ELSE (IF MayRead(e) THEN {e.blob} ELSE {}) \cup (IF Safe(e) THEN {} ELSE {"garbage"})

Map == INSTANCE TileMap WITH
    Absent <- "absent", Garbage <- "garbage",
    map <- [t \in Tiles |-> ContentOf(index[t])],
    saved <- [t \in Tiles |-> UNION {AfterLoss(e) : e \in onDiskIndex[t]}]

\* The store implements the map of its crash contract (TileMap).
MapSpec == Map!Spec
=============================================================================
