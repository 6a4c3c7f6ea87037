-------------------------- MODULE TileStoreProofs --------------------------
(***************************************************************************)
(* Log space is never shared, and what a read of the store returns: never  *)
(* another tile's bytes before a second crash of the host, nothing lost    *)
(* before the first, and under the entries a packer or a reader holds,     *)
(* nothing that moves; for any tiles, blobs, lengths, writers and blocks.  *)
(***************************************************************************)
EXTENDS TileStore, TLAPS

\* An open store's writer holds the lock, and so does a packer at work.
LockHeld ==
    /\ \A w \in Writers : phase[w] # "out" => lock = w
    /\ packing # "out" => lock = "packer"

\* Puts are in flight in an open store only.
PutsOfOpen == \A w \in Writers : puts[w] # {} => phase[w] = "open"

\* The tail of an open store is past everything that owns log space.
TailPastAll ==
    \A w \in Writers : phase[w] \in {"open", "syncing"} =>
        /\ \A t \in Tiles : index[t] # None => index[t].off + BlobLen[index[t].blob] <= tail[w]
        /\ \A p \in puts[w] : p.off + BlobLen[p.blob] <= tail[w]

IInv == TypeOK /\ LockHeld /\ PutsOfOpen /\ TailPastAll /\ NoOverwrite

-----------------------------------------------------------------------------
\* The constants an obligation may need, without Writers' names.
LEMMA Constants ==
    /\ Header \in Nat /\ LogLimit \in Nat /\ Header <= LogLimit
    /\ \A b \in Blobs : BlobLen[b] \in Nat /\ BlobLen[b] > 0
    /\ None \notin Writers /\ "packer" \notin Writers /\ None # "packer"
    /\ MaxKills \in Nat /\ MaxCrashes \in Nat
BY StoreAssumption DEF StoreAssumption

\* An entry is what a put's blob and offset make of it.
LEMMA EntryOfPut ==
    ASSUME NEW p \in Puts
    PROVE  /\ [off |-> p.off, blob |-> p.blob] \in Entries
           /\ p.off \in Nat /\ p.blob \in Blobs /\ p.tile \in Tiles
           /\ p.off \in Header .. LogLimit
           /\ p.off + BlobLen[p.blob] <= LogLimit
           /\ BlobLen[p.blob] \in Nat /\ BlobLen[p.blob] > 0
           /\ \A n \in 0 .. (BlobLen[p.blob] - 1) : n \in 0 .. BlobLen[p.blob]
           /\ BlobLen[p.blob] \in 0 .. BlobLen[p.blob]
<1>1. /\ p.off \in Header .. LogLimit /\ p.blob \in Blobs /\ p.tile \in Tiles
      /\ p.off + BlobLen[p.blob] <= LogLimit
    BY DEF Puts
<1>2. BlobLen[p.blob] \in Nat /\ BlobLen[p.blob] > 0
    BY <1>1, Constants
<1>3. [off |-> p.off, blob |-> p.blob] \in Entries
    BY <1>1 DEF Entries
<1> QED
    BY <1>1, <1>2, <1>3, Constants

LEMMA EntryFields ==
    ASSUME NEW e \in Entries
    PROVE  /\ e.off \in Nat /\ e.off \in Header .. LogLimit /\ e.blob \in Blobs
           /\ e.off + BlobLen[e.blob] <= LogLimit
           /\ BlobLen[e.blob] \in Nat
BY Constants DEF Entries

\* No writer's process is open beside the lock's holder.
LEMMA OneWriter ==
    ASSUME LockHeld, NEW w \in Writers, phase[w] # "out",
           NEW v \in Writers, v # w
    PROVE  phase[v] = "out"
BY DEF LockHeld

LEMMA InitInv == Init => IInv
<1> SUFFICES ASSUME Init PROVE IInv
    OBVIOUS
<1> USE Constants DEF Init
<1>1. TypeOK
    BY DEF TypeOK
<1>2. LockHeld
    BY DEF LockHeld
<1>3. PutsOfOpen
    BY DEF PutsOfOpen
<1>4. TailPastAll
    BY DEF TailPastAll
<1>5. NoOverwrite
    BY DEF NoOverwrite, InFlight
<1> QED
    BY <1>1, <1>2, <1>3, <1>4, <1>5 DEF IInv

-----------------------------------------------------------------------------
(* Types.                                                                  *)

\* pwrite of a prefix of a put keeps the files' types.
LEMMA WriteUnitsType ==
    ASSUME TypeOK, NEW p \in Puts, NEW n \in 0 .. BlobLen[p.blob], WriteUnits(p, n)
    PROVE  /\ data' \in [Units -> Blobs \cup {None}]
           /\ onDiskData' \in [Units -> SUBSET (Blobs \cup {None})]
           /\ length' \in Header .. LogLimit
           /\ onDiskLength' \subseteq Header .. LogLimit
<1>0. p.blob \in Blobs /\ p.off \in Header .. LogLimit /\ p.off + n \in Header .. LogLimit
  <2>1. /\ p.blob \in Blobs /\ p.off \in Nat /\ p.off \in Header .. LogLimit
        /\ p.off + BlobLen[p.blob] <= LogLimit /\ BlobLen[p.blob] \in Nat
    BY EntryOfPut
  <2> QED
    BY <2>1, Constants
<1>1. length' \in Header .. LogLimit
    BY <1>0, Constants DEF WriteUnits, TypeOK
<1>2. onDiskLength' \subseteq Header .. LogLimit
    BY <1>1 DEF WriteUnits, TypeOK
<1>3. data' \in [Units -> Blobs \cup {None}]
    BY <1>0 DEF WriteUnits, TypeOK
<1>4. onDiskData' \in [Units -> SUBSET (Blobs \cup {None})]
  <2>1. \A u \in Units : onDiskData[u] \cup {p.blob} \in SUBSET (Blobs \cup {None})
    BY <1>0 DEF TypeOK
  <2>2. \A u \in Units : onDiskData[u] \in SUBSET (Blobs \cup {None})
    BY DEF TypeOK
  <2> QED
    BY <2>1, <2>2 DEF WriteUnits
<1> QED
    BY <1>1, <1>2, <1>3, <1>4

LEMMA WriterTypes ==
    ASSUME TypeOK, NEW w \in Writers, WriterNext(w)
    PROVE  TypeOK'
<1> USE Constants DEF TypeOK, fileVars, diskVars, packVars, faultVars, writerVars
<1>1. CASE AcquireWriteLock(w)
    BY <1>1 DEF AcquireWriteLock
<1>2. CASE RecoverTail(w)
  <2>1. PICK end \in {length} \cup IndexedEnds : tail' = [tail EXCEPT ![w] = end]
    BY <1>2 DEF RecoverTail
  <2>2. end \in Header .. LogLimit
    BY EntryFields DEF IndexedEnds
  <2> QED
    BY <1>2, <2>1, <2>2 DEF RecoverTail
<1>3. CASE SyncData(w)
    BY <1>3 DEF SyncData, FsyncData
<1>4. CASE SyncIndex(w)
    BY <1>4 DEF SyncIndex, FsyncIndex
<1>5. CASE Close(w)
    BY <1>5 DEF Close
<1>6. CASE WriterCrash(w)
    BY <1>6 DEF WriterCrash
<1>7. ASSUME NEW t \in Tiles, Delete(w, t)
      PROVE  TypeOK'
    BY <1>7 DEF Delete, WriteEntry
<1>8. ASSUME NEW t \in Tiles, NEW b \in Blobs, Reserve(w, b, t)
      PROVE  TypeOK'
  <2>1. tail[w] + BlobLen[b] \in Header .. LogLimit
    BY <1>8 DEF Reserve
  <2>2. [off |-> tail[w], blob |-> b, tile |-> t, step |-> "reserved"] \in Puts
    BY <1>8 DEF Reserve, Puts
  <2> QED
    BY <1>8, <2>1, <2>2 DEF Reserve
<1>9. ASSUME NEW p \in puts[w], WriteBlob(w, p)
      PROVE  TypeOK'
  <2>1. p \in Puts /\ [p EXCEPT !.step = "written"] \in Puts
    BY DEF Puts
  <2>2. BlobLen[p.blob] \in 0 .. BlobLen[p.blob]
    BY <2>1, EntryOfPut
  <2>3. /\ data' \in [Units -> Blobs \cup {None}]
        /\ onDiskData' \in [Units -> SUBSET (Blobs \cup {None})]
        /\ length' \in Header .. LogLimit
        /\ onDiskLength' \subseteq Header .. LogLimit
    BY <1>9, <2>1, <2>2, WriteUnitsType DEF WriteBlob
  <2>4. puts' \in [Writers -> SUBSET Puts]
    BY <1>9, <2>1 DEF WriteBlob
  <2> QED
    BY <1>9, <2>3, <2>4 DEF WriteBlob
<1>10. ASSUME NEW p \in puts[w], PutFails(w, p)
       PROVE  TypeOK'
  <2>1. PICK n \in 0 .. (BlobLen[p.blob] - 1) : WriteUnits(p, n)
    BY <1>10 DEF PutFails
  <2>2. p \in Puts
    OBVIOUS
  <2>3. n \in 0 .. BlobLen[p.blob]
    BY <2>2, EntryOfPut
  <2> QED
    BY <1>10, <2>1, <2>2, <2>3, WriteUnitsType DEF PutFails
<1>11. ASSUME NEW p \in puts[w], Commit(w, p)
       PROVE  TypeOK'
  <2>1. p \in Puts
    OBVIOUS
  <2> QED
    BY <1>11, <2>1, EntryOfPut DEF Commit, WriteEntry
<1> QED
    BY <1>1, <1>2, <1>3, <1>4, <1>5, <1>6, <1>7, <1>8, <1>9, <1>10, <1>11 DEF WriterNext

LEMMA PackerTypes ==
    ASSUME TypeOK, PackerNext
    PROVE  TypeOK'
<1> USE Constants DEF TypeOK, PackerFrame, writerVars, faultVars
<1>1. CASE PackerLocks
    BY <1>1 DEF PackerLocks
<1>2. CASE Capture
    BY <1>2 DEF Capture
<1>3. CASE Validate
    BY <1>3 DEF Validate
<1>4. CASE Reject
    BY <1>4 DEF Reject, PackerOut
<1>5. CASE Reclaim
    BY <1>5 DEF Reclaim, FsyncData, FsyncIndex
<1>6. CASE Ship
  <2>1. CASE UNCHANGED <<onDiskData, onDiskLength>>
    BY <1>6, <2>1 DEF Ship
  <2>2. CASE FsyncData
    BY <1>6, <2>2 DEF Ship, FsyncData
  <2> QED
    BY <1>6, <2>1, <2>2 DEF Ship
<1>7. CASE Published
    BY <1>7 DEF Published, PackerOut
<1>8. CASE PackerCrash
    BY <1>8 DEF PackerCrash, PackerOut
<1>9. ASSUME NEW k \in Blocks, Punch(k)
      PROVE  TypeOK'
    BY <1>9 DEF Punch
<1> QED
    BY <1>1, <1>2, <1>3, <1>4, <1>5, <1>6, <1>7, <1>8, <1>9 DEF PackerNext

LEMMA ReaderTypes ==
    ASSUME TypeOK, ReaderNext
    PROVE  TypeOK'
BY DEF TypeOK, ReaderNext, ReaderStarts, ReadEntry, ReadBlob, ReaderEnds, ReaderFrame,
       fileVars, diskVars, packVars, faultVars, writerVars

LEMMA CrashTypes ==
    ASSUME TypeOK, HostCrash
    PROVE  TypeOK'
<1> USE Constants DEF TypeOK
<1>1. PICK i \in [Tiles -> UNION {onDiskIndex[t] : t \in Tiles}],
           d \in [Volatile -> UNION {onDiskData[u] : u \in Volatile}],
           n \in onDiskLength :
          /\ \A t \in Tiles : i[t] \in onDiskIndex[t]
          /\ \A u \in Volatile : d[u] \in onDiskData[u]
          /\ index' = i
          /\ length' = n
          /\ data' = [u \in Units |-> IF u >= n THEN None
                                    ELSE IF u \in Volatile THEN d[u] ELSE data[u]]
    BY DEF HostCrash
<1>2. index' \in [Tiles -> Entries \cup {None}]
    BY <1>1
<1>3. data' \in [Units -> Blobs \cup {None}]
    BY <1>1 DEF Volatile
<1>4. length' \in Header .. LogLimit
    BY <1>1
<1>5. onDiskIndex' \in [Tiles -> SUBSET (Entries \cup {None})]
    BY <1>2 DEF HostCrash
<1>6. onDiskData' \in [Units -> SUBSET (Blobs \cup {None})]
    BY <1>3 DEF HostCrash
<1>7. onDiskLength' \subseteq Header .. LogLimit
    BY <1>4 DEF HostCrash
<1> QED
    BY <1>2, <1>3, <1>4, <1>5, <1>6, <1>7 DEF HostCrash

LEMMA TypeStep == TypeOK /\ [Next]_vars => TypeOK'
<1> SUFFICES ASSUME TypeOK, [Next]_vars PROVE TypeOK'
    OBVIOUS
<1>1. CASE UNCHANGED vars
    BY <1>1 DEF TypeOK, vars, fileVars, diskVars, packVars, faultVars, writerVars
<1> QED
    BY <1>1, WriterTypes, PackerTypes, ReaderTypes, CrashTypes DEF Next

-----------------------------------------------------------------------------
(* The lock, and what happens to the puts when it changes hands.           *)

LEMMA LockStep ==
    ASSUME TypeOK, LockHeld, [Next]_vars
    PROVE  LockHeld'
<1> USE Constants DEF LockHeld, TypeOK, PackerFrame, writerVars, faultVars, fileVars, diskVars, packVars
<1>1. CASE UNCHANGED vars
    BY <1>1 DEF vars
<1>2. ASSUME NEW w \in Writers, WriterNext(w)
      PROVE  LockHeld'
  <2>1. CASE AcquireWriteLock(w)
    <3>1. \A v \in Writers : phase[v] = "out"
        BY <2>1 DEF AcquireWriteLock
    <3> QED
        BY <2>1, <3>1 DEF AcquireWriteLock
  <2>2. CASE RecoverTail(w)
      BY <2>2 DEF RecoverTail
  <2>3. CASE SyncData(w)
      BY <2>3 DEF SyncData
  <2>4. CASE SyncIndex(w)
      BY <2>4 DEF SyncIndex
  <2>5. CASE Close(w)
      BY <2>5 DEF Close
  <2>6. CASE WriterCrash(w)
      BY <2>6 DEF WriterCrash
  <2>7. CASE \/ \E t \in Tiles : Delete(w, t) \/ \E b \in Blobs : Reserve(w, b, t)
             \/ \E p \in puts[w] : WriteBlob(w, p) \/ PutFails(w, p) \/ Commit(w, p)
      BY <2>7 DEF Delete, Reserve, WriteBlob, PutFails, Commit
  <2> QED
      BY <1>2, <2>1, <2>2, <2>3, <2>4, <2>5, <2>6, <2>7 DEF WriterNext
<1>3. CASE PackerNext
  <2>1. CASE PackerLocks
      BY <2>1 DEF PackerLocks
  <2>2. CASE Capture \/ Validate \/ Reclaim \/ Ship \/ \E k \in Blocks : Punch(k)
      BY <2>2 DEF Capture, Validate, Reclaim, Ship, Punch
  <2>3. CASE Reject \/ Published \/ PackerCrash
      BY <2>3 DEF Reject, Published, PackerCrash, PackerOut
  <2> QED
      BY <1>3, <2>1, <2>2, <2>3 DEF PackerNext
<1>4. CASE ReaderNext
    BY <1>4 DEF ReaderNext, ReaderStarts, ReadEntry, ReadBlob, ReaderEnds, ReaderFrame
<1>5. CASE HostCrash
    BY <1>5 DEF HostCrash
<1> QED
    BY <1>1, <1>2, <1>3, <1>4, <1>5 DEF Next

\* What the puts, the tail and the index are to one writer's store.
Sound(w) ==
    /\ puts[w] # {} => phase[w] = "open"
    /\ phase[w] \in {"open", "syncing"} =>
        /\ \A t \in Tiles : index[t] # None => index[t].off + BlobLen[index[t].blob] <= tail[w]
        /\ \A p \in puts[w] : p.off + BlobLen[p.blob] <= tail[w]
    /\ \A p \in puts[w] :
        /\ \A t \in Tiles : index[t] # None => Disjoint(p, index[t])
        /\ \A q \in puts[w] \ {p} : Disjoint(p, q)

LEMMA AllSound ==
    ASSUME PutsOfOpen, TailPastAll, NoOverwrite, NEW w \in Writers
    PROVE  Sound(w)
<1>1. puts[w] \subseteq InFlight
    BY DEF InFlight
<1> QED
    BY <1>1 DEF Sound, PutsOfOpen, TailPastAll, NoOverwrite

LEMMA SoundAll ==
    ASSUME LockHeld', \A w \in Writers : Sound(w)'
    PROVE  PutsOfOpen' /\ TailPastAll' /\ NoOverwrite'
<1>1. PutsOfOpen'
    BY DEF Sound, PutsOfOpen
<1>2. TailPastAll'
    BY DEF Sound, TailPastAll
<1>3. ASSUME NEW p \in InFlight'
      PROVE  /\ \A t \in Tiles : index[t]' # None => Disjoint(p, index[t])'
             /\ \A q \in InFlight' \ {p} : Disjoint(p, q)'
  <2>1. PICK w \in Writers : p \in puts'[w]
      BY DEF InFlight
  <2>2. \A t \in Tiles : index[t]' # None => Disjoint(p, index[t])'
      BY <2>1 DEF Sound
  <2>3. ASSUME NEW q \in InFlight' \ {p}
        PROVE  Disjoint(p, q)'
    <3>1. PICK v \in Writers : q \in puts'[v]
        BY DEF InFlight
    <3>2. v = w
        BY <2>1, <3>1 DEF Sound, LockHeld
    <3> QED
        BY <2>1, <3>1, <3>2 DEF Sound
  <2> QED
      BY <2>2, <2>3
<1>4. NoOverwrite'
    BY <1>3 DEF NoOverwrite
<1> QED
    BY <1>1, <1>2, <1>4

\* A store that is not open has no put in flight, so nothing is asked of it.
LEMMA OutIsSound ==
    ASSUME NEW w \in Writers, puts'[w] = {}, phase'[w] \notin {"open", "syncing"}
    PROVE  Sound(w)'
BY DEF Sound

\* Space that ends before a put's is no part of it.
LEMMA Before ==
    ASSUME NEW e, NEW p, e.off + BlobLen[e.blob] <= p.off,
           e.off + BlobLen[e.blob] \in Nat, p.off \in Nat
    PROVE  Disjoint(p, e) /\ Disjoint(e, p)
<1>1. \A u \in Units : u \in Nat
    BY Constants DEF Units
<1> QED
    BY <1>1 DEF Disjoint, Extent

-----------------------------------------------------------------------------
(* The step.                                                               *)

\* Nothing that the soundness of the stores is about changes.
LEMMA Quiet ==
    ASSUME IInv, UNCHANGED <<index, phase, tail, puts>>, NEW w \in Writers
    PROVE  Sound(w)'
BY AllSound DEF IInv, Sound, Disjoint, Extent

\* A step of another process leaves w's store out of the log.
LEMMA Others ==
    ASSUME IInv, NEW v \in Writers, phase[v] # "out",
           NEW w \in Writers, w # v,
           puts'[w] = puts[w], phase'[w] = phase[w]
    PROVE  Sound(w)'
<1>1. phase[w] = "out"
    BY OneWriter DEF IInv
<1>2. puts[w] = {}
    BY <1>1, AllSound DEF IInv, Sound
<1> QED
    BY <1>1, <1>2, OutIsSound

LEMMA ReserveSound ==
    ASSUME IInv, NEW w \in Writers, NEW t \in Tiles, NEW b \in Blobs, Reserve(w, b, t)
    PROVE  Sound(w)'
<1> DEFINE new == [off |-> tail[w], blob |-> b, tile |-> t, step |-> "reserved"]
<1>1. Sound(w)
    BY AllSound DEF IInv
<1>2. /\ phase[w] = "open" /\ phase' = phase /\ index' = index
      /\ tail'[w] = tail[w] + BlobLen[b]
      /\ puts'[w] = puts[w] \cup {new}
    BY DEF Reserve, IInv, TypeOK, fileVars
<1>3. tail[w] \in Nat /\ BlobLen[b] \in Nat /\ BlobLen[b] > 0
    BY Constants DEF IInv, TypeOK
<1>4. \A s \in Tiles : index[s] # None =>
        /\ index[s].off + BlobLen[index[s].blob] \in Nat
        /\ index[s].off + BlobLen[index[s].blob] <= tail[w]
    BY <1>1, <1>2, EntryFields DEF Sound, IInv, TypeOK
<1>5. \A p \in puts[w] : p.off + BlobLen[p.blob] \in Nat /\ p.off + BlobLen[p.blob] <= tail[w]
  <2>1. \A p \in puts[w] : p \in Puts
    BY DEF IInv, TypeOK
  <2>2. \A p \in puts[w] : p.off \in Nat /\ BlobLen[p.blob] \in Nat
    BY <2>1, EntryOfPut
  <2> QED
    BY <1>1, <1>2, <2>2 DEF Sound
<1>6. \A s \in Tiles : index[s] # None => Disjoint(new, index[s])
    BY <1>3, <1>4, Before
<1>7. \A p \in puts[w] : Disjoint(new, p) /\ Disjoint(p, new)
    BY <1>3, <1>5, Before
<1>8. \A s \in Tiles : index[s] # None => index[s].off + BlobLen[index[s].blob] <= tail'[w]
    BY <1>2, <1>3, <1>4
<1>9. \A p \in puts'[w] : p.off + BlobLen[p.blob] <= tail'[w]
    BY <1>2, <1>3, <1>5
<1>10. ASSUME NEW p \in puts'[w]
       PROVE  /\ \A s \in Tiles : index[s] # None => Disjoint(p, index[s])
              /\ \A q \in puts'[w] \ {p} : Disjoint(p, q)
    BY <1>1, <1>2, <1>6, <1>7 DEF Sound
<1> QED
    BY <1>2, <1>8, <1>9, <1>10 DEF Sound, Disjoint, Extent

\* A put that goes on from reserved to written keeps its space.
LEMMA WriteSound ==
    ASSUME IInv, NEW w \in Writers, NEW p \in puts[w], WriteBlob(w, p)
    PROVE  Sound(w)'
<1> DEFINE new == [p EXCEPT !.step = "written"]
<1>1. Sound(w)
    BY AllSound DEF IInv
<1>2. /\ phase' = phase /\ index' = index /\ tail' = tail
      /\ puts'[w] = (puts[w] \ {p}) \cup {new}
    BY DEF WriteBlob, IInv, TypeOK
<1>3. p \in Puts
    BY DEF IInv, TypeOK
<1>4. new.off = p.off /\ new.blob = p.blob
    BY <1>3 DEF Puts
<1>5. Extent(new) = Extent(p)
    BY <1>4 DEF Extent
<1>6. \A q \in puts'[w] : q.off + BlobLen[q.blob] <= tail[w] \/ phase[w] \notin {"open", "syncing"}
    BY <1>1, <1>2, <1>4 DEF Sound
<1>7. ASSUME NEW q \in puts'[w]
      PROVE  /\ \A s \in Tiles : index[s] # None => Disjoint(q, index[s])
             /\ \A r \in puts'[w] \ {q} : Disjoint(q, r)
    BY <1>1, <1>2, <1>5 DEF Sound, Disjoint
<1> QED
    BY <1>1, <1>2, <1>6, <1>7 DEF Sound, Disjoint, Extent

\* The committed entry takes over its put's space.
LEMMA CommitSound ==
    ASSUME IInv, NEW w \in Writers, NEW p \in puts[w], Commit(w, p)
    PROVE  Sound(w)'
<1> DEFINE e == [off |-> p.off, blob |-> p.blob]
<1>1. Sound(w)
    BY AllSound DEF IInv
<1>2. /\ phase' = phase /\ tail' = tail
      /\ puts'[w] = puts[w] \ {p}
      /\ \A s \in Tiles : index'[s] = IF s = p.tile THEN e ELSE index[s]
    BY DEF Commit, WriteEntry, IInv, TypeOK
<1>3. Extent(e) = Extent(p) /\ e.off + BlobLen[e.blob] = p.off + BlobLen[p.blob]
    BY DEF Extent
<1>4. phase[w] = "open" /\ e.off + BlobLen[e.blob] <= tail[w]
    BY <1>1, <1>3 DEF Sound
<1>5. ASSUME NEW q \in puts'[w], NEW s \in Tiles, index'[s] # None
      PROVE  Disjoint(q, index'[s])
    BY <1>1, <1>2, <1>3, <1>5 DEF Sound, Disjoint
<1>6. \A s \in Tiles : index'[s] # None => index'[s].off + BlobLen[index'[s].blob] <= tail[w]
    BY <1>1, <1>2, <1>4 DEF Sound
<1> QED
    BY <1>1, <1>2, <1>4, <1>5, <1>6 DEF Sound, Disjoint, Extent

\* Fewer puts or fewer entries need no more space.
LEMMA LessSound ==
    ASSUME IInv, NEW w \in Writers, phase'[w] = phase[w], tail' = tail,
           puts'[w] \subseteq puts[w],
           \A s \in Tiles : index'[s] \in {None, index[s]}
    PROVE  Sound(w)'
BY AllSound DEF IInv, Sound, Disjoint, Extent

LEMMA RecoverSound ==
    ASSUME IInv, NEW w \in Writers, RecoverTail(w)
    PROVE  Sound(w)'
<1>1. PICK end \in {length} \cup IndexedEnds :
          /\ \A other \in {length} \cup IndexedEnds : other <= end
          /\ tail' = [tail EXCEPT ![w] = end]
    BY DEF RecoverTail
<1>2. puts'[w] = {} /\ index' = index
    BY AllSound DEF RecoverTail, IInv, Sound, fileVars
<1>3. tail'[w] = end
    BY <1>1 DEF IInv, TypeOK
<1>4. \A t \in Tiles : index[t] # None => index[t].off + BlobLen[index[t].blob] <= tail'[w]
    BY <1>1, <1>3 DEF IndexedEnds
<1> QED
    BY <1>2, <1>4 DEF Sound

LEMMA WriterSound ==
    ASSUME IInv, NEW v \in Writers, WriterNext(v), NEW w \in Writers
    PROVE  Sound(w)'
<1> USE DEF IInv, TypeOK, fileVars, writerVars
<1>1. CASE AcquireWriteLock(v)
  <2>1. phase[w] = "out" /\ puts[w] = {}
      BY <1>1, AllSound, Constants DEF AcquireWriteLock, LockHeld, Sound
  <2> QED
      BY <1>1, <2>1, OutIsSound DEF AcquireWriteLock
<1>2. CASE v # w /\ ~AcquireWriteLock(v)
  <2>1. phase[v] # "out"
      BY <1>2, AllSound DEF WriterNext, RecoverTail, SyncData, SyncIndex, Close, WriterCrash,
            Delete, Reserve, Sound
  <2>2. puts'[w] = puts[w] /\ phase'[w] = phase[w]
      BY <1>2 DEF WriterNext, RecoverTail, SyncData, SyncIndex, Close, WriterCrash,
            Delete, Reserve, WriteBlob, PutFails, Commit
  <2> QED
      BY <1>2, <2>1, <2>2, Others
<1>3. CASE v = w /\ RecoverTail(w)
    BY <1>3, RecoverSound
<1>4. CASE v = w /\ (SyncData(w) \/ SyncIndex(w))
    BY <1>4, AllSound DEF SyncData, SyncIndex, Sound, Disjoint, Extent
<1>5. CASE v = w /\ (Close(w) \/ WriterCrash(w))
    BY <1>5, OutIsSound DEF Close, WriterCrash
<1>6. ASSUME v = w, NEW t \in Tiles, Delete(w, t)
      PROVE  Sound(w)'
    BY <1>6, LessSound DEF Delete, WriteEntry
<1>7. ASSUME v = w, NEW t \in Tiles, NEW b \in Blobs, Reserve(w, b, t)
      PROVE  Sound(w)'
    BY <1>7, ReserveSound
<1>8. ASSUME v = w, NEW p \in puts[w], WriteBlob(w, p)
      PROVE  Sound(w)'
    BY <1>8, WriteSound
<1>9. ASSUME v = w, NEW p \in puts[w], PutFails(w, p)
      PROVE  Sound(w)'
    BY <1>9, LessSound DEF PutFails
<1>10. ASSUME v = w, NEW p \in puts[w], Commit(w, p)
       PROVE  Sound(w)'
    BY <1>10, CommitSound
<1> QED
    BY <1>1, <1>2, <1>3, <1>4, <1>5, <1>6, <1>7, <1>8, <1>9, <1>10 DEF WriterNext

LEMMA StepInv == IInv /\ [Next]_vars => IInv'
<1> SUFFICES ASSUME IInv, [Next]_vars PROVE IInv'
    OBVIOUS
<1>1. TypeOK' /\ LockHeld'
    BY TypeStep, LockStep DEF IInv
<1>2. ASSUME NEW w \in Writers PROVE Sound(w)'
  <2>1. CASE UNCHANGED vars
      BY <2>1, Quiet DEF vars, fileVars, writerVars
  <2>2. CASE \E v \in Writers : WriterNext(v)
      BY <2>2, WriterSound
  <2>3. CASE PackerNext
    <3>1. UNCHANGED <<index, phase, tail, puts>>
        BY <2>3 DEF PackerNext, PackerLocks, Capture, Validate, Reject, Reclaim, Ship, Published,
              PackerCrash, Punch, PackerFrame, writerVars
    <3> QED
        BY <3>1, Quiet
  <2>4. CASE ReaderNext
      BY <2>4, Quiet DEF ReaderNext, ReaderStarts, ReadEntry, ReadBlob, ReaderEnds, ReaderFrame,
              fileVars, writerVars
  <2>5. CASE HostCrash
      BY <2>5, OutIsSound DEF HostCrash
  <2> QED
      BY <2>1, <2>2, <2>3, <2>4, <2>5 DEF Next
<1> QED
    BY <1>1, <1>2, SoundAll DEF IInv

-----------------------------------------------------------------------------
\* Every reachable state is well typed: the tail and every entry stay within
\* the log (put_blob's checked reservation).
THEOREM TypesHold == Spec => []TypeOK
<1>1. Init => IInv
    BY InitInv
<1>2. IInv /\ [Next]_vars => IInv'
    BY StepInv
<1>3. IInv => TypeOK
    BY DEF IInv
<1> QED
    BY <1>1, <1>2, <1>3, PTL DEF Spec

\* Log space is never handed out twice: no put is given space that an entry
\* of the index or another put owns, whatever the writers, the packer and
\* any number of crashes of processes or of the host have done before
\* (TileStore::open's tail recovery, put_blob's reservation).
THEOREM SpaceIsOwnedOnce == Spec => []NoOverwrite
<1>1. Init => IInv
    BY InitInv
<1>2. IInv /\ [Next]_vars => IInv'
    BY StepInv
<1>3. IInv => NoOverwrite
    BY DEF IInv
<1> QED
    BY <1>1, <1>2, <1>3, PTL DEF Spec

-----------------------------------------------------------------------------
(***************************************************************************)
(* What a read of the store returns.                                       *)
(***************************************************************************)

\* What the page cache shows is among what a crash may leave.
DiskHolds ==
    /\ \A t \in Tiles : index[t] \in onDiskIndex[t]
    /\ \A u \in Units : data[u] \in onDiskData[u]
    /\ length \in onDiskLength

\* Past its end the log has never been written.
LogEnds == \A u \in Units : u >= length => onDiskData[u] = {None}

\* An open store reserves past the end of the log.
TailPastLength == \A w \in Writers : phase[w] \in {"open", "syncing"} => length <= tail[w]

\* A put's space holds its bytes or nothing, none of them synced; a written
\* one is there as a whole.
PutsOwn ==
    \A p \in InFlight :
        /\ \A u \in Extent(p) : onDiskData[u] \subseteq {p.blob, None} /\ None \in onDiskData[u]
        /\ p.step = "written" => ReadsWhole(p)

\* Every put writes a blob of its own.
Fresh ==
    /\ \A p \in InFlight :
        /\ p.blob \in put
        /\ \A q \in InFlight \ {p} : q.blob # p.blob
    /\ \A t \in Tiles : \A e \in onDiskIndex[t] \ {None} :
        e.blob \in put /\ \A p \in InFlight : e.blob # p.blob

\* Before the first host crash, an entry that one may bring back still owns
\* its space.
Recoverable ==
    crashes = 0 => \A t \in Tiles : \A e \in onDiskIndex[t] \ {None} :
        /\ e.off + BlobLen[e.blob] <= length
        /\ \A u \in Extent(e) : onDiskData[u] \subseteq {e.blob, None}
        /\ \A p \in InFlight : Disjoint(p, e)

IndexReads == CommittedIntact /\ (crashes <= 1 => NoAliasing)

FilesInv == DiskHolds /\ LogEnds /\ PutsOwn /\ Fresh /\ Recoverable /\ IndexReads

\* Who holds an entry holds the lock that keeps it.
Holders ==
    /\ packing # "out" => master = "packer"
    /\ reading # None => master = "reader"
    /\ packing \in {"captured", "valid", "punching", "shipping"} => captured = index
    /\ packing = "punching" => \A t \in Tiles : onDiskIndex[t] = {index[t]}

ReadInv == IInv /\ TailPastLength /\ FilesInv /\ Holders

-----------------------------------------------------------------------------
LEMMA InFlightTyped ==
    ASSUME TypeOK
    PROVE  /\ InFlight \subseteq Puts
           /\ \A p \in InFlight :
                /\ p.off \in Nat /\ p.blob \in Blobs /\ p.blob # None
                /\ BlobLen[p.blob] \in Nat /\ BlobLen[p.blob] > 0
                /\ p.off + BlobLen[p.blob] \in Nat
<1>1. InFlight \subseteq Puts
    BY DEF TypeOK, InFlight
<1>2. None \notin Blobs
    BY StoreAssumption DEF StoreAssumption
<1>3. ASSUME NEW p \in Puts
      PROVE  /\ p.off \in Nat /\ p.blob \in Blobs
             /\ BlobLen[p.blob] \in Nat /\ BlobLen[p.blob] > 0
    BY EntryOfPut
<1> QED
    BY <1>1, <1>2, <1>3

LEMMA OnDiskTyped ==
    ASSUME TypeOK
    PROVE  \A t \in Tiles : \A e \in onDiskIndex[t] \ {None} :
             /\ e \in Entries /\ e.off \in Nat /\ e.blob \in Blobs /\ e.blob # None
             /\ BlobLen[e.blob] \in Nat /\ BlobLen[e.blob] > 0
             /\ e.off + BlobLen[e.blob] \in Nat /\ e.off >= Header
             /\ e.off + BlobLen[e.blob] <= LogLimit
<1>1. \A t \in Tiles : \A e \in onDiskIndex[t] \ {None} : e \in Entries
    BY DEF TypeOK
<1>2. None \notin Blobs
    BY StoreAssumption DEF StoreAssumption
<1> QED
    BY <1>1, <1>2, EntryFields, Constants

\* A step of an open store leaves no other store's put in flight.
LEMMA OnlyPuts ==
    ASSUME IInv, NEW w \in Writers, phase[w] # "out"
    PROVE  InFlight = puts[w]
<1>1. \A v \in Writers \ {w} : puts[v] = {}
    BY OneWriter DEF IInv, PutsOfOpen
<1> QED
    BY <1>1 DEF InFlight

LEMMA PackerAlone ==
    ASSUME IInv, packing # "out"
    PROVE  InFlight = {}
<1>1. \A v \in Writers : puts[v] = {}
    BY Constants DEF IInv, LockHeld, PutsOfOpen
<1> QED
    BY <1>1 DEF InFlight

LEMMA InitReads == Init => ReadInv
<1> SUFFICES ASSUME Init PROVE ReadInv
    OBVIOUS
<1>1. IInv
    BY InitInv
<1>2. InFlight = {}
    BY DEF Init, InFlight
<1>3. TailPastLength
    BY DEF Init, TailPastLength
<1>4. DiskHolds /\ LogEnds /\ PutsOwn
    BY <1>2 DEF Init, DiskHolds, LogEnds, PutsOwn
<1>5. Fresh /\ Recoverable
    BY <1>2 DEF Init, Fresh, Recoverable
<1>6. IndexReads
    BY DEF Init, IndexReads, CommittedIntact, NoAliasing
<1>7. Holders
    BY DEF Init, Holders
<1> QED
    BY <1>1, <1>3, <1>4, <1>5, <1>6, <1>7 DEF ReadInv, FilesInv

-----------------------------------------------------------------------------
(* The steps that change the files, one lemma for each kind.               *)

\* The files as the page cache shows them stay: some values a crash might
\* have left are gone, and some puts have ended.
LEMMA StillFiles ==
    ASSUME ReadInv, UNCHANGED <<fileVars, put, crashes>>,
           InFlight' \subseteq InFlight,
           DiskHolds',
           \A t \in Tiles : onDiskIndex'[t] \subseteq onDiskIndex[t],
           \A u \in Units : onDiskData'[u] \subseteq onDiskData[u],
           InFlight' = {} \/ onDiskData' = onDiskData
    PROVE  FilesInv'
<1> USE DEF ReadInv, FilesInv, fileVars
<1>1. LogEnds'
    BY DEF LogEnds, DiskHolds
<1>2. PutsOwn'
    BY DEF PutsOwn, ReadsWhole
<1>3. Fresh'
    BY DEF Fresh
<1>4. Recoverable'
  <2>1. \A e : \A u \in Extent(e) : u \in Units
      BY DEF Extent
  <2> QED
      BY <2>1 DEF Recoverable, Disjoint
<1>5. IndexReads'
    BY DEF IndexReads, CommittedIntact, NoAliasing, ReadsWhole
<1> QED
    BY <1>1, <1>2, <1>3, <1>4, <1>5

\* put_blob's reservation, past the log's end and past every entry.
LEMMA ReserveFiles ==
    ASSUME ReadInv, NEW w \in Writers, NEW t \in Tiles, NEW b \in Blobs, Reserve(w, b, t)
    PROVE  FilesInv'
<1> DEFINE new == [off |-> tail[w], blob |-> b, tile |-> t, step |-> "reserved"]
<1> USE DEF ReadInv, FilesInv, IInv
<1>1. /\ UNCHANGED <<fileVars, diskVars, crashes>>
      /\ phase[w] = "open" /\ b \notin put /\ put' = put \cup {b}
      /\ InFlight = puts[w]
    BY OnlyPuts DEF Reserve, faultVars
<1>2. InFlight' = InFlight \cup {new}
  <2>1. /\ puts'[w] = puts[w] \cup {new}
        /\ \A v \in Writers \ {w} : puts'[v] = puts[v]
      BY DEF Reserve, TypeOK
  <2> QED
      BY <2>1 DEF InFlight
<1>3. tail[w] \in Nat /\ length \in Nat /\ length <= tail[w]
    BY <1>1, Constants DEF TypeOK, TailPastLength
<1>4. \A u \in Extent(new) : u \in Units /\ u >= length /\ onDiskData[u] = {None}
  <2>1. \A u \in Units : u \in Nat
      BY Constants DEF Units
  <2> QED
      BY <1>3, <2>1 DEF Extent, LogEnds
<1>5. DiskHolds' /\ LogEnds'
    BY <1>1 DEF DiskHolds, LogEnds, fileVars, diskVars
<1>6. PutsOwn'
  <2>1. ASSUME NEW p \in InFlight'
        PROVE  /\ \A u \in Extent(p) : onDiskData'[u] \subseteq {p.blob, None} /\ None \in onDiskData'[u]
               /\ p.step = "written" => ReadsWhole(p)'
    <3>1. CASE p \in InFlight
        BY <1>1, <3>1 DEF PutsOwn, ReadsWhole, fileVars, diskVars
    <3>2. CASE p = new
        BY <1>1, <1>4, <3>2 DEF diskVars
    <3> QED
        BY <1>2, <3>1, <3>2
  <2> QED
      BY <2>1 DEF PutsOwn
<1>7. Fresh'
  <2>1. \A p \in InFlight : p.blob \in put
      BY DEF Fresh
  <2>2. ASSUME NEW p \in InFlight'
        PROVE  p.blob \in put' /\ \A q \in InFlight' \ {p} : q.blob # p.blob
      BY <1>1, <1>2, <2>1 DEF Fresh
  <2>3. ASSUME NEW s \in Tiles, NEW e \in onDiskIndex'[s] \ {None}
        PROVE  e.blob \in put' /\ \A p \in InFlight' : e.blob # p.blob
      BY <1>1, <1>2 DEF Fresh, diskVars
  <2> QED
      BY <2>2, <2>3 DEF Fresh
<1>8. Recoverable'
  <2>1. ASSUME crashes' = 0, NEW s \in Tiles, NEW e \in onDiskIndex'[s] \ {None}
        PROVE  /\ e.off + BlobLen[e.blob] <= length'
               /\ \A u \in Extent(e) : onDiskData'[u] \subseteq {e.blob, None}
               /\ \A p \in InFlight' : Disjoint(p, e)
    <3>1. e \in onDiskIndex[s] \ {None} /\ crashes = 0
        BY <1>1, <2>1 DEF diskVars
    <3>2. e.off + BlobLen[e.blob] \in Nat /\ e.off + BlobLen[e.blob] <= length
        BY <3>1, OnDiskTyped DEF Recoverable
    <3>3. Disjoint(new, e)
        BY <1>3, <3>2, Before
    <3> QED
        BY <1>1, <1>2, <3>1, <3>3 DEF Recoverable, fileVars, diskVars
  <2> QED
      BY <2>1 DEF Recoverable, Disjoint
<1>9. IndexReads'
    BY <1>1 DEF IndexReads, CommittedIntact, NoAliasing, ReadsWhole, fileVars
<1> QED
    BY <1>5, <1>6, <1>7, <1>8, <1>9

\* What pwrite of a prefix of a put changes.
LEMMA WriteEffect ==
    ASSUME TypeOK, LogEnds, DiskHolds, NEW p \in Puts, NEW n \in 0 .. BlobLen[p.blob], WriteUnits(p, n)
    PROVE  /\ \A u \in Units :
                \/ data'[u] = data[u] /\ onDiskData'[u] = onDiskData[u]
                \/ /\ u \in Extent(p)
                   /\ data'[u] = p.blob /\ onDiskData'[u] = onDiskData[u] \cup {p.blob}
           /\ n = BlobLen[p.blob] =>
                /\ p.off + BlobLen[p.blob] <= length'
                /\ \A u \in Extent(p) : data'[u] = p.blob
           /\ length \in Nat /\ length' \in Nat
           /\ length <= length'
           /\ \A u \in Units : u >= length' => u >= length /\ onDiskData'[u] = onDiskData[u]
           /\ length' = length \/ (n > 0 /\ length' = p.off + n)
           /\ onDiskLength' = onDiskLength \cup {length'}
<1> DEFINE U == {u \in Extent(p) : u < p.off + n}
<1>1. /\ p.off \in Nat /\ BlobLen[p.blob] \in Nat /\ BlobLen[p.blob] > 0 /\ length \in Nat
      /\ n \in Nat
  <2>1. p.off \in Nat /\ BlobLen[p.blob] \in Nat /\ BlobLen[p.blob] > 0
      BY EntryOfPut
  <2>2. length \in Nat
      BY Constants DEF TypeOK
  <2> QED
      BY <2>1, <2>2
<1>2. \A u \in Units : u \in Nat
    BY Constants DEF Units
<1>3. /\ data' = [u \in Units |-> IF u \in U THEN p.blob ELSE data[u]]
      /\ onDiskData' = [u \in Units |-> IF u \in U THEN onDiskData[u] \cup {p.blob} ELSE onDiskData[u]]
      /\ length' = IF n > 0 /\ p.off + n > length THEN p.off + n ELSE length
      /\ onDiskLength' = onDiskLength \cup {length'}
    BY DEF WriteUnits
<1>4. length' \in Nat /\ length <= length' /\ (length' = length \/ (n > 0 /\ length' = p.off + n))
    BY <1>1, <1>3
<1>5. n > 0 => p.off + n <= length'
    BY <1>1, <1>3
<1>6. \A u \in U : u < length' /\ u \in Units
  <2>1. ASSUME NEW u \in U
        PROVE  u < length' /\ u \in Units
    <3>1. u \in Nat /\ u \in Units /\ p.off <= u /\ u < p.off + n
        BY <1>2 DEF Extent
    <3> QED
        BY <1>1, <1>4, <1>5, <3>1
  <2> QED
      BY <2>1
<1>7. \A u \in Units :
         \/ data'[u] = data[u] /\ onDiskData'[u] = onDiskData[u]
         \/ /\ u \in Extent(p)
            /\ data'[u] = p.blob /\ onDiskData'[u] = onDiskData[u] \cup {p.blob}
    BY <1>3
<1>8. n = BlobLen[p.blob] =>
         /\ p.off + BlobLen[p.blob] <= length'
         /\ \A u \in Extent(p) : data'[u] = p.blob
  <2>1. ASSUME n = BlobLen[p.blob], NEW u \in Extent(p)
        PROVE  u \in U /\ u \in Units
      BY <2>1 DEF Extent
  <2> QED
      BY <1>1, <1>3, <1>5, <2>1
<1>9. \A u \in Units : u >= length' => u >= length /\ onDiskData'[u] = onDiskData[u]
  <2>1. ASSUME NEW u \in Units, u >= length'
        PROVE  u >= length /\ u \notin U
      BY <1>1, <1>2, <1>4, <1>6, <2>1
  <2> QED
      BY <1>3, <2>1
<1> QED
    BY <1>1, <1>3, <1>4, <1>7, <1>8, <1>9

\* The bytes of a whole entry do not change under any put.
LEMMA WriteKeeps ==
    ASSUME IInv, LogEnds, DiskHolds, PutsOwn,
           NEW p \in InFlight, NEW n \in 0 .. BlobLen[p.blob], WriteUnits(p, n),
           NEW e, e.off + BlobLen[e.blob] \in Nat, e.blob # None, ReadsWhole(e)
    PROVE  ReadsWhole(e)'
<1>1. p \in Puts /\ p.blob # None
    BY InFlightTyped DEF IInv
<1>2. \A u \in Extent(e) : u \in Units
    BY DEF Extent
<1>3. e.off + BlobLen[e.blob] <= length'
    BY <1>1, WriteEffect DEF IInv, ReadsWhole
<1>4. ASSUME NEW u \in Extent(e)
      PROVE  data'[u] = e.blob
  <2>1. CASE data'[u] = data[u]
      BY <2>1 DEF ReadsWhole
  <2>2. CASE u \in Extent(p) /\ data'[u] = p.blob
    <3>1. data[u] \in {p.blob, None}
        BY <1>2, <2>2 DEF PutsOwn, DiskHolds
    <3>2. CASE e.blob = p.blob
        BY <2>2, <3>2
    <3> QED
        BY <3>1, <3>2 DEF ReadsWhole
  <2> QED
      BY <1>1, <1>2, <2>1, <2>2, WriteEffect DEF IInv
<1> QED
    BY <1>3, <1>4 DEF ReadsWhole

LEMMA WriteFiles ==
    ASSUME ReadInv, NEW p \in InFlight, NEW n \in 0 .. BlobLen[p.blob], WriteUnits(p, n),
           UNCHANGED <<index, onDiskIndex, put, crashes>>,
           InFlight' \subseteq (InFlight \ {p}) \cup {[p EXCEPT !.step = "written"]},
           n = BlobLen[p.blob] \/ InFlight' \subseteq InFlight \ {p}
    PROVE  FilesInv'
<1> DEFINE new == [p EXCEPT !.step = "written"]
<1> USE DEF ReadInv, FilesInv, IInv
<1>1. p \in Puts /\ p.blob # None
    BY InFlightTyped
<1>2. new.off = p.off /\ new.blob = p.blob /\ Extent(new) = Extent(p)
    BY <1>1 DEF Puts, Extent
<1>3. \A e : \A u \in Extent(e) : u \in Units
    BY DEF Extent
<1>4. ASSUME NEW e, Disjoint(p, e), NEW u \in Extent(e)
      PROVE  data'[u] = data[u] /\ onDiskData'[u] = onDiskData[u]
    BY <1>1, <1>3, <1>4, WriteEffect DEF Disjoint
<1>5. DiskHolds'
  <2>1. \A t \in Tiles : index'[t] \in onDiskIndex'[t]
      BY DEF DiskHolds
  <2>2. \A u \in Units : data'[u] \in onDiskData'[u]
      BY <1>1, WriteEffect DEF DiskHolds
  <2>3. length' \in onDiskLength'
      BY <1>1, WriteEffect
  <2> QED
      BY <2>1, <2>2, <2>3 DEF DiskHolds
<1>6. LogEnds'
  <2>1. \A u \in Units : u >= length' => onDiskData'[u] = {None}
      BY <1>1, WriteEffect DEF LogEnds
  <2> QED
      BY <2>1 DEF LogEnds
<1>7. PutsOwn'
  <2>1. ASSUME NEW q \in InFlight \ {p}
        PROVE  /\ \A u \in Extent(q) : onDiskData'[u] \subseteq {q.blob, None} /\ None \in onDiskData'[u]
               /\ q.step = "written" => ReadsWhole(q)'
    <3>1. Disjoint(p, q)
        BY DEF NoOverwrite
    <3>2. \A u \in Extent(q) : onDiskData'[u] \subseteq {q.blob, None} /\ None \in onDiskData'[u]
        BY <1>4, <3>1 DEF PutsOwn
    <3>3. ASSUME q.step = "written"
          PROVE  ReadsWhole(q)'
      <4>1. q.off + BlobLen[q.blob] \in Nat /\ q.blob # None
          BY InFlightTyped
      <4>2. ReadsWhole(q)
          BY <3>3 DEF PutsOwn
      <4> QED
          BY <4>1, <4>2, WriteKeeps
    <3> QED
        BY <3>2, <3>3
  <2>2. ASSUME n = BlobLen[p.blob]
        PROVE  /\ \A u \in Extent(new) : onDiskData'[u] \subseteq {new.blob, None} /\ None \in onDiskData'[u]
               /\ ReadsWhole(new)'
    <3>1. \A u \in Extent(p) : onDiskData[u] \subseteq {p.blob, None} /\ None \in onDiskData[u]
        BY DEF PutsOwn
    <3>2. \A u \in Extent(p) : onDiskData'[u] \subseteq {p.blob, None} /\ None \in onDiskData'[u]
        BY <1>1, <1>3, <3>1, WriteEffect
    <3>3. p.off + BlobLen[p.blob] <= length' /\ \A u \in Extent(p) : data'[u] = p.blob
        BY <1>1, <2>2, WriteEffect
    <3>4. ReadsWhole(new)'
        BY <1>2, <3>3 DEF ReadsWhole
    <3> QED
        BY <1>2, <3>2, <3>4
  <2> QED
      BY <2>1, <2>2 DEF PutsOwn
<1>8. Fresh'
  <2>1. \A q \in InFlight' : \E r \in InFlight : /\ q.blob = r.blob
                                                 /\ q = r \/ (r = p /\ q = new)
      BY <1>2
  <2>2. ASSUME NEW q \in InFlight'
        PROVE  q.blob \in put' /\ \A r \in InFlight' \ {q} : r.blob # q.blob
    <3>1. q.blob \in put'
        BY <2>1 DEF Fresh
    <3>2. ASSUME NEW r \in InFlight' \ {q}
          PROVE  r.blob # q.blob
      <4>1. CASE q \in InFlight \ {p} /\ r \in InFlight \ {p}
          BY <4>1 DEF Fresh
      <4>2. CASE q = new /\ r \in InFlight \ {p}
          BY <1>2, <4>2 DEF Fresh
      <4>3. CASE r = new /\ q \in InFlight \ {p}
          BY <1>2, <4>3 DEF Fresh
      <4> QED
          BY <4>1, <4>2, <4>3
    <3> QED
        BY <3>1, <3>2
  <2>3. ASSUME NEW t \in Tiles, NEW e \in onDiskIndex'[t] \ {None}
        PROVE  e.blob \in put' /\ \A q \in InFlight' : e.blob # q.blob
      BY <2>1 DEF Fresh
  <2> QED
      BY <2>2, <2>3 DEF Fresh
<1>9. Recoverable'
  <2>1. ASSUME crashes' = 0, NEW t \in Tiles, NEW e \in onDiskIndex'[t] \ {None}
        PROVE  /\ e.off + BlobLen[e.blob] <= length'
               /\ \A u \in Extent(e) : onDiskData'[u] \subseteq {e.blob, None}
               /\ \A q \in InFlight' : Disjoint(q, e)
    <3>1. /\ e.off + BlobLen[e.blob] <= length
          /\ \A u \in Extent(e) : onDiskData[u] \subseteq {e.blob, None}
          /\ \A q \in InFlight : Disjoint(q, e)
        BY <2>1 DEF Recoverable
    <3>2. e.off + BlobLen[e.blob] \in Nat
        BY OnDiskTyped
    <3>3. length \in Nat /\ length' \in Nat /\ length <= length'
        BY <1>1, WriteEffect
    <3>4. \A u \in Extent(e) : onDiskData'[u] = onDiskData[u]
        BY <1>4, <3>1
    <3>5. \A q \in InFlight' : Disjoint(q, e)
        BY <1>2, <3>1 DEF Disjoint
    <3> QED
        BY <3>1, <3>2, <3>3, <3>4, <3>5
  <2> QED
      BY <2>1 DEF Recoverable, Disjoint
<1>10. CommittedIntact'
  <2>1. ASSUME crashes' = 0, NEW t \in Tiles, index'[t] # None
        PROVE  ReadsWhole(index[t])'
    <3>1. index[t] # None /\ ReadsWhole(index[t]) /\ index' = index
        BY <2>1 DEF IndexReads, CommittedIntact
    <3>2. PICK e \in Entries : e = index[t]
        BY <3>1 DEF TypeOK
    <3>3. e.off + BlobLen[e.blob] \in Nat /\ e.blob # None
        BY <3>2, EntryFields, StoreAssumption DEF StoreAssumption
    <3>4. ReadsWhole(e)'
        BY <3>1, <3>2, <3>3, WriteKeeps
    <3> QED
        BY <3>1, <3>2, <3>4 DEF ReadsWhole
  <2> QED
      BY <2>1 DEF CommittedIntact, ReadsWhole
<1>11. (crashes <= 1 => NoAliasing)'
  <2>1. ASSUME crashes' <= 1, NEW t \in Tiles, index'[t] # None, NEW u \in Extent(index[t])
        PROVE  data'[u] \in {index[t].blob, None}
    <3>1. Disjoint(p, index[t])
        BY <2>1 DEF NoOverwrite
    <3> QED
        BY <1>4, <2>1, <3>1 DEF IndexReads, NoAliasing
  <2> QED
      BY <2>1 DEF NoAliasing
<1> QED
    BY <1>5, <1>6, <1>7, <1>8, <1>9, <1>10, <1>11 DEF IndexReads

\* A committed entry is whole, and owns the space that was its put's.
LEMMA CommitFiles ==
    ASSUME ReadInv, NEW w \in Writers, NEW p \in puts[w], Commit(w, p)
    PROVE  FilesInv'
<1> DEFINE e == [off |-> p.off, blob |-> p.blob]
<1> USE DEF ReadInv, FilesInv, IInv
<1>1. phase[w] # "out" /\ p \in InFlight /\ InFlight = puts[w]
  <2>1. phase[w] = "open"
      BY DEF PutsOfOpen
  <2> QED
      BY <2>1, OnlyPuts
<1>2. /\ UNCHANGED <<data, length, onDiskData, onDiskLength, put, crashes>>
      /\ InFlight' \subseteq InFlight \ {p}
      /\ \A s \in Tiles : index'[s] = IF s = p.tile THEN e ELSE index[s]
      /\ \A s \in Tiles : onDiskIndex'[s] = IF s = p.tile THEN onDiskIndex[s] \cup {e} ELSE onDiskIndex[s]
  <2>1. InFlight' \subseteq InFlight \ {p}
    <3>1. puts'[w] = puts[w] \ {p} /\ \A v \in Writers \ {w} : puts'[v] = puts[v] /\ puts[v] = {}
        BY <1>1, OneWriter DEF Commit, TypeOK, PutsOfOpen
    <3> QED
        BY <1>1, <3>1 DEF InFlight
  <2> QED
      BY <2>1 DEF Commit, WriteEntry, TypeOK, faultVars
<1>3. ReadsWhole(p) /\ \A u \in Extent(p) : onDiskData[u] \subseteq {p.blob, None}
    BY <1>1 DEF Commit, PutsOwn
<1>4. Extent(e) = Extent(p) /\ e.off = p.off /\ e.blob = p.blob
    BY DEF Extent
<1>5. ReadsWhole(e)
    BY <1>3, <1>4 DEF ReadsWhole
<1>12. \A s \in Tiles : \A f \in onDiskIndex'[s] : f = e \/ f \in onDiskIndex[s]
  <2>1. \A s \in Tiles : onDiskIndex'[s] \subseteq onDiskIndex[s] \cup {e}
      BY DEF Commit, WriteEntry, TypeOK
  <2> QED
      BY <2>1
<1> HIDE DEF e
<1>6. DiskHolds' /\ LogEnds'
    BY <1>2 DEF DiskHolds, LogEnds
<1>7. PutsOwn'
    BY <1>2 DEF PutsOwn, ReadsWhole
<1>8. Fresh'
  <2>1. p.blob \in put /\ \A q \in InFlight' : p.blob # q.blob
      BY <1>1, <1>2 DEF Fresh
  <2>2. ASSUME NEW s \in Tiles, NEW f \in onDiskIndex'[s] \ {None}
        PROVE  f.blob \in put' /\ \A q \in InFlight' : f.blob # q.blob
    <3>1. CASE f = e
        BY <1>2, <1>4, <2>1, <3>1
    <3>2. CASE f \in onDiskIndex[s] \ {None}
        BY <1>2, <3>2 DEF Fresh
    <3> QED
        BY <1>12, <3>1, <3>2
  <2>3. \A q \in InFlight' : q.blob \in put' /\ \A r \in InFlight' \ {q} : r.blob # q.blob
      BY <1>2 DEF Fresh
  <2> QED
      BY <2>2, <2>3 DEF Fresh
<1>9. Recoverable'
  <2>1. ASSUME NEW q \in InFlight'
        PROVE  Disjoint(q, e)
      BY <1>1, <1>2, <1>4 DEF NoOverwrite, Disjoint
  <2>2. e.off + BlobLen[e.blob] <= length /\ \A u \in Extent(e) : onDiskData[u] \subseteq {e.blob, None}
      BY <1>3, <1>4 DEF ReadsWhole
  <2>3. ASSUME crashes' = 0, NEW s \in Tiles, NEW f \in onDiskIndex'[s] \ {None}
        PROVE  /\ f.off + BlobLen[f.blob] <= length'
               /\ \A u \in Extent(f) : onDiskData'[u] \subseteq {f.blob, None}
               /\ \A q \in InFlight' : Disjoint(q, f)
    <3>1. CASE f = e
        BY <1>2, <2>1, <2>2, <3>1
    <3>2. CASE f \in onDiskIndex[s] \ {None}
        BY <1>2, <2>3, <3>2 DEF Recoverable
    <3> QED
        BY <1>12, <3>1, <3>2
  <2> QED
      BY <2>3 DEF Recoverable, Disjoint
<1>10. CommittedIntact'
  <2>1. ASSUME crashes' = 0, NEW s \in Tiles, index'[s] # None
        PROVE  ReadsWhole(index'[s])
      BY <1>2, <1>5, <2>1 DEF IndexReads, CommittedIntact
  <2> QED
      BY <1>2, <2>1 DEF CommittedIntact, ReadsWhole
<1>11. (crashes <= 1 => NoAliasing)'
  <2>1. ASSUME crashes' <= 1, NEW s \in Tiles, index'[s] # None, NEW u \in Extent(index'[s])
        PROVE  data'[u] \in {index'[s].blob, None}
      BY <1>2, <1>5, <2>1 DEF IndexReads, NoAliasing, ReadsWhole
  <2> QED
      BY <2>1 DEF NoAliasing
<1> QED
    BY <1>6, <1>7, <1>8, <1>9, <1>10, <1>11 DEF IndexReads

LEMMA DeleteFiles ==
    ASSUME ReadInv, NEW w \in Writers, NEW t \in Tiles, Delete(w, t)
    PROVE  FilesInv'
<1> USE DEF ReadInv, FilesInv, IInv
<1>1. /\ UNCHANGED <<data, length, onDiskData, onDiskLength, puts, put, crashes>>
      /\ InFlight' = InFlight
      /\ \A s \in Tiles : index'[s] = IF s = t THEN None ELSE index[s]
      /\ \A s \in Tiles : onDiskIndex'[s] \ {None} = onDiskIndex[s] \ {None}
      /\ \A s \in Tiles : index'[s] \in onDiskIndex'[s]
    BY DEF Delete, WriteEntry, TypeOK, writerVars, faultVars, InFlight, DiskHolds
<1>2. DiskHolds' /\ LogEnds'
    BY <1>1 DEF DiskHolds, LogEnds
<1>3. PutsOwn'
    BY <1>1 DEF PutsOwn, ReadsWhole
<1>4. Fresh'
    BY <1>1 DEF Fresh
<1>5. Recoverable'
    BY <1>1 DEF Recoverable, Disjoint
<1>6. IndexReads'
    BY <1>1 DEF IndexReads, CommittedIntact, NoAliasing, ReadsWhole
<1> QED
    BY <1>2, <1>3, <1>4, <1>5, <1>6

\* A punched block holds no byte of an indexed tile, and no put is in flight.
LEMMA PunchFiles ==
    ASSUME ReadInv, NEW k \in Blocks, Punch(k)
    PROVE  FilesInv'
<1> DEFINE Whole == (k * Block) .. (k * Block + Block - 1)
<1> USE DEF ReadInv, FilesInv, IInv
<1>1. /\ UNCHANGED <<index, length, onDiskIndex, onDiskLength, puts, put, crashes>>
      /\ \A u \in Units : \/ data'[u] = data[u] /\ onDiskData'[u] = onDiskData[u]
                          \/ /\ u \in Whole
                             /\ data'[u] = None /\ onDiskData'[u] = onDiskData[u] \cup {None}
    BY DEF Punch, PackerFrame, writerVars, faultVars
<1>2. Whole \subseteq Header .. (length - 1) /\ \A t \in Tiles : index[t] # None => Whole \cap Extent(index[t]) = {}
    BY DEF Punch, Dead
<1>3. InFlight' = {}
    BY <1>1, PackerAlone DEF Punch, InFlight
<1>4. \A e : \A u \in Extent(e) : u \in Units
    BY DEF Extent
<1>5. ASSUME NEW t \in Tiles, index[t] # None, NEW u \in Extent(index[t])
      PROVE  data'[u] = data[u]
    BY <1>1, <1>2, <1>4, <1>5
<1>6. LogEnds'
  <2>1. \A u \in Units : u >= length => u \notin Whole
    <3>1. length \in Nat /\ \A u \in Units : u \in Nat
        BY Constants DEF TypeOK, Units
    <3> QED
        BY <1>2, <3>1
  <2>2. \A u \in Units : u >= length => onDiskData'[u] = onDiskData[u]
      BY <1>1, <2>1
  <2> QED
      BY <1>1, <2>2 DEF LogEnds
<1>7. DiskHolds'
    BY <1>1 DEF DiskHolds
<1>8. PutsOwn'
    BY <1>3 DEF PutsOwn
<1>9. Fresh'
    BY <1>1, <1>3 DEF Fresh
<1>10. Recoverable'
    BY <1>1, <1>3, <1>4 DEF Recoverable
<1>11. CommittedIntact'
    BY <1>1, <1>5 DEF IndexReads, CommittedIntact, ReadsWhole
<1>12. (crashes <= 1 => NoAliasing)'
    BY <1>1, <1>5 DEF IndexReads, NoAliasing
<1> QED
    BY <1>6, <1>7, <1>8, <1>9, <1>10, <1>11, <1>12 DEF IndexReads

\* The first crash of the host brings back entries that still own their
\* space.
LEMMA CrashFiles ==
    ASSUME ReadInv, HostCrash
    PROVE  FilesInv'
<1> USE DEF ReadInv, FilesInv, IInv
<1>1. /\ crashes' = crashes + 1 /\ crashes \in Nat
      /\ InFlight' = {}
      /\ \A t \in Tiles : index'[t] \in onDiskIndex[t] /\ onDiskIndex'[t] = {index'[t]}
      /\ \A u \in Units : onDiskData'[u] = {data'[u]}
      /\ onDiskLength' = {length'}
      /\ put' = put
  <2>1. InFlight' = {}
      BY DEF HostCrash, InFlight
  <2> QED
      BY <2>1, Constants DEF HostCrash, TypeOK
<1>2. PICK d \in [Volatile -> UNION {onDiskData[u] : u \in Volatile}], n \in onDiskLength :
          /\ \A u \in Volatile : d[u] \in onDiskData[u]
          /\ length' = n
          /\ data' = [u \in Units |-> IF u >= n THEN None
                                    ELSE IF u \in Volatile THEN d[u] ELSE data[u]]
    BY DEF HostCrash
<1>3. \A u \in Units : data'[u] \in onDiskData[u] \cup {None}
    BY <1>2 DEF DiskHolds
<1>4. DiskHolds'
    BY <1>1 DEF DiskHolds
<1>5. LogEnds'
    BY <1>1, <1>2 DEF LogEnds
<1>6. PutsOwn'
    BY <1>1 DEF PutsOwn
<1>7. Fresh'
  <2>1. ASSUME NEW t \in Tiles, NEW e \in onDiskIndex'[t] \ {None}
        PROVE  e.blob \in put'
      BY <1>1 DEF Fresh
  <2> QED
      BY <1>1, <2>1 DEF Fresh
<1>8. crashes' # 0
    BY <1>1
<1>9. Recoverable' /\ CommittedIntact'
    BY <1>8 DEF Recoverable, CommittedIntact
<1>10. (crashes <= 1 => NoAliasing)'
  <2>1. ASSUME crashes' <= 1, NEW t \in Tiles, index'[t] # None, NEW u \in Extent(index'[t])
        PROVE  data'[u] \in {index'[t].blob, None}
    <3>1. crashes = 0
        BY <1>1, <2>1
    <3>2. onDiskData[u] \subseteq {index'[t].blob, None}
        BY <1>1, <2>1, <3>1 DEF Recoverable
    <3> QED
        BY <1>3, <3>2 DEF Extent
  <2> QED
      BY <2>1 DEF NoAliasing
<1> QED
    BY <1>4, <1>5, <1>6, <1>7, <1>9, <1>10 DEF IndexReads

-----------------------------------------------------------------------------
(* The steps, by process.                                                  *)

\* A step that leaves the files and their dirty pages alone.
LEMMA QuietFiles ==
    ASSUME ReadInv, UNCHANGED <<fileVars, diskVars, put, crashes>>, InFlight' \subseteq InFlight
    PROVE  FilesInv'
<1>1. DiskHolds'
    BY DEF ReadInv, FilesInv, DiskHolds, fileVars, diskVars
<1> QED
    BY <1>1, StillFiles DEF diskVars

LEMMA WriterFiles ==
    ASSUME ReadInv, NEW w \in Writers, WriterNext(w)
    PROVE  FilesInv'
<1> USE DEF ReadInv, FilesInv, IInv
<1>1. ASSUME puts' = puts \/ puts' = [puts EXCEPT ![w] = {}]
      PROVE  InFlight' \subseteq InFlight
    BY <1>1 DEF InFlight, TypeOK
<1>2. CASE AcquireWriteLock(w) \/ RecoverTail(w) \/ Close(w) \/ WriterCrash(w)
  <2>1. /\ UNCHANGED <<fileVars, diskVars, put, crashes>>
        /\ puts' = puts \/ puts' = [puts EXCEPT ![w] = {}]
      BY <1>2 DEF AcquireWriteLock, RecoverTail, Close, WriterCrash, faultVars
  <2> QED
      BY <1>1, <2>1, QuietFiles
<1>3. CASE SyncData(w)
  <2>1. /\ UNCHANGED <<fileVars, onDiskIndex, puts, put, crashes>>
        /\ FsyncData /\ InFlight = {}
      BY <1>3, OnlyPuts DEF SyncData, faultVars
  <2>2. /\ \A u \in Units : onDiskData'[u] = {data[u]}
        /\ onDiskLength' = {length}
      BY <2>1 DEF FsyncData
  <2>3. DiskHolds'
      BY <2>1, <2>2 DEF DiskHolds, fileVars
  <2>4. \A u \in Units : onDiskData'[u] \subseteq onDiskData[u]
      BY <2>2 DEF DiskHolds
  <2>5. InFlight' = InFlight
      BY <2>1 DEF InFlight
  <2> QED
      BY <2>1, <2>3, <2>4, <2>5, StillFiles
<1>4. CASE SyncIndex(w)
  <2>1. /\ UNCHANGED <<fileVars, onDiskData, onDiskLength, puts, put, crashes>>
        /\ \A t \in Tiles : onDiskIndex'[t] = {index[t]}
      BY <1>4 DEF SyncIndex, FsyncIndex, faultVars
  <2>2. DiskHolds'
      BY <2>1 DEF DiskHolds, fileVars
  <2>3. \A t \in Tiles : onDiskIndex'[t] \subseteq onDiskIndex[t]
      BY <2>1 DEF DiskHolds
  <2>4. InFlight' = InFlight
      BY <2>1 DEF InFlight
  <2> QED
      BY <2>1, <2>2, <2>3, <2>4, StillFiles
<1>5. ASSUME NEW p \in puts[w], WriteBlob(w, p) \/ PutFails(w, p)
      PROVE  FilesInv'
  <2> DEFINE new == [p EXCEPT !.step = "written"]
  <2>1. p \in InFlight /\ p \in Puts
      BY DEF InFlight, TypeOK
  <2>2. phase[w] = "open"
      BY DEF PutsOfOpen
  <2>3. InFlight = puts[w] /\ \A v \in Writers \ {w} : puts[v] = {}
      BY <2>2, OnlyPuts, OneWriter DEF PutsOfOpen
  <2>4. UNCHANGED <<index, onDiskIndex, put, crashes>>
      BY <1>5 DEF WriteBlob, PutFails, faultVars
  <2>5. CASE WriteBlob(w, p)
    <3>1. puts'[w] = (puts[w] \ {p}) \cup {new} /\ \A v \in Writers \ {w} : puts'[v] = puts[v]
        BY <2>5 DEF WriteBlob, TypeOK
    <3>2. InFlight' \subseteq (InFlight \ {p}) \cup {new}
        BY <2>3, <3>1 DEF InFlight
    <3>3. BlobLen[p.blob] \in 0 .. BlobLen[p.blob] /\ WriteUnits(p, BlobLen[p.blob])
        BY <2>1, <2>5, EntryOfPut DEF WriteBlob
    <3> QED
        BY <2>1, <2>4, <3>2, <3>3, WriteFiles
  <2>6. CASE PutFails(w, p)
    <3>1. puts'[w] = puts[w] \ {p} /\ \A v \in Writers \ {w} : puts'[v] = puts[v]
        BY <2>6 DEF PutFails, TypeOK
    <3>2. InFlight' \subseteq InFlight \ {p}
        BY <2>3, <3>1 DEF InFlight
    <3>3. PICK n \in 0 .. (BlobLen[p.blob] - 1) : WriteUnits(p, n)
        BY <2>6 DEF PutFails
    <3>4. n \in 0 .. BlobLen[p.blob]
        BY <2>1, EntryOfPut
    <3> QED
        BY <2>1, <2>4, <3>2, <3>3, <3>4, WriteFiles
  <2> QED
      BY <1>5, <2>5, <2>6
<1>6. ASSUME NEW t \in Tiles, NEW b \in Blobs, Reserve(w, b, t)
      PROVE  FilesInv'
    BY <1>6, ReserveFiles
<1>7. ASSUME NEW t \in Tiles, Delete(w, t)
      PROVE  FilesInv'
    BY <1>7, DeleteFiles
<1>8. ASSUME NEW p \in puts[w], Commit(w, p)
      PROVE  FilesInv'
    BY <1>8, CommitFiles
<1> QED
    BY <1>2, <1>3, <1>4, <1>5, <1>6, <1>7, <1>8 DEF WriterNext

LEMMA PackerFiles ==
    ASSUME ReadInv, PackerNext
    PROVE  FilesInv'
<1> USE DEF ReadInv, FilesInv, IInv
<1>1. ASSUME puts' = puts
      PROVE  InFlight' = InFlight
    BY <1>1 DEF InFlight
<1>2. CASE PackerLocks \/ Capture \/ Validate \/ Reject \/ Published \/ PackerCrash
  <2>1. UNCHANGED <<fileVars, diskVars, puts, put, crashes>>
      BY <1>2 DEF PackerLocks, Capture, Validate, Reject, Published, PackerCrash, PackerFrame,
            fileVars, diskVars, writerVars, faultVars
  <2> QED
      BY <1>1, <2>1, QuietFiles
<1>3. CASE Reclaim \/ Ship
  <2>1. /\ UNCHANGED <<fileVars, puts, put, crashes>>
        /\ packing # "out"
      BY <1>3 DEF Reclaim, Ship, fileVars, writerVars, faultVars
  <2>2. \A u \in Units : onDiskData'[u] = onDiskData[u] \/ onDiskData'[u] = {data[u]}
      BY <1>3 DEF Reclaim, Ship, FsyncData
  <2>3. onDiskLength' = onDiskLength \/ onDiskLength' = {length}
      BY <1>3 DEF Reclaim, Ship, FsyncData
  <2>4. \A t \in Tiles : onDiskIndex'[t] = onDiskIndex[t] \/ onDiskIndex'[t] = {index[t]}
      BY <1>3 DEF Reclaim, Ship, FsyncIndex
  <2>5. DiskHolds'
      BY <2>1, <2>2, <2>3, <2>4 DEF DiskHolds, fileVars
  <2>6. \A t \in Tiles : onDiskIndex'[t] \subseteq onDiskIndex[t]
      BY <2>4 DEF DiskHolds
  <2>7. \A u \in Units : onDiskData'[u] \subseteq onDiskData[u]
      BY <2>2 DEF DiskHolds
  <2>8. InFlight' = {} /\ InFlight = {}
      BY <1>1, <2>1, PackerAlone
  <2> QED
      BY <2>1, <2>5, <2>6, <2>7, <2>8, StillFiles
<1>4. ASSUME NEW k \in Blocks, Punch(k)
      PROVE  FilesInv'
    BY <1>4, PunchFiles
<1> QED
    BY <1>2, <1>3, <1>4 DEF PackerNext

LEMMA ReaderFiles ==
    ASSUME ReadInv, ReaderNext
    PROVE  FilesInv'
<1>1. UNCHANGED <<fileVars, diskVars, puts, put, crashes>>
    BY DEF ReaderNext, ReaderStarts, ReadEntry, ReadBlob, ReaderEnds, ReaderFrame, writerVars, faultVars
<1>2. InFlight' = InFlight
    BY <1>1 DEF InFlight
<1> QED
    BY <1>1, <1>2, QuietFiles

\* The log grows under a reserved put alone, and never past the tail.
LEMMA TailStep ==
    ASSUME ReadInv, [Next]_vars
    PROVE  TailPastLength'
<1> USE DEF ReadInv, IInv, TailPastLength
<1>1. CASE UNCHANGED <<length, phase, tail>>
    BY <1>1
<1>2. ASSUME NEW w \in Writers, WriterNext(w)
      PROVE  TailPastLength'
  <2>1. CASE AcquireWriteLock(w)
      BY <2>1 DEF AcquireWriteLock, fileVars, TypeOK
  <2>2. CASE RecoverTail(w)
    <3>1. PICK end \in {length} \cup IndexedEnds :
              /\ \A other \in {length} \cup IndexedEnds : other <= end
              /\ tail' = [tail EXCEPT ![w] = end]
        BY <2>2 DEF RecoverTail
    <3>2. length <= tail'[w] /\ length' = length
        BY <2>2, <3>1 DEF RecoverTail, fileVars, TypeOK
    <3> QED
        BY <2>2, <3>1, <3>2 DEF RecoverTail, TypeOK
  <2>3. CASE SyncData(w) \/ SyncIndex(w)
      BY <2>3 DEF SyncData, SyncIndex, fileVars, TypeOK
  <2>4. CASE Close(w) \/ WriterCrash(w)
      BY <2>4 DEF Close, WriterCrash, fileVars, TypeOK
  <2>5. ASSUME NEW t \in Tiles, NEW b \in Blobs, Reserve(w, b, t)
        PROVE  TailPastLength'
    <3>1. tail'[w] = tail[w] + BlobLen[b] /\ tail[w] <= tail'[w] /\ length' = length /\ phase' = phase
        BY <2>5, Constants DEF Reserve, fileVars, TypeOK
    <3>2. length \in Nat /\ tail[w] \in Nat /\ tail'[w] \in Nat
        BY <3>1, Constants DEF TypeOK
    <3>3. \A v \in Writers \ {w} : tail'[v] = tail[v]
        BY <2>5 DEF Reserve, TypeOK
    <3> QED
        BY <3>1, <3>2, <3>3
  <2>6. ASSUME NEW p \in puts[w], WriteBlob(w, p) \/ PutFails(w, p)
        PROVE  TailPastLength'
    <3>1. phase[w] = "open" /\ phase' = phase /\ tail' = tail
        BY <2>6 DEF PutsOfOpen, WriteBlob, PutFails
    <3>2. \A v \in Writers \ {w} : phase[v] = "out"
        BY <3>1, OneWriter
    <3>3. p \in Puts
        BY DEF TypeOK
    <3>4. PICK n \in 0 .. BlobLen[p.blob] : WriteUnits(p, n)
        BY <2>6, <3>3, EntryOfPut DEF WriteBlob, PutFails
    <3>5. length' = length \/ length' = p.off + n
        BY <3>4 DEF WriteUnits
    <3>6. p.off + BlobLen[p.blob] <= tail[w] /\ length <= tail[w]
        BY <3>1 DEF TailPastAll
    <3>7. p.off \in Nat /\ BlobLen[p.blob] \in Nat
        BY <3>3, EntryOfPut
    <3>8. tail[w] \in Nat
        BY Constants DEF TypeOK
    <3>9. length' <= tail[w]
        BY <3>5, <3>6, <3>7, <3>8
    <3> QED
        BY <3>1, <3>2, <3>9
  <2>7. CASE \E t \in Tiles : Delete(w, t)
      BY <1>1, <2>7 DEF Delete, writerVars
  <2>8. CASE \E p \in puts[w] : Commit(w, p)
      BY <1>1, <2>8 DEF Commit
  <2> QED
      BY <1>2, <2>1, <2>2, <2>3, <2>4, <2>5, <2>6, <2>7, <2>8 DEF WriterNext
<1>3. CASE PackerNext
    BY <1>1, <1>3 DEF PackerNext, PackerLocks, Capture, Validate, Reject, Reclaim, Ship, Published,
          PackerCrash, Punch, PackerFrame, writerVars
<1>4. CASE ReaderNext
    BY <1>1, <1>4 DEF ReaderNext, ReaderStarts, ReadEntry, ReadBlob, ReaderEnds, ReaderFrame,
          fileVars, writerVars
<1>5. CASE HostCrash
    BY <1>5 DEF HostCrash
<1>6. CASE UNCHANGED vars
    BY <1>1, <1>6 DEF vars, fileVars, writerVars
<1> QED
    BY <1>2, <1>3, <1>4, <1>5, <1>6 DEF Next

\* A step of a writer that changes the index finds the packer out.
LEMMA WriterHolders ==
    ASSUME ReadInv, NEW w \in Writers, WriterNext(w)
    PROVE  /\ UNCHANGED <<packing, captured, master, reading>>
           /\ packing # "out" => UNCHANGED <<index, onDiskIndex>>
<1> USE DEF ReadInv, IInv
<1>1. UNCHANGED <<packing, captured, master, reading>>
    BY DEF WriterNext, AcquireWriteLock, RecoverTail, SyncData, SyncIndex, Close, WriterCrash,
        Delete, Reserve, WriteBlob, PutFails, Commit, packVars
<1>2. CASE AcquireWriteLock(w)
    BY <1>1, <1>2 DEF AcquireWriteLock, fileVars, diskVars
<1>3. CASE ~AcquireWriteLock(w)
  <2>1. phase[w] # "out"
      BY <1>3 DEF PutsOfOpen, WriterNext, RecoverTail, SyncData, SyncIndex, Close, WriterCrash,
          Delete, Reserve
  <2>2. packing = "out"
      BY <2>1, Constants DEF LockHeld
  <2> QED
      BY <1>1, <2>2
<1> QED
    BY <1>2, <1>3

LEMMA HoldersStep ==
    ASSUME ReadInv, [Next]_vars
    PROVE  Holders'
<1> USE DEF ReadInv, Holders
<1>1. CASE UNCHANGED vars
    BY <1>1 DEF vars, fileVars, diskVars, packVars
<1>2. ASSUME NEW w \in Writers, WriterNext(w)
      PROVE  Holders'
    BY <1>2, WriterHolders
<1>3. CASE PackerNext
  <2>1. CASE PackerLocks
      BY <2>1, StoreAssumption DEF StoreAssumption, PackerLocks, PackerFrame
  <2>2. CASE Capture
      BY <2>2 DEF Capture, PackerFrame
  <2>3. CASE Validate
      BY <2>3 DEF Validate, PackerFrame
  <2>4. CASE Reject \/ Published \/ PackerCrash
    <3>1. packing # "out" /\ packing' = "out" /\ master' = None /\ reading' = reading
        BY <2>4 DEF Reject, Published, PackerCrash, PackerOut, PackerFrame
    <3>2. reading = None
        BY <3>1
    <3> QED
        BY <3>1, <3>2
  <2>5. CASE Reclaim
      BY <2>5 DEF Reclaim, FsyncIndex
  <2>6. CASE Ship
      BY <2>6 DEF Ship
  <2>7. ASSUME NEW k \in Blocks, Punch(k)
        PROVE  Holders'
      BY <2>7 DEF Punch, PackerFrame
  <2> QED
      BY <1>3, <2>1, <2>2, <2>3, <2>4, <2>5, <2>6, <2>7 DEF PackerNext
<1>4. CASE ReaderNext
  <2>1. UNCHANGED <<index, onDiskIndex, packing, captured>>
      BY <1>4 DEF ReaderNext, ReaderStarts, ReadEntry, ReadBlob, ReaderEnds, ReaderFrame,
          fileVars, diskVars, packVars
  <2>2. packing # "out" => master' = master
      BY <1>4, StoreAssumption DEF StoreAssumption, ReaderNext, ReaderStarts, ReadEntry, ReadBlob, ReaderEnds
  <2>3. reading' # None => master' = "reader"
      BY <1>4 DEF ReaderNext, ReaderStarts, ReadEntry, ReadBlob, ReaderEnds
  <2> QED
      BY <2>1, <2>2, <2>3
<1>5. CASE HostCrash
    BY <1>5 DEF HostCrash
<1> QED
    BY <1>1, <1>2, <1>3, <1>4, <1>5 DEF Next

LEMMA ReadStep == ReadInv /\ [Next]_vars => ReadInv'
<1> SUFFICES ASSUME ReadInv, [Next]_vars PROVE ReadInv'
    OBVIOUS
<1>1. IInv'
    BY StepInv DEF ReadInv
<1>2. FilesInv'
  <2>1. CASE UNCHANGED vars
    <3>1. UNCHANGED <<fileVars, diskVars, put, crashes>> /\ InFlight' = InFlight
        BY <2>1 DEF vars, writerVars, faultVars, InFlight
    <3> QED
        BY <3>1, QuietFiles
  <2>2. CASE HostCrash
      BY <2>2, CrashFiles
  <2> QED
      BY <2>1, <2>2, WriterFiles, PackerFiles, ReaderFiles DEF Next
<1> QED
    BY <1>1, <1>2, TailStep, HoldersStep DEF ReadInv

\* The bytes under an entry that is held do not change in one step.
LEMMA HeldStep ==
    ASSUME ReadInv, [Next]_vars, NEW e \in {reading} \cup {captured[t] : t \in Tiles},
           e # None, reading' = reading, captured' = captured, ReadsWhole(e)
    PROVE  ReadsWhole(e)'
<1> USE DEF ReadInv, IInv
<1>1. e \in Entries
    BY DEF TypeOK
<1>2. e.off + BlobLen[e.blob] \in Nat /\ e.blob # None
    BY <1>1, EntryFields, StoreAssumption DEF StoreAssumption
<1>3. CASE UNCHANGED <<data, length>>
    BY <1>3 DEF ReadsWhole
<1>4. ASSUME NEW w \in Writers, NEW p \in puts[w], WriteBlob(w, p) \/ PutFails(w, p)
      PROVE  ReadsWhole(e)'
  <2>1. p \in InFlight /\ p \in Puts
      BY DEF InFlight, TypeOK
  <2>2. PICK n \in 0 .. BlobLen[p.blob] : WriteUnits(p, n)
      BY <1>4, <2>1, EntryOfPut DEF WriteBlob, PutFails
  <2> QED
      BY <1>2, <2>1, <2>2, WriteKeeps DEF FilesInv
<1>5. ASSUME NEW k \in Blocks, Punch(k)
      PROVE  ReadsWhole(e)'
  <2>1. packing = "punching"
      BY <1>5 DEF Punch
  <2>2. reading = None
      BY <2>1 DEF Holders
  <2>3. PICK t \in Tiles : e = index[t]
      BY <2>1, <2>2 DEF Holders
  <2>4. \A u \in Extent(e) : u \notin (k * Block) .. (k * Block + Block - 1) /\ u \in Units
      BY <1>5, <2>3 DEF Punch, Dead, Extent
  <2> QED
      BY <1>5, <2>4 DEF Punch, PackerFrame, ReadsWhole
<1>6. CASE HostCrash
  <2>1. reading' = None /\ \A t \in Tiles : captured'[t] = None
      BY <1>6 DEF HostCrash
  <2> QED
      BY <2>1
<1>7. ASSUME NEW w \in Writers, WriterNext(w)
      PROVE  ReadsWhole(e)'
  <2>1. CASE \E p \in puts[w] : WriteBlob(w, p) \/ PutFails(w, p)
      BY <1>4, <2>1
  <2>2. CASE ~\E p \in puts[w] : WriteBlob(w, p) \/ PutFails(w, p)
      BY <1>3, <1>7, <2>2 DEF WriterNext, AcquireWriteLock, RecoverTail, SyncData, SyncIndex, Close,
          WriterCrash, Delete, Reserve, Commit, fileVars
  <2> QED
      BY <2>1, <2>2
<1>8. CASE PackerNext
    BY <1>3, <1>5, <1>8 DEF PackerNext, PackerLocks, Capture, Validate, Reject, Reclaim, Ship,
        Published, PackerCrash, PackerFrame
<1>9. CASE ReaderNext
    BY <1>3, <1>9 DEF ReaderNext, ReaderStarts, ReadEntry, ReadBlob, ReaderEnds, ReaderFrame, fileVars
<1>10. CASE UNCHANGED vars
    BY <1>3, <1>10 DEF vars, fileVars
<1> QED
    BY <1>6, <1>7, <1>8, <1>9, <1>10 DEF Next

-----------------------------------------------------------------------------
\* With at most one crash of the host, a read gives the tile's bytes or
\* fails, and it fails only after the crash (TileStore::open, put_blob,
\* sync_all, reclaim_unreferenced_blocks).  A second crash can break it: the
\* bound is needed.
THEOREM ReadsStayTrue == MaxCrashes <= 1 => (Spec => []ReadsAreTrue)
<1> SUFFICES ASSUME MaxCrashes <= 1 PROVE Spec => []ReadsAreTrue
    OBVIOUS
<1>1. Init => ReadInv
    BY InitReads
<1>2. ReadInv /\ [Next]_vars => ReadInv'
    BY ReadStep
<1>3. ReadInv => ReadsAreTrue
  <2>1. ASSUME ReadInv
        PROVE  crashes <= 1
      BY <2>1, Constants DEF ReadInv, IInv, TypeOK
  <2> QED
      BY <2>1 DEF ReadInv, FilesInv, IndexReads, ReadsAreTrue
<1> QED
    BY <1>1, <1>2, <1>3, PTL DEF Spec

\* A crash of a process anywhere loses no tile of the index, whatever the
\* bound on host crashes.
THEOREM CommittedStaysIntact == Spec => []CommittedIntact
<1>1. ReadInv => CommittedIntact
    BY DEF ReadInv, FilesInv, IndexReads
<1> QED
    BY <1>1, InitReads, ReadStep, PTL DEF Spec

\* What the packer captured and what a reader of the master domain is about
\* to read stay whole while they are held, through every put, reclamation
\* and crash (with_store_snapshots_after_capture, get_blob).
THEOREM HeldEntriesStay == Spec => HeldEntriesStable
<1>1. ReadInv /\ [Next]_vars =>
        [\A e \in {reading} \cup {captured[t] : t \in Tiles} :
            /\ e # None
            /\ reading' = reading /\ captured' = captured
            => (ReadsWhole(e) => ReadsWhole(e)')]_vars
    BY HeldStep
<1> QED
    BY <1>1, InitReads, ReadStep, PTL DEF Spec, HeldEntriesStable

-----------------------------------------------------------------------------
(***************************************************************************)
(* The store implements the map of its crash contract, TileMap, for any    *)
(* tiles, blobs, lengths, writers, blocks and numbers of crashes.          *)
(***************************************************************************)

\* The map the store's files stand for, and what a crash may leave of it.
MapNow == [t \in Tiles |-> ContentOf(index[t])]
SavedNow == [t \in Tiles |-> UNION {AfterLoss(e) : e \in onDiskIndex[t]}]

-----------------------------------------------------------------------------
(* The mapping, tile by tile.                                              *)

LEMMA MapAt ==
    ASSUME NEW t \in Tiles
    PROVE  /\ MapNow[t] = ContentOf(index[t])
           /\ \A e : e = index'[t] => MapNow'[t] = ContentOf(e)'
BY DEF MapNow, ContentOf, ReadsWhole

LEMMA SavedAt ==
    ASSUME NEW t \in Tiles, NEW c
    PROVE  /\ c \in SavedNow[t] <=> \E e \in onDiskIndex[t] : c \in AfterLoss(e)
           /\ c \in SavedNow'[t] <=> \E e \in onDiskIndex'[t] : c \in AfterLoss(e)'
BY DEF SavedNow

LEMMA SameSet ==
    ASSUME NEW A, NEW B, \A c : c \in A <=> c \in B
    PROVE  A = B
BY Zenon

LEMMA MapsEqual ==
    /\ (\A t \in Tiles : MapNow'[t] = MapNow[t]) => MapNow' = MapNow
    /\ (\A t \in Tiles : SavedNow'[t] = SavedNow[t]) => SavedNow' = SavedNow
<1>1. (\A t \in Tiles : MapNow'[t] = MapNow[t]) => MapNow' = MapNow
    BY DEF MapNow
<1>2. (\A t \in Tiles : SavedNow'[t] = SavedNow[t]) => SavedNow' = SavedNow
    BY DEF SavedNow
<1> QED
    BY <1>1, <1>2

MapTypes ==
    /\ MapNow \in [Tiles -> Blobs \cup {"absent", "garbage"}]
    /\ SavedNow \in [Tiles -> SUBSET (Blobs \cup {"absent", "garbage"})]

LEMMA MapTyped == TypeOK => MapTypes
<1> SUFFICES ASSUME TypeOK PROVE MapTypes
    OBVIOUS
<1>1. ASSUME NEW e \in Entries \cup {None}
      PROVE  /\ ContentOf(e) \in Blobs \cup {"absent", "garbage"}
             /\ AfterLoss(e) \subseteq Blobs \cup {"absent", "garbage"}
    BY EntryFields DEF ContentOf, AfterLoss
<1>2. MapNow \in [Tiles -> Blobs \cup {"absent", "garbage"}]
    BY <1>1 DEF MapNow, TypeOK
<1>3. \A t \in Tiles : UNION {AfterLoss(e) : e \in onDiskIndex[t]} \subseteq Blobs \cup {"absent", "garbage"}
    BY <1>1 DEF TypeOK
<1> QED
    BY <1>2, <1>3 DEF SavedNow, MapTypes

LEMMA MapTypedNext == TypeOK' => MapTypes'
BY MapTyped, PTL

\* What a crash may make of an entry, as two conditions.
LEMMA Conditional ==
    ASSUME NEW P \in BOOLEAN, NEW Q \in BOOLEAN, NEW b, NEW g
    PROVE  \A c : c \in (IF P THEN {b} ELSE {}) \cup (IF Q THEN {} ELSE {g})
                     <=> (c = b /\ P) \/ (c = g /\ ~Q)
OBVIOUS

LEMMA LossOf ==
    ASSUME NEW e, e # None
    PROVE  /\ \A c : c \in AfterLoss(e) <=> (c = e.blob /\ MayRead(e)) \/ (c = "garbage" /\ ~Safe(e))
           /\ \A c : c \in AfterLoss(e)' <=> (c = e.blob /\ MayRead(e)') \/ (c = "garbage" /\ ~Safe(e)')
<1>1. AfterLoss(e) = (IF MayRead(e) THEN {e.blob} ELSE {}) \cup (IF Safe(e) THEN {} ELSE {"garbage"})
    BY DEF AfterLoss
<1>2. AfterLoss(e)' = (IF MayRead(e)' THEN {e.blob} ELSE {}) \cup (IF Safe(e)' THEN {} ELSE {"garbage"})
    BY DEF AfterLoss
<1>3. MayRead(e) \in BOOLEAN /\ Safe(e) \in BOOLEAN /\ MayRead(e)' \in BOOLEAN /\ Safe(e)' \in BOOLEAN
    BY DEF MayRead, Safe
<1> QED
    BY <1>1, <1>2, <1>3, Conditional

\* An entry ends in a unit of its own.
LEMMA LastUnit ==
    ASSUME NEW e \in Entries
    PROVE  e.off + BlobLen[e.blob] - 1 \in Extent(e)
<1>1. /\ e.off \in Nat /\ BlobLen[e.blob] \in Nat /\ BlobLen[e.blob] > 0
      /\ e.off + BlobLen[e.blob] <= LogLimit /\ Header <= e.off
      /\ Header \in Nat /\ LogLimit \in Nat
    BY EntryFields, Constants
<1> QED
    BY <1>1 DEF Extent, Units

\* All bytes of an entry are there only if the log reaches its end.
LEMMA WholeByBytes ==
    ASSUME TypeOK, LogEnds, DiskHolds, NEW e \in Entries
    PROVE  ReadsWhole(e) <=> \A u \in Extent(e) : data[u] = e.blob
<1> SUFFICES ASSUME \A u \in Extent(e) : data[u] = e.blob
             PROVE  e.off + BlobLen[e.blob] <= length
    BY DEF ReadsWhole
<1> DEFINE last == e.off + BlobLen[e.blob] - 1
<1>1. last \in Extent(e) /\ last \in Units
    BY LastUnit DEF Extent
<1>2. /\ e.off \in Nat /\ BlobLen[e.blob] \in Nat /\ length \in Nat
      /\ e.blob # None
    BY EntryFields, Constants, StoreAssumption DEF TypeOK, StoreAssumption
<1>3. data[last] # None
    BY <1>1, <1>2
<1>4. ~(last >= length)
    BY <1>1, <1>3 DEF LogEnds, DiskHolds
<1> QED
    BY <1>2, <1>4

LEMMA WholeByBytesNext ==
    ASSUME TypeOK', LogEnds', DiskHolds', NEW e \in Entries
    PROVE  ReadsWhole(e)' <=> \A u \in Extent(e) : data'[u] = e.blob
<1> SUFFICES ASSUME \A u \in Extent(e) : data'[u] = e.blob
             PROVE  e.off + BlobLen[e.blob] <= length'
    BY DEF ReadsWhole
<1> DEFINE last == e.off + BlobLen[e.blob] - 1
<1>1. last \in Extent(e) /\ last \in Units
    BY LastUnit DEF Extent
<1>2. /\ e.off \in Nat /\ BlobLen[e.blob] \in Nat /\ length' \in Nat
      /\ e.blob # None
    BY EntryFields, Constants, StoreAssumption DEF TypeOK, StoreAssumption
<1>3. data'[last] # None
    BY <1>1, <1>2
<1>4. ~(last >= length')
    BY <1>1, <1>3 DEF LogEnds, DiskHolds
<1> QED
    BY <1>2, <1>4

-----------------------------------------------------------------------------
(* The steps of the map.                                                   *)

\* What every read returns is among what a crash may leave.
LEMMA SavedHolds ==
    ASSUME TypeOK', LogEnds', DiskHolds', NEW t \in Tiles
    PROVE  MapNow'[t] \in SavedNow'[t]
<1>1. PICK e : e = index'[t]
    OBVIOUS
<1>2. e \in onDiskIndex'[t] /\ e \in Entries \cup {None}
    BY <1>1 DEF DiskHolds, TypeOK
<1>3. ContentOf(e)' \in AfterLoss(e)'
  <2>1. CASE e = None
      BY <2>1 DEF ContentOf, AfterLoss
  <2>2. CASE e # None /\ ReadsWhole(e)'
    <3>1. ContentOf(e)' = e.blob
        BY <2>2 DEF ContentOf
    <3>2. \A u \in Extent(e) : data'[u] = e.blob /\ u \in Units
        BY <2>2 DEF ReadsWhole, Extent
    <3>3. MayRead(e)'
        BY <3>2 DEF DiskHolds, MayRead
    <3> QED
        BY <2>2, <3>1, <3>3, LossOf
  <2>3. CASE e # None /\ ~ReadsWhole(e)'
    <3>1. ContentOf(e)' = "garbage"
        BY <2>3 DEF ContentOf
    <3>2. Safe(e)' => ReadsWhole(e)'
        BY DEF DiskHolds, ReadsWhole, Extent, Safe
    <3> QED
        BY <2>3, <3>1, <3>2, LossOf
  <2> QED
      BY <2>1, <2>2, <2>3
<1> QED
    BY <1>1, <1>2, <1>3, MapAt, SavedAt

\* Dirty pages reach the disk, or nothing happens to the files.
LEMMA HardenMap ==
    ASSUME ReadInv, TypeOK', LogEnds', DiskHolds', UNCHANGED fileVars,
           \A t \in Tiles : onDiskIndex'[t] \subseteq onDiskIndex[t],
           \A u \in Units : onDiskData'[u] \subseteq onDiskData[u],
           onDiskLength' \subseteq onDiskLength
    PROVE  /\ MapNow' = MapNow
           /\ \A t \in Tiles : SavedNow'[t] \subseteq SavedNow[t] /\ MapNow[t] \in SavedNow'[t]
<1> USE DEF fileVars
<1>1. MapNow' = MapNow
    BY DEF MapNow, ContentOf, ReadsWhole
<1>2. ASSUME NEW t \in Tiles, NEW c \in SavedNow'[t]
      PROVE  c \in SavedNow[t]
  <2>1. PICK e \in onDiskIndex'[t] : c \in AfterLoss(e)'
      BY SavedAt
  <2>2. CASE e = None
    <3>1. c \in AfterLoss(e)
        BY <2>1, <2>2 DEF AfterLoss
    <3> QED
        BY <2>1, <3>1, SavedAt
  <2>3. CASE e # None
    <3>1. \A u \in Extent(e) : u \in Units /\ data'[u] \in onDiskData'[u]
        BY DEF Extent, DiskHolds
    <3>2. MayRead(e)' => MayRead(e)
        BY <3>1 DEF MayRead
    <3>3. Safe(e) => Safe(e)'
        BY <3>1 DEF Safe
    <3>4. c \in AfterLoss(e)
        BY <2>1, <2>3, <3>2, <3>3, LossOf
    <3> QED
        BY <2>1, <3>4, SavedAt
  <2> QED
      BY <2>2, <2>3
<1> QED
    BY <1>1, <1>2, SavedHolds

\* The index stays, and of the entries that count a read and a crash make
\* what they made.
LEMMA SameMap ==
    ASSUME UNCHANGED <<index, onDiskIndex>>,
           \A t \in Tiles : \A e \in onDiskIndex[t] \ {None} :
               (MayRead(e)' <=> MayRead(e)) /\ (Safe(e)' <=> Safe(e)),
           \A t \in Tiles : \A e : e = index[t] /\ e # None => (ReadsWhole(e)' <=> ReadsWhole(e))
    PROVE  MapNow' = MapNow /\ SavedNow' = SavedNow
<1>1. ASSUME NEW t \in Tiles
      PROVE  MapNow'[t] = MapNow[t]
  <2>1. PICK e : e = index[t] /\ e = index'[t]
      OBVIOUS
  <2>2. ContentOf(e)' = ContentOf(e)
      BY <2>1 DEF ContentOf
  <2>3. MapNow'[t] = ContentOf(e)' /\ MapNow[t] = ContentOf(e)
      BY <2>1, MapAt
  <2> QED
      BY <2>2, <2>3
<1>2. ASSUME NEW t \in Tiles
      PROVE  SavedNow'[t] = SavedNow[t]
  <2>1. ASSUME NEW e \in onDiskIndex[t], NEW c
        PROVE  c \in AfterLoss(e)' <=> c \in AfterLoss(e)
    <3>1. CASE e = None
        BY <3>1 DEF AfterLoss
    <3>2. CASE e # None
        BY <3>2, LossOf
    <3> QED
        BY <3>1, <3>2
  <2>2. ASSUME NEW c
        PROVE  c \in SavedNow'[t] <=> c \in SavedNow[t]
      BY <2>1, SavedAt
  <2> QED
      BY <2>2, SameSet
<1> QED
    BY <1>1, <1>2, MapsEqual

LEMMA QuietMap ==
    ASSUME UNCHANGED <<fileVars, diskVars>>
    PROVE  MapNow' = MapNow /\ SavedNow' = SavedNow
BY SameMap DEF fileVars, diskVars, MayRead, Safe, ReadsWhole

\* The blob of a put in flight is in nobody's log space and nobody's entry.
LEMMA WriteMap ==
    ASSUME ReadInv, TypeOK', LogEnds', DiskHolds',
           NEW p \in InFlight, NEW n \in 0 .. BlobLen[p.blob], WriteUnits(p, n),
           UNCHANGED <<index, onDiskIndex>>
    PROVE  MapNow' = MapNow /\ SavedNow' = SavedNow
<1> USE DEF ReadInv, FilesInv, IInv
<1>1. p \in Puts /\ p.blob # None
    BY InFlightTyped
<1>2. \A e : \A u \in Extent(e) : u \in Units
    BY DEF Extent
<1>3. \A u \in Extent(p) : onDiskData[u] \subseteq {p.blob, None}
    BY DEF PutsOwn
<1>4. \A u \in Units :
        \/ data'[u] = data[u] /\ onDiskData'[u] = onDiskData[u]
        \/ u \in Extent(p) /\ onDiskData'[u] = onDiskData[u] \cup {p.blob}
    BY <1>1, WriteEffect
<1>5. ASSUME NEW t \in Tiles, NEW e \in onDiskIndex[t] \ {None}
      PROVE  (MayRead(e)' <=> MayRead(e)) /\ (Safe(e)' <=> Safe(e))
  <2>1. e.blob # p.blob /\ e.blob # None /\ e.off + BlobLen[e.blob] \in Nat
      BY OnDiskTyped DEF Fresh
  <2>2. \A u \in Extent(e) : /\ e.blob \in onDiskData'[u] <=> e.blob \in onDiskData[u]
                             /\ onDiskData'[u] = {e.blob} <=> onDiskData[u] = {e.blob}
    <3>1. ASSUME NEW u \in Extent(e)
          PROVE  /\ e.blob \in onDiskData'[u] <=> e.blob \in onDiskData[u]
                 /\ onDiskData'[u] = {e.blob} <=> onDiskData[u] = {e.blob}
      <4>1. CASE onDiskData'[u] = onDiskData[u]
          BY <4>1
      <4>2. CASE u \in Extent(p) /\ onDiskData'[u] = onDiskData[u] \cup {p.blob}
        <5>1. e.blob \notin onDiskData[u] /\ e.blob \notin onDiskData'[u]
            BY <1>3, <2>1, <4>2
        <5> QED
            BY <5>1
      <4> QED
          BY <1>2, <1>4, <4>1, <4>2
    <3> QED
        BY <3>1
  <2>3. (\A m \in onDiskLength' : e.off + BlobLen[e.blob] <= m)
            <=> (\A m \in onDiskLength : e.off + BlobLen[e.blob] <= m)
    <3>1. /\ onDiskLength' = onDiskLength \cup {length'}
          /\ length \in Nat /\ length' \in Nat /\ length <= length'
          /\ length \in onDiskLength
        BY <1>1, WriteEffect DEF DiskHolds
    <3>2. e.off + BlobLen[e.blob] <= length => e.off + BlobLen[e.blob] <= length'
        BY <2>1, <3>1
    <3> QED
        BY <3>1, <3>2
  <2>4. MayRead(e)' <=> MayRead(e)
      BY <2>2 DEF MayRead
  <2>5. Safe(e)' <=> Safe(e)
      BY <2>2, <2>3 DEF Safe
  <2> QED
      BY <2>4, <2>5
<1>6. ASSUME NEW t \in Tiles, NEW e, e = index[t], e # None
      PROVE  ReadsWhole(e)' <=> ReadsWhole(e)
  <2>1. e \in Entries
      BY <1>6 DEF TypeOK
  <2>2. Disjoint(p, e)
      BY <1>6 DEF NoOverwrite
  <2>3. \A u \in Extent(e) : data'[u] = data[u]
      BY <1>2, <1>4, <2>2 DEF Disjoint
  <2>4. ReadsWhole(e) <=> \A u \in Extent(e) : data[u] = e.blob
      BY <2>1, WholeByBytes
  <2>5. ReadsWhole(e)' <=> \A u \in Extent(e) : data'[u] = e.blob
      BY <2>1, WholeByBytesNext
  <2> QED
      BY <2>3, <2>4, <2>5
<1> QED
    BY <1>5, <1>6, SameMap

LEMMA PunchMap ==
    ASSUME ReadInv, NEW k \in Blocks, Punch(k)
    PROVE  MapNow' = MapNow /\ SavedNow' = SavedNow
<1> DEFINE Whole == (k * Block) .. (k * Block + Block - 1)
<1> USE DEF ReadInv, FilesInv, IInv
<1>1. /\ UNCHANGED <<index, length, onDiskIndex, onDiskLength>>
      /\ \A u \in Units \ Whole : data'[u] = data[u] /\ onDiskData'[u] = onDiskData[u]
      /\ packing = "punching"
    BY DEF Punch, PackerFrame
<1>2. \A t \in Tiles : onDiskIndex[t] = {index[t]}
    BY <1>1 DEF Holders
<1>3. ASSUME NEW t \in Tiles, NEW e, e = index[t], e # None
      PROVE  \A u \in Extent(e) : data'[u] = data[u] /\ onDiskData'[u] = onDiskData[u]
  <2>1. Whole \cap Extent(e) = {}
      BY <1>3 DEF Punch, Dead
  <2>2. \A u \in Extent(e) : u \in Units \ Whole
      BY <2>1 DEF Extent
  <2> QED
      BY <1>1, <2>2
<1>4. ASSUME NEW t \in Tiles, NEW e \in onDiskIndex[t] \ {None}
      PROVE  (MayRead(e)' <=> MayRead(e)) /\ (Safe(e)' <=> Safe(e))
  <2>1. \A u \in Extent(e) : onDiskData'[u] = onDiskData[u]
      BY <1>2, <1>3
  <2> QED
      BY <1>1, <2>1 DEF MayRead, Safe
<1>5. ASSUME NEW t \in Tiles, NEW e, e = index[t], e # None
      PROVE  ReadsWhole(e)' <=> ReadsWhole(e)
    BY <1>1, <1>3, <1>5 DEF ReadsWhole
<1> QED
    BY <1>1, <1>4, <1>5, SameMap

\* An index entry is written, and nothing else: the tile's old contents may
\* still come back.
LEMMA EntryMap ==
    ASSUME ReadInv, NEW t \in Tiles, NEW e, WriteEntry(t, e),
           UNCHANGED <<data, length, onDiskData, onDiskLength>>
    PROVE  /\ MapNow' = [MapNow EXCEPT ![t] = ContentOf(e)]
           /\ SavedNow' = [SavedNow EXCEPT ![t] = @ \cup AfterLoss(e)]
<1> USE DEF ReadInv, IInv
<1>1. /\ \A s \in Tiles : index'[s] = IF s = t THEN e ELSE index[s]
      /\ \A s \in Tiles : onDiskIndex'[s] = IF s = t THEN onDiskIndex[s] \cup {e} ELSE onDiskIndex[s]
    BY DEF WriteEntry, TypeOK
<1>2. \A f : /\ ContentOf(f)' = ContentOf(f)
             /\ AfterLoss(f)' = AfterLoss(f)
    BY DEF ContentOf, AfterLoss, ReadsWhole, MayRead, Safe
<1>3. ASSUME NEW s \in Tiles
      PROVE  MapNow'[s] = IF s = t THEN ContentOf(e) ELSE MapNow[s]
  <2>1. PICK f : f = index'[s]
      OBVIOUS
  <2>2. MapNow'[s] = ContentOf(f)
      BY <1>2, <2>1, MapAt
  <2>3. CASE s = t
      BY <1>1, <2>1, <2>2, <2>3
  <2>4. CASE s # t
      BY <1>1, <2>1, <2>2, <2>4, MapAt
  <2> QED
      BY <2>3, <2>4
<1>4. ASSUME NEW s \in Tiles
      PROVE  SavedNow'[s] = IF s = t THEN SavedNow[s] \cup AfterLoss(e) ELSE SavedNow[s]
  <2>1. \A c : c \in SavedNow'[s] <=> \E f \in onDiskIndex'[s] : c \in AfterLoss(f)
      BY <1>2, SavedAt
  <2>2. \A c : c \in SavedNow[s] <=> \E f \in onDiskIndex[s] : c \in AfterLoss(f)
      BY SavedAt
  <2>3. CASE s = t
    <3>1. onDiskIndex'[s] = onDiskIndex[s] \cup {e}
        BY <1>1, <2>3
    <3>2. \A c : c \in SavedNow'[s] <=> c \in SavedNow[s] \cup AfterLoss(e)
        BY <2>1, <2>2, <3>1
    <3> QED
        BY <2>3, <3>2, SameSet
  <2>4. CASE s # t
    <3>1. \A c : c \in SavedNow'[s] <=> c \in SavedNow[s]
        BY <1>1, <2>1, <2>2, <2>4
    <3> QED
        BY <2>4, <3>1, SameSet
  <2> QED
      BY <2>3, <2>4
<1> QED
    BY <1>3, <1>4 DEF MapNow, SavedNow

\* The blob of a put is committed: from now on a read returns it, and a
\* crash may lose it until the next sync.
LEMMA CommitMap ==
    ASSUME ReadInv, NEW w \in Writers, NEW p \in puts[w], Commit(w, p)
    PROVE  /\ p.tile \in Tiles /\ p.blob \in Blobs
           /\ MapNow' = [MapNow EXCEPT ![p.tile] = p.blob]
           /\ SavedNow' = [SavedNow EXCEPT ![p.tile] = @ \cup {p.blob, "garbage"}]
<1> USE DEF ReadInv, FilesInv, IInv
<1>1. PICK e : e = [off |-> p.off, blob |-> p.blob]
    OBVIOUS
<1>2. p \in InFlight /\ p \in Puts
    BY DEF InFlight, TypeOK
<1>3. /\ e \in Entries /\ e.off = p.off /\ e.blob = p.blob
      /\ p.tile \in Tiles /\ p.blob \in Blobs
      /\ Extent(e) = Extent(p)
    BY <1>1, <1>2, EntryOfPut DEF Extent
<1>4. e # None
  <2>1. p.off \in Nat
      BY <1>2, EntryOfPut
  <2> QED
      BY <1>1, <1>3, <2>1, StoreAssumption DEF StoreAssumption
<1>5. ReadsWhole(p)
    BY <1>2 DEF PutsOwn, Commit
<1>6. ContentOf(e) = p.blob
    BY <1>3, <1>4, <1>5 DEF ContentOf, ReadsWhole
<1>7. MayRead(e)
  <2>1. \A u \in Extent(p) : data[u] = p.blob /\ u \in Units
      BY <1>5 DEF ReadsWhole, Extent
  <2> QED
      BY <1>3, <2>1 DEF MayRead, DiskHolds
<1>8. ~Safe(e)
  <2>1. PICK u \in Extent(p) : None \in onDiskData[u]
      BY <1>2, <1>3, LastUnit DEF PutsOwn
  <2>2. p.blob # None
      BY <1>2, InFlightTyped
  <2> QED
      BY <1>3, <2>1, <2>2 DEF Safe
<1>9. AfterLoss(e) = {p.blob, "garbage"}
    BY <1>3, <1>4, <1>7, <1>8 DEF AfterLoss
<1>10. WriteEntry(p.tile, e) /\ UNCHANGED <<data, length, onDiskData, onDiskLength>>
    BY <1>1 DEF Commit
<1> QED
    BY <1>3, <1>6, <1>9, <1>10, EntryMap

LEMMA DeleteMap ==
    ASSUME ReadInv, NEW w \in Writers, NEW t \in Tiles, Delete(w, t)
    PROVE  /\ MapNow' = [MapNow EXCEPT ![t] = "absent"]
           /\ SavedNow' = [SavedNow EXCEPT ![t] = @ \cup {"absent"}]
<1>1. PICK e : e = None
    OBVIOUS
<1>2. WriteEntry(t, e) /\ UNCHANGED <<data, length, onDiskData, onDiskLength>>
    BY <1>1 DEF Delete
<1>3. ContentOf(e) = "absent" /\ AfterLoss(e) = {"absent"}
    BY <1>1 DEF ContentOf, AfterLoss
<1> QED
    BY <1>2, <1>3, EntryMap

\* After a crash of the host a read returns what the disk may have kept, and
\* a further crash returns the same.
LEMMA CrashMap ==
    ASSUME ReadInv, HostCrash, TypeOK', LogEnds', DiskHolds'
    PROVE  /\ \A t \in Tiles : MapNow'[t] \in SavedNow[t]
           /\ SavedNow' = [t \in Tiles |-> {MapNow'[t]}]
<1> USE DEF ReadInv, FilesInv, IInv
<1>1. /\ \A t \in Tiles : index'[t] \in onDiskIndex[t] /\ onDiskIndex'[t] = {index'[t]}
      /\ \A u \in Units : onDiskData'[u] = {data'[u]}
      /\ onDiskLength' = {length'}
      /\ length' \in onDiskLength
    BY DEF HostCrash
<1>2. PICK d \in [Volatile -> UNION {onDiskData[u] : u \in Volatile}], n \in onDiskLength :
          /\ \A u \in Volatile : d[u] \in onDiskData[u]
          /\ length' = n
          /\ data' = [u \in Units |-> IF u >= n THEN None
                                    ELSE IF u \in Volatile THEN d[u] ELSE data[u]]
    BY DEF HostCrash
<1>3. \A u \in Units : data'[u] \in onDiskData[u] \/ (data'[u] = None /\ u >= length')
    BY <1>2 DEF DiskHolds
<1>4. ASSUME NEW t \in Tiles
      PROVE  MapNow'[t] \in SavedNow[t] /\ SavedNow'[t] = {MapNow'[t]}
  <2>1. PICK e : e = index'[t]
      OBVIOUS
  <2>2. e \in onDiskIndex[t] /\ onDiskIndex'[t] = {e} /\ e \in Entries \cup {None}
      BY <1>1, <2>1 DEF TypeOK
  <2>3. MapNow'[t] = ContentOf(e)'
      BY <2>1, MapAt
  <2>4. SavedNow'[t] = AfterLoss(e)'
    <3>1. SavedNow'[t] = UNION {AfterLoss(f)' : f \in onDiskIndex'[t]}
        BY DEF SavedNow
    <3> QED
        BY <2>2, <3>1
  <2>5. ContentOf(e)' \in AfterLoss(e) /\ AfterLoss(e)' = {ContentOf(e)'}
    <3>1. CASE e = None
        BY <3>1 DEF ContentOf, AfterLoss
    <3>2. CASE e # None
      <4>1. e \in Entries /\ \A u \in Extent(e) : u \in Units
          BY <2>2, <3>2 DEF Extent
      <4>2. /\ e.blob # None /\ e.off + BlobLen[e.blob] \in Nat /\ e.off \in Nat
            /\ length' \in Nat
          BY <2>2, <3>2, OnDiskTyped, Constants DEF TypeOK
      <4>3. CASE ReadsWhole(e)'
        <5>1. \A u \in Extent(e) : data'[u] = e.blob /\ onDiskData'[u] = {e.blob}
            BY <1>1, <4>1, <4>3 DEF ReadsWhole
        <5>2. MayRead(e)
            BY <1>3, <4>1, <4>2, <5>1 DEF MayRead
        <5>3. MayRead(e)' /\ Safe(e)'
            BY <1>1, <4>3, <5>1 DEF MayRead, Safe, ReadsWhole
        <5> QED
            BY <3>2, <4>3, <5>2, <5>3 DEF ContentOf, AfterLoss
      <4>4. CASE ~ReadsWhole(e)'
        <5>1. ~\A u \in Extent(e) : data'[u] = e.blob
            BY <4>1, <4>4, WholeByBytesNext
        <5>2. ~MayRead(e)' /\ ~Safe(e)'
            BY <1>1, <4>1, <5>1 DEF MayRead, Safe
        <5>3. ~Safe(e)
          <6>1. ASSUME Safe(e), NEW u \in Extent(e)
                PROVE  data'[u] = e.blob
            <7>1. /\ u \in Units /\ u \in Nat /\ u < e.off + BlobLen[e.blob]
                  /\ onDiskData[u] = {e.blob}
                  /\ e.off + BlobLen[e.blob] <= length'
                BY <1>1, <6>1, Constants DEF Safe, Extent, Units
            <7>2. ~(u >= length')
                BY <4>2, <7>1
            <7> QED
                BY <1>3, <7>1, <7>2
          <6> QED
              BY <5>1, <6>1
        <5> QED
            BY <3>2, <4>4, <5>2, <5>3 DEF ContentOf, AfterLoss
      <4> QED
          BY <4>3, <4>4
    <3> QED
        BY <3>1, <3>2
  <2> QED
      BY <2>2, <2>3, <2>4, <2>5, SavedAt
<1>5. SavedNow' = [t \in Tiles |-> {MapNow'[t]}]
  <2>1. SavedNow' = [t \in Tiles |-> SavedNow'[t]]
      BY DEF SavedNow
  <2> QED
      BY <1>4, <2>1
<1> QED
    BY <1>4, <1>5

-----------------------------------------------------------------------------
(* The instance.                                                           *)

LEMMA MapInit ==
    ASSUME Init
    PROVE  Map!Init
<1>1. \A t \in Tiles : index[t] = None /\ onDiskIndex[t] = {None}
    BY DEF Init
<1>2. ContentOf(None) = "absent" /\ AfterLoss(None) = {"absent"}
    BY DEF ContentOf, AfterLoss
<1>3. MapNow = [t \in Tiles |-> "absent"]
    BY <1>1, <1>2 DEF MapNow
<1>4. SavedNow = [t \in Tiles |-> {"absent"}]
    BY <1>1, <1>2 DEF SavedNow
<1> QED
    BY <1>3, <1>4 DEF Map!Init, MapNow, SavedNow

LEMMA MapStutter ==
    ASSUME MapNow' = MapNow, SavedNow' = SavedNow
    PROVE  UNCHANGED Map!mapVars
BY DEF Map!mapVars, MapNow, SavedNow

LEMMA MapPut ==
    ASSUME NEW t \in Tiles, NEW b \in Blobs,
           MapNow' = [MapNow EXCEPT ![t] = b],
           SavedNow' = [SavedNow EXCEPT ![t] = @ \cup {b, "garbage"}]
    PROVE  Map!Next
<1>1. Map!Put(t, b)
    BY DEF Map!Put, MapNow, SavedNow
<1> QED
    BY <1>1 DEF Map!Next

LEMMA MapDelete ==
    ASSUME NEW t \in Tiles,
           MapNow' = [MapNow EXCEPT ![t] = "absent"],
           SavedNow' = [SavedNow EXCEPT ![t] = @ \cup {"absent"}]
    PROVE  Map!Next
<1>1. Map!Delete(t)
    BY DEF Map!Delete, MapNow, SavedNow
<1> QED
    BY <1>1 DEF Map!Next

LEMMA MapHarden ==
    ASSUME MapTypes', MapNow' = MapNow,
           \A t \in Tiles : SavedNow'[t] \subseteq SavedNow[t] /\ MapNow[t] \in SavedNow'[t]
    PROVE  Map!Next
<1>1. Map!Harden
    BY DEF Map!Harden, Map!Contents, MapTypes, MapNow, SavedNow
<1> QED
    BY <1>1 DEF Map!Next

LEMMA MapPowerLoss ==
    ASSUME MapTypes',
           \A t \in Tiles : MapNow'[t] \in SavedNow[t],
           SavedNow' = [t \in Tiles |-> {MapNow'[t]}]
    PROVE  Map!Next
<1>1. Map!PowerLoss
    BY DEF Map!PowerLoss, Map!Contents, MapTypes, MapNow, SavedNow
<1> QED
    BY <1>1 DEF Map!Next

LEMMA MapStep ==
    ASSUME ReadInv, ReadInv', [Next]_vars
    PROVE  [Map!Next]_Map!mapVars
<1> USE DEF ReadInv, FilesInv, IInv
<1>1. ASSUME UNCHANGED <<fileVars, diskVars>>
      PROVE  UNCHANGED Map!mapVars
    BY <1>1, QuietMap, MapStutter
<1>2. ASSUME UNCHANGED fileVars,
             \A t \in Tiles : onDiskIndex'[t] = onDiskIndex[t] \/ onDiskIndex'[t] = {index[t]},
             \A u \in Units : onDiskData'[u] = onDiskData[u] \/ onDiskData'[u] = {data[u]},
             onDiskLength' = onDiskLength \/ onDiskLength' = {length}
      PROVE  Map!Next
  <2>1. /\ \A t \in Tiles : onDiskIndex'[t] \subseteq onDiskIndex[t]
        /\ \A u \in Units : onDiskData'[u] \subseteq onDiskData[u]
        /\ onDiskLength' \subseteq onDiskLength
      BY <1>2 DEF DiskHolds
  <2> QED
      BY <1>2, <2>1, HardenMap, MapTypedNext, MapHarden
<1>3. ASSUME NEW w \in Writers, WriterNext(w)
      PROVE  [Map!Next]_Map!mapVars
  <2>1. CASE AcquireWriteLock(w) \/ RecoverTail(w) \/ Close(w) \/ WriterCrash(w)
      BY <1>1, <2>1 DEF AcquireWriteLock, RecoverTail, Close, WriterCrash
  <2>2. CASE SyncData(w) \/ SyncIndex(w)
      BY <1>2, <2>2 DEF SyncData, SyncIndex, FsyncData, FsyncIndex
  <2>3. ASSUME NEW t \in Tiles, NEW b \in Blobs, Reserve(w, b, t)
        PROVE  [Map!Next]_Map!mapVars
      BY <1>1, <2>3 DEF Reserve
  <2>4. ASSUME NEW t \in Tiles, Delete(w, t)
        PROVE  [Map!Next]_Map!mapVars
      BY <2>4, DeleteMap, MapDelete
  <2>5. ASSUME NEW p \in puts[w], WriteBlob(w, p) \/ PutFails(w, p)
        PROVE  [Map!Next]_Map!mapVars
    <3>1. p \in InFlight /\ p \in Puts
        BY DEF InFlight, TypeOK
    <3>2. PICK n \in 0 .. BlobLen[p.blob] : WriteUnits(p, n)
        BY <2>5, <3>1, EntryOfPut DEF WriteBlob, PutFails
    <3>3. UNCHANGED <<index, onDiskIndex>>
        BY <2>5 DEF WriteBlob, PutFails
    <3> QED
        BY <3>1, <3>2, <3>3, WriteMap, MapStutter
  <2>6. ASSUME NEW p \in puts[w], Commit(w, p)
        PROVE  [Map!Next]_Map!mapVars
      BY <2>6, CommitMap, MapPut
  <2> QED
      BY <1>3, <2>1, <2>2, <2>3, <2>4, <2>5, <2>6 DEF WriterNext
<1>4. CASE PackerNext
  <2>1. CASE PackerLocks \/ Capture \/ Validate \/ Reject \/ Published \/ PackerCrash
      BY <1>1, <2>1 DEF PackerLocks, Capture, Validate, Reject, Published, PackerCrash, PackerFrame,
            fileVars, diskVars
  <2>2. CASE Reclaim
      BY <1>2, <2>2 DEF Reclaim, FsyncData, FsyncIndex, fileVars
  <2>3. CASE Ship
      BY <1>2, <2>3 DEF Ship, FsyncData, fileVars
  <2>4. ASSUME NEW k \in Blocks, Punch(k)
        PROVE  [Map!Next]_Map!mapVars
      BY <2>4, PunchMap, MapStutter
  <2> QED
      BY <1>4, <2>1, <2>2, <2>3, <2>4 DEF PackerNext
<1>5. CASE ReaderNext
    BY <1>1, <1>5 DEF ReaderNext, ReaderStarts, ReadEntry, ReadBlob, ReaderEnds, ReaderFrame
<1>6. CASE HostCrash
    BY <1>6, CrashMap, MapTypedNext, MapPowerLoss
<1>7. CASE UNCHANGED vars
    BY <1>1, <1>7 DEF vars
<1> QED
    BY <1>3, <1>4, <1>5, <1>6, <1>7 DEF Next

-----------------------------------------------------------------------------
\* The store implements the map of its crash contract: a put or a delete of
\* one tile is one atomic step whenever its index entry is written, all other
\* work of writers, packer and readers changes no tile, and a crash of the
\* host returns for each tile one of the contents it had since the last sync,
\* or none (TileStore::put_blob, delete, sync_all, mod.rs's crash contract).
THEOREM StoreIsAMap == Spec => MapSpec
<1>1. Init => Map!Init
    BY MapInit
<1>2. ReadInv /\ ReadInv' /\ [Next]_vars => [Map!Next]_Map!mapVars
    BY MapStep
<1> QED
    BY <1>1, <1>2, InitReads, ReadStep, PTL DEF Spec, MapSpec, Map!Spec
=============================================================================
