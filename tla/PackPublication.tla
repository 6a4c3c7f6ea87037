-------------------------- MODULE PackPublication --------------------------
(***************************************************************************)
(* tile-store-pack, tile-store-gc and the readers of what they publish:    *)
(* one directory of immutable archives, a merge head (current.json) that   *)
(* names one archive per layer, one pin per environment that the server    *)
(* reads, and the browser tabs that still hold an older pin.               *)
(*                                                                         *)
(* The directory is one value.  A host crash takes it back to a value it   *)
(* had since it was last synced: a directory's own operations become       *)
(* durable in their order.  An archive's content is the pack run that      *)
(* wrote it, which is also its identity (inode, size, mtime).              *)
(***************************************************************************)
EXTENDS Integers, Sequences

CONSTANTS
    PublishedLayers,    \* PUBLISHED_LAYERS, in the order they are staged
    Years,              \* dataset years of the worlds that are packed
    Envs,               \* environments with a pin
    Tabs,               \* open browser tabs
    Grace,              \* --min-age-secs, in ticks
    Poll,               \* the longest a tab goes without a refresh, in ticks
    MaxBuild,           \* bound: build ids
    MaxPacks,           \* bound: pack runs
    MaxFaults,          \* bound: failed steps, kills and host crashes
    None

Layers == {PublishedLayers[i] : i \in DOMAIN PublishedLayers}
Builds == 1 .. MaxBuild
Names == Layers \X Builds               \* {layer}.{build}.pmtiles
Runs == 1 .. MaxPacks

\* durable: complete and synced, so that a crash cannot tear it.
Archive == [run : Runs, durable : BOOLEAN]
Entry == [build : Builds, run : Runs, year : Years]
Manifest == [Layers -> Entry]

Directories ==
    [files : [Names -> Archive \cup {None}],    \* under their public names
     temps : [Names -> Archive \cup {None}],    \* staged
     marks : [Builds -> SUBSET Layers],         \* transaction markers: the layers one lists
     head  : Manifest \cup {None},              \* current.json
     pins  : [Envs -> Manifest \cup {None}]]

PackPhases ==
    {"recover", "recoverSync", "cleaned", "preflight", "stage", "marked", "publish", "published",
     "flipped", "complete", "completed", "rollback", "rollbackSync"}

Packs ==
    [pc : PackPhases, build : Builds, layers : SUBSET Layers, partial : BOOLEAN, year : Years, run : Runs]

PublicationAssumption ==
    /\ PublishedLayers \in Seq(Layers)
    /\ Grace \in Nat /\ Poll \in Nat /\ Poll < Grace
    /\ MaxBuild \in Nat /\ MaxPacks \in Nat /\ MaxFaults \in Nat
    /\ None \notin Archive /\ None \notin Manifest /\ None \notin Packs
ASSUME PublicationAssumption

VARIABLES
    dir,        \* the directory, as processes see it
    maybe,      \* the values a host crash can leave
    age,        \* time since each archive was written or renewed, up to Grace
    pack,       \* the packer that holds .pack.lock, or None
    tab,        \* the manifest each tab goes by, and the time since it fetched it
    \* history and bounds
    kept,       \* names some synced head has named
    swept,      \* names the sweep has removed
    handed,     \* the content of each name a tab was ever given, or None
    reported,   \* the last run whose pack exited with success
    runs,
    faults

vars == <<dir, maybe, age, pack, tab, kept, swept, handed, reported, runs, faults>>

NamesOf(m) == IF m = None THEN {} ELSE {<<l, m[l].build>> : l \in Layers}

\* An entry whose archive is there and is the file the entry was made of.
Valid(d, l, e) == LET a == d.files[<<l, e.build>>] IN a # None /\ a.run = e.run

Servable(d, m) == \A l \in Layers : Valid(d, l, m[l])

-----------------------------------------------------------------------------
(* The directory.                                                          *)

Put(d) == dir' = d /\ maybe' = maybe \cup {d}

\* Mutant: it is the file that is synced, not its directory.
SyncFile == kept' = kept \cup NamesOf(dir.head) /\ UNCHANGED <<dir, maybe>>

\* fsync of the directory.
Sync ==
    /\ maybe' = {dir}
    /\ kept' = kept \cup NamesOf(dir.head)
    /\ UNCHANGED dir

Goto(pc) == pack' = [pack EXCEPT !.pc = pc]

\* What a step of the packer leaves alone.
Rest == UNCHANGED <<age, tab, swept, handed, runs>>
Unreported == UNCHANGED <<reported, faults>>

Init ==
    /\ dir = [files |-> [n \in Names |-> None], temps |-> [n \in Names |-> None],
              marks |-> [b \in Builds |-> {}], head |-> None, pins |-> [e \in Envs |-> None]]
    /\ maybe = {dir}
    /\ age = [n \in Names |-> 0]
    /\ pack = None
    /\ tab = [t \in Tabs |-> [holds |-> None, since |-> 0]]
    /\ kept = {}
    /\ swept = {}
    /\ handed = [n \in Names |-> None]
    /\ reported = 0
    /\ runs = 0
    /\ faults = 0

-----------------------------------------------------------------------------
(* The packer.                                                             *)

\* The pack lock is taken.  A build id is new or that of a pack that failed
\* or is still there: ids are not used again once the sweep removed them.
Start(b, S, partial, y) ==
    /\ pack = None
    /\ runs < MaxPacks
    /\ S # {} /\ (partial \/ S = Layers)
    /\ \A l \in S : <<l, b>> \notin swept
    /\ pack' = [pc |-> "recover", build |-> b, layers |-> S, partial |-> partial,
                year |-> y, run |-> runs + 1]
    /\ runs' = runs + 1
    /\ UNCHANGED <<dir, maybe, age, tab, kept, swept, handed>> /\ Unreported

Marked == {b \in Builds : dir.marks[b] # {}}

\* Mutant: recovery takes every transaction it finds for a failed one.
NeverCommitted(b) == FALSE

\* current_manifest_references_all
Committed(b) == dir.head # None /\ \A l \in dir.marks[b] : dir.head[l].build = b

\* The files recovery still has to remove for a marker.
Debris(b) ==
    {n \in Names : /\ n[2] = b /\ n[1] \in dir.marks[b]
                   /\ dir.temps[n] # None \/ (~Committed(b) /\ dir.files[n] # None)}

\* The markers a recovery goes over: all at the start of a run, its own when
\* publishing failed.
ToRecover == IF pack.pc = "rollback" THEN Marked \cap {pack.build} ELSE Marked

FirstMark == CHOOSE b \in ToRecover : \A c \in ToRecover : b <= c

\* Mutant: the marker is removed first.
UnmarkFirst ==
    /\ ToRecover # {}
    /\ Put([dir EXCEPT !.marks[FirstMark] = {}])
    /\ pack' = [pack EXCEPT !.pc = IF @ = "rollback" THEN "rollbackSync" ELSE "recoverSync"]

RecoverFile ==
    /\ ToRecover # {}
    /\ \E n \in Debris(FirstMark) :
         Put([dir EXCEPT !.files[n] = IF Committed(n[2]) THEN @ ELSE None, !.temps[n] = None])
    /\ UNCHANGED pack

\* The marker goes last.
Unmark ==
    /\ ToRecover # {} /\ Debris(FirstMark) = {}
    /\ Put([dir EXCEPT !.marks[FirstMark] = {}])
    /\ pack' = [pack EXCEPT !.pc = IF @ = "rollback" THEN "rollbackSync" ELSE "recoverSync"]

\* recover_pack_transaction, one removal at a time.
Recover ==
    /\ pack.pc \in {"recover", "rollback"}
    /\ RecoverFile \/ Unmark
    /\ UNCHANGED kept /\ Rest /\ Unreported

RecoverSync ==
    /\ pack.pc = "recoverSync"
    /\ Sync
    /\ Goto("recover")
    /\ Rest /\ Unreported

RecoverDone ==
    /\ pack.pc = "recover" /\ Marked = {}
    /\ Put([dir EXCEPT !.temps = [n \in Names |-> None]])
    /\ Goto("cleaned")
    /\ UNCHANGED kept /\ Rest /\ Unreported

\* The sync at the end of cleanup_orphan_pack_temps.
Cleaned ==
    /\ pack.pc = "cleaned"
    /\ Sync
    /\ Goto("preflight")
    /\ Rest /\ Unreported

\* What a pack carries over from the head, and may.
Carries(l) == pack.partial /\ l \notin pack.layers

\* Mutant: the year of what is carried over is not looked at.
CarriedValid == \A l \in Layers : Carries(l) => Valid(dir, l, dir.head[l])

CarriedOk ==
    \A l \in Layers : Carries(l) => Valid(dir, l, dir.head[l]) /\ dir.head[l].year = pack.year

\* A pack that bails out before it wrote anything.
Bail == pack' = None /\ UNCHANGED <<dir, maybe, kept>>

Preflight ==
    /\ pack.pc = "preflight"
    /\ IF pack.partial => dir.head # None /\ CarriedOk
       THEN Goto("stage") /\ UNCHANGED <<dir, maybe, kept>>
       ELSE Bail
    /\ Rest /\ Unreported

\* Mutant: the rename does not wait for the content to be synced.
UnstagedOnDisk == {l \in pack.layers : dir.temps[<<l, pack.build>>] = None}

\* The next layer of the run, in their order, for which P does not hold yet.
Unstaged == {l \in pack.layers : dir.temps[<<l, pack.build>>] = None \/ ~dir.temps[<<l, pack.build>>].durable}
Position(l) == CHOOSE i \in DOMAIN PublishedLayers : PublishedLayers[i] = l
FirstOf(S) == CHOOSE l \in S : \A k \in S : Position(l) <= Position(k)

\* Drop of the staged archives.
Dropped == [n \in Names |-> IF n[2] = pack.build THEN None ELSE dir.temps[n]]

\* StagedArchive::create
Stage ==
    /\ pack.pc = "stage" /\ Unstaged # {}
    /\ LET n == <<FirstOf(Unstaged), pack.build>> IN
       /\ dir.temps[n] = None
       /\ IF dir.files[n] # None
          THEN pack' = None /\ Put([dir EXCEPT !.temps = Dropped])
          ELSE Put([dir EXCEPT !.temps[n] = [run |-> pack.run, durable |-> FALSE]]) /\ UNCHANGED pack
    /\ UNCHANGED kept /\ Rest /\ Unreported

\* The archive is finalized, synced and hashed.
Staged ==
    \E n \in Names :
        /\ dir.temps[n] # None /\ ~dir.temps[n].durable
        /\ Put([dir EXCEPT !.temps[n].durable = TRUE])
        /\ age' = [age EXCEPT ![n] = 0]
        /\ UNCHANGED pack

StageSync ==
    /\ pack.pc = "stage"
    /\ Staged
    /\ UNCHANGED <<kept, swept, tab, handed, runs>> /\ Unreported

\* PackTransaction::begin
Begin ==
    /\ pack.pc = "stage" /\ Unstaged = {}
    /\ Put([dir EXCEPT !.marks[pack.build] = pack.layers])
    /\ Goto("marked")
    /\ UNCHANGED kept /\ Rest /\ Unreported

BeginSync ==
    /\ pack.pc = "marked"
    /\ Sync
    /\ Goto("publish")
    /\ Rest /\ Unreported

Unpublished == {l \in pack.layers : dir.temps[<<l, pack.build>>] # None}

\* StagedArchive::publish: RENAME_NOREPLACE, then a sync of the directory.
Publish ==
    /\ pack.pc = "publish" /\ Unpublished # {}
    /\ LET n == <<FirstOf(Unpublished), pack.build>> IN
       /\ dir.files[n] = None
       /\ Put([dir EXCEPT !.files[n] = dir.temps[n], !.temps[n] = None])
    /\ Goto("published")
    /\ UNCHANGED kept /\ Rest /\ Unreported

PublishSync ==
    /\ pack.pc = "published"
    /\ Sync
    /\ Goto("publish")
    /\ Rest /\ Unreported

\* The entries write_manifest puts together.
Merged ==
    [l \in Layers |->
        IF Carries(l) THEN dir.head[l]
        ELSE [build |-> pack.build, run |-> pack.run, year |-> pack.year]]

\* What write_manifest checks again right before the flip.
MayFlip == (pack.partial => dir.head # None /\ CarriedOk) /\ Servable(dir, Merged)

\* Publishing failed: what is still staged is dropped, what was published
\* is recovered.
FailPublishing ==
    /\ Put([dir EXCEPT !.temps = Dropped])
    /\ Goto("rollback")
    /\ UNCHANGED kept

\* write_manifest, up to the rename of current.json.
Flip ==
    /\ pack.pc = "publish" /\ Unpublished = {}
    /\ MayFlip
    /\ Put([dir EXCEPT !.head = Merged])
    /\ Goto("flipped")
    /\ UNCHANGED kept /\ Rest /\ Unreported

FlipSync ==
    /\ pack.pc = "flipped"
    /\ Sync
    /\ Goto("complete")
    /\ Rest /\ Unreported

\* PackTransaction::complete
Complete ==
    /\ pack.pc = "complete"
    /\ Put([dir EXCEPT !.marks[pack.build] = {}])
    /\ Goto("completed")
    /\ UNCHANGED kept /\ Rest /\ Unreported

CompleteSync ==
    /\ pack.pc = "completed"
    /\ Sync
    /\ pack' = None
    /\ reported' = pack.run
    /\ UNCHANGED faults /\ Rest

\* The end of a recovery in the failing process: the pack has failed.
RollbackSync ==
    /\ pack.pc = "rollbackSync"
    /\ Sync
    /\ pack' = None
    /\ Rest /\ Unreported

-----------------------------------------------------------------------------
(* Faults.                                                                 *)

Fault == faults < MaxFaults /\ faults' = faults + 1 /\ UNCHANGED reported

\* A step of the packer returns an error.
Fail ==
    /\ Fault
    /\ IF pack.pc \in {"publish", "published", "flipped"} THEN FailPublishing
       ELSE /\ pack' = None
            /\ IF pack.pc \in {"stage", "marked"} THEN Put([dir EXCEPT !.temps = Dropped])
               ELSE UNCHANGED <<dir, maybe>>
            /\ UNCHANGED kept
    /\ Rest

Kill ==
    /\ Fault
    /\ pack' = None
    /\ UNCHANGED <<dir, maybe, kept>> /\ Rest

HostCrash ==
    /\ Fault
    /\ dir' \in maybe
    /\ maybe' = {dir'}
    /\ pack' = None
    /\ kept' = kept \cup NamesOf(dir'.head)
    /\ Rest

-----------------------------------------------------------------------------
(* The pins, the sweep, the tabs and the clock.                            *)

\* An environment is switched to what the head names, under .pack.lock: the
\* archives that retires are renewed first, and the switch is synced.
Pin(e) ==
    /\ pack = None
    /\ dir.head # None /\ dir.pins[e] # dir.head
    /\ age' = [n \in Names |-> IF n \in NamesOf(dir.pins[e]) \ NamesOf(dir.head) THEN 0 ELSE age[n]]
    /\ dir' = [dir EXCEPT !.pins[e] = dir.head]
    /\ maybe' = {dir'}
    /\ kept' = kept \cup NamesOf(dir.head)
    /\ UNCHANGED <<pack, tab, swept, handed, runs>> /\ Unreported

Present(d) == {n \in Names : d.files[n] # None}

Keep == NamesOf(dir.head) \cup UNION {NamesOf(dir.pins[e]) : e \in Envs}

\* Mutant: an archive nothing names any more is removed at once.
CandidatesNow == Present(dir) \ Keep

Candidates == {n \in Present(dir) \ Keep : age[n] >= Grace}

\* run_gc --delete.  A removal may fail and is left to the next sweep.
Sweep ==
    /\ pack = None
    /\ dir.head # None
    /\ \E gone \in SUBSET Candidates \ {{}} :
         /\ Put([dir EXCEPT !.files = [n \in Names |-> IF n \in gone THEN None ELSE @[n]]])
         /\ swept' = swept \cup gone
    /\ UNCHANGED <<age, pack, tab, kept, handed, runs>> /\ Unreported

\* A tab fetches /api/tiles-manifest: the pin of its environment, once every
\* archive of it is there.
Refresh(t) ==
    \E e \in Envs :
        /\ dir.pins[e] # None /\ Servable(dir, dir.pins[e])
        /\ tab' = [tab EXCEPT ![t] = [holds |-> dir.pins[e], since |-> 0]]
        /\ handed' = [n \in Names |-> IF n \in NamesOf(dir.pins[e]) /\ handed[n] = None
                                      THEN dir.files[n] ELSE handed[n]]
        /\ UNCHANGED <<dir, maybe, age, pack, kept, swept, runs>> /\ Unreported

\* Mutant: no bound.
OlderYet(n) == age[n] + 1

Older(n) == IF age[n] < Grace THEN age[n] + 1 ELSE Grace

\* A tab that stays open polls every ten minutes.
Tick ==
    /\ \A t \in Tabs : tab[t].holds # None => tab[t].since < Poll
    /\ \E n \in Names : age[n] < Grace /\ (dir.files[n] # None \/ dir.temps[n] # None)
    /\ age' = [n \in Names |-> Older(n)]
    /\ tab' = [t \in Tabs |-> IF tab[t].holds = None THEN tab[t] ELSE [tab[t] EXCEPT !.since = @ + 1]]
    /\ UNCHANGED <<dir, maybe, pack, kept, swept, handed, runs>> /\ Unreported

Close(t) ==
    /\ tab[t].holds # None
    /\ tab' = [tab EXCEPT ![t] = [holds |-> None, since |-> 0]]
    /\ UNCHANGED <<dir, maybe, age, pack, kept, swept, handed, runs>> /\ Unreported

Packing ==
    \/ Recover \/ RecoverSync \/ RecoverDone \/ Cleaned \/ Preflight
    \/ Stage \/ StageSync \/ Begin \/ BeginSync \/ Publish \/ PublishSync
    \/ Flip \/ FlipSync \/ Complete \/ CompleteSync \/ RollbackSync

Next ==
    \/ \E b \in Builds, S \in SUBSET Layers, partial \in BOOLEAN, y \in Years : Start(b, S, partial, y)
    \/ pack # None /\ (Packing \/ Fail \/ Kill)
    \/ HostCrash
    \/ \E e \in Envs : Pin(e)
    \/ Sweep
    \/ \E t \in Tabs : Refresh(t) \/ Close(t)
    \/ Tick

Spec == Init /\ [][Next]_vars

-----------------------------------------------------------------------------
TypeOK ==
    /\ dir \in Directories /\ maybe \subseteq Directories
    /\ pack \in Packs \cup {None}
    /\ age \in [Names -> 0 .. Grace]
    /\ kept \subseteq Names /\ swept \subseteq Names
    /\ handed \in [Names -> Archive \cup {None}]
    /\ reported \in 0 .. MaxPacks /\ runs \in 0 .. MaxPacks /\ faults \in 0 .. MaxFaults
    /\ tab \in [Tabs -> [holds : Manifest \cup {None}, since : 0 .. Poll]]

\* The head and every pin name archives that exist, are the files they were
\* recorded from and cannot be torn, whenever the host crashes
\* (StagedArchive::publish, write_manifest, recover_pack_transaction, run_gc).
ReferencesAreWhole ==
    \A d \in maybe \cup {dir} :
        \A m \in {d.head} \cup {d.pins[e] : e \in Envs} :
            m # None => Servable(d, m) /\ \A n \in NamesOf(m) : d.files[n].durable

\* An archive under a public name is either under a transaction marker or
\* was published: a crash never leaves one behind that would refuse the retry
\* of its build id.
NoOrphan ==
    \A d \in maybe \cup {dir} :
        \A n \in Present(d) : n[1] \in d.marks[n[2]] \/ n \in kept \cup NamesOf(d.head)

\* The names that are referred to and the archives that are there agree, in both
\* directions.
ArchivesMatchReferences == ReferencesAreWhole /\ NoOrphan

\* A name that a browser was ever given keeps its content, whatever fails and
\* is packed again: tiles are cached as immutable for a year.
NamesAreImmutable ==
    \A d \in maybe \cup {dir} :
        \A n \in Names : handed[n] # None /\ d.files[n] # None => d.files[n] = handed[n]

\* What an open tab goes by is still there, also after packs, switches,
\* recoveries and sweeps (the hour of grace of tile-store-gc).
TabsAreServed == \A t \in Tabs : tab[t].holds # None => Servable(dir, tab[t].holds)

\* A browser finds what it was told of, and finds what it cached.
BrowsersAreServed == NamesAreImmutable /\ TabsAreServed

\* A manifest never mixes dataset years, over any sequence of partial packs
\* (validate_carried_generations): the server would refuse it.
OneYear ==
    \A d \in maybe \cup {dir} : d.head # None => \A l, k \in Layers : d.head[l].year = d.head[k].year

\* The run each layer of a head shows.
Shown(d) == [l \in Layers |-> IF d.head = None THEN 0 ELSE d.head[l].run]

\* A pack that exited with success stays published through any host crash.
ReportedSurvives ==
    reported > 0 => \A d \in maybe : \E l \in Layers : Shown(d)[l] >= reported

\* The head is of one year, and not older than what was reported.
HeadIsTrue == OneYear /\ ReportedSurvives

\* What a host crash falls back to: of two heads since the last sync, the
\* earlier.
Settled ==
    CHOOSE s \in {Shown(d) : d \in maybe} : \A d \in maybe : \A l \in Layers : s[l] <= Shown(d)[l]

PUB == INSTANCE Publication WITH shows <- Shown(dir), settled <- Settled

\* The packer implements the abstract publication: all the layers of a run
\* flip at once and nothing else changes what the head shows.
PublicationSpec == PUB!Spec
=============================================================================
