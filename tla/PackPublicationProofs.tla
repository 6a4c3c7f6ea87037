----------------------- MODULE PackPublicationProofs -----------------------
(***************************************************************************)
(* What is published stays whole, for any layers, environments, tabs, pack *)
(* runs and numbers of failures, kills and crashes of the host.            *)
(*                                                                         *)
(* The argument goes by directory, not by time: whatever value a crash may *)
(* return to is as sound as the one the processes see.  Sound says of one  *)
(* value that its references are whole, that a transaction marker is of a  *)
(* build that the head names in all its layers or in none, that an archive *)
(* is under a marker or was published, and that what browsers hold is in   *)
(* it.  A step adds one value, made from a sound one; PackInv says what    *)
(* the packer may rely on when it makes it.                                *)
(***************************************************************************)
EXTENDS PackPublication, WellFoundedInduction, TLAPS

\* All of m is there, and synced.
Whole(d, m) ==
    m # None => \A l \in Layers : Valid(d, l, m[l]) /\ d.files[<<l, m[l].build>>].durable

RefsWhole(d) == Whole(d, d.head) /\ \A e \in Envs : Whole(d, d.pins[e])

\* The head of d names layer l of build b.
HeadNames(d, l, b) == d.head # None /\ d.head[l].build = b

\* The head names all that a marker lists or nothing of it, and what a pin names
\* of it the head does.
MarksWhole(d) ==
    \A b \in Builds : \A l \in d.marks[b] :
        /\ \A k \in d.marks[b] : HeadNames(d, l, b) => HeadNames(d, k, b)
        /\ \A e \in Envs : d.pins[e] # None /\ d.pins[e][l].build = b => HeadNames(d, l, b)

FilesOwned(d) ==
    \A n \in Names : d.files[n] # None =>
        n[1] \in d.marks[n[2]] \/ n \in kept \/ HeadNames(d, n[1], n[2])

\* What a browser was given is there as it was, until the sweep takes it; and no
\* recovery will take it.
HandedStay(d) ==
    \A n \in Names : handed[n] # None =>
        /\ d.files[n] # None => d.files[n] = handed[n]
        /\ n \in swept \/ d.files[n] # None
        /\ n[1] \in d.marks[n[2]] => HeadNames(d, n[1], n[2])

HeadOfOneYear(d) == d.head # None => \A l, k \in Layers : d.head[l].year = d.head[k].year

HeadRuns(d) ==
    /\ d.head # None => \A l \in Layers : d.head[l].run <= runs
    /\ reported > 0 => d.head # None /\ \E l \in Layers : d.head[l].run >= reported

HoldsServable(d) == \A t \in Tabs : tab[t].holds # None => Servable(d, tab[t].holds)

Sound(d) ==
    /\ RefsWhole(d)
    /\ MarksWhole(d)
    /\ FilesOwned(d)
    /\ HandedStay(d)
    /\ HeadOfOneYear(d)
    /\ HeadRuns(d)
    /\ HoldsServable(d)

AllSound == \A d \in maybe : Sound(d)

\* Pins are switched and synced at once.
PinsSettled == \A d \in maybe : d.pins = dir.pins

\* What a tab holds is pinned, or was renewed when it ceased to be.
TabsFresh ==
    \A t \in Tabs : tab[t].holds # None => \A l \in Layers :
        \/ age[<<l, tab[t].holds[l].build>>] <= tab[t].since
        \/ \E e \in Envs : /\ dir.pins[e] # None
                           /\ dir.pins[e][l].build = tab[t].holds[l].build

TabsHanded ==
    \A t \in Tabs : tab[t].holds # None =>
        \A l \in Layers : handed[<<l, tab[t].holds[l].build>>] # None

-----------------------------------------------------------------------------
(* What the packer relies on, phase by phase.                              *)

BeforeFlip ==
    {"recover", "recoverSync", "cleaned", "preflight", "stage", "marked", "publish", "published"}

InTransaction == {"marked", "publish", "published", "flipped", "complete"}

Own == {n \in Names : n[2] = pack.build /\ n[1] \in pack.layers}
Finished == [run |-> pack.run, durable |-> TRUE]
SameHeads == \A d \in maybe : d.head = dir.head

\* A run is later than all before it, and takes no name the sweep removed.
RunIsNew ==
    /\ pack.run = runs /\ reported < pack.run
    /\ pack.layers # {} /\ (pack.partial \/ pack.layers = Layers)
    /\ \A l \in pack.layers : <<l, pack.build>> \notin swept
    /\ pack.pc \in BeforeFlip /\ dir.head # None => \A l \in Layers : dir.head[l].run < pack.run

\* Between recovery and the end the only marker is the packer's own.
MarksAreOwn ==
    /\ pack.pc \in {"cleaned", "preflight", "stage", "completed"} => \A b \in Builds : dir.marks[b] = {}
    /\ pack.pc \in InTransaction =>
           \A b \in Builds : dir.marks[b] = IF b = pack.build THEN pack.layers ELSE {}

\* An archive of the run is staged, then published, whole and once.
StagedInPlace ==
    /\ pack.pc \in {"cleaned", "preflight"} => \A n \in Names : dir.temps[n] = None
    /\ pack.pc = "stage" => \A n \in Names : dir.temps[n] # None =>
           n \in Own /\ dir.temps[n].run = pack.run /\ dir.files[n] = None
    /\ pack.pc = "marked" => \A n \in Own : dir.temps[n] = Finished /\ dir.files[n] = None
    /\ pack.pc \in {"publish", "published"} => \A n \in Own :
           \/ dir.temps[n] = Finished /\ dir.files[n] = None
           \/ dir.temps[n] = None /\ dir.files[n] = Finished

\* The head the flip replaces was synced; the one it makes names all of the run.
HeadInPlace ==
    /\ pack.pc \in {"publish", "published"} => SameHeads /\ NamesOf(dir.head) \subseteq kept
    /\ pack.pc \in {"flipped", "complete", "completed"} =>
           /\ dir.head # None
           /\ \A l \in pack.layers :
                 dir.head[l] = [build |-> pack.build, run |-> pack.run, year |-> pack.year]
    /\ pack.pc \in {"complete", "completed"} => SameHeads

PackInv == pack # None => RunIsNew /\ MarksAreOwn /\ StagedInPlace /\ HeadInPlace

\* A crash leaves the head or the one before the last flip.
HeadsSettle ==
    \E s \in maybe : /\ \A d \in maybe : d.head = s.head \/ d.head = dir.head
                     /\ \A l \in Layers : Shown(s)[l] <= Shown(dir)[l]

PubInv ==
    /\ TypeOK
    /\ reported <= runs
    /\ dir \in maybe
    /\ AllSound
    /\ PinsSettled
    /\ TabsFresh
    /\ TabsHanded
    /\ PackInv
    /\ HeadsSettle

-----------------------------------------------------------------------------
(* Least elements.                                                         *)

Precedes == {ss \in Nat \X Nat : ss[1] < ss[2]}

LEMMA PrecedesIsWellFounded == IsWellFoundedOn(Precedes, Nat)
BY NatLessThanWellFounded, Zenon DEF OpToRel, Precedes

LEMMA LeastNatural ==
    ASSUME NEW T, T \subseteq Nat, T # {}
    PROVE  \E x \in T : \A y \in T : x <= y
<1>1. PICK x \in T : \A y \in T : ~(<<y, x>> \in Precedes)
  BY PrecedesIsWellFounded, WFMin
<1>2. \A y \in T : ~(y < x)
  BY <1>1 DEF Precedes
<1> QED BY <1>2

\* Recovery takes a marker that is there.
LEMMA FirstMarkIsOne ==
    ASSUME ToRecover # {}
    PROVE  FirstMark \in ToRecover
<1>1. ToRecover \subseteq Nat
  BY DEF ToRecover, Marked, Builds
<1>2. \E b \in ToRecover : \A c \in ToRecover : b <= c
  BY <1>1, LeastNatural
<1> QED BY <1>2 DEF FirstMark

LEMMA FirstOfIsOne ==
    ASSUME NEW S, S \subseteq Layers, S # {}
    PROVE  FirstOf(S) \in S
<1> DEFINE T == {Position(l) : l \in S}
<1>1. \A l \in Layers : Position(l) \in DOMAIN PublishedLayers
  BY DEF Layers, Position
<1>2. DOMAIN PublishedLayers \subseteq Nat
  BY PublicationAssumption DEF PublicationAssumption
<1>3. T \subseteq Nat /\ T # {}
  BY <1>1, <1>2
<1>4. PICK x \in T : \A y \in T : x <= y
  BY <1>3, LeastNatural
<1>5. \E l \in S : \A k \in S : Position(l) <= Position(k)
  BY <1>4
<1> QED BY <1>5 DEF FirstOf

-----------------------------------------------------------------------------
(* Types.                                                                  *)

LEMMA PutTypes ==
    ASSUME dir \in Directories, maybe \subseteq Directories, NEW d \in Directories, Put(d)
    PROVE  dir' \in Directories /\ maybe' \subseteq Directories /\ dir' = d /\ maybe' = maybe \cup {d}
BY DEF Put

\* One change of a directory gives a directory.
LEMMA DirectoryChanges ==
    ASSUME NEW d \in Directories
    PROVE  /\ \A n \in Names, a, c \in Archive \cup {None} :
                  [d EXCEPT !.files[n] = a, !.temps[n] = c] \in Directories
           /\ \A n \in Names, a \in Archive \cup {None} : [d EXCEPT !.temps[n] = a] \in Directories
           /\ \A f \in [Names -> Archive \cup {None}] :
                  [d EXCEPT !.temps = f] \in Directories /\ [d EXCEPT !.files = f] \in Directories
           /\ \A b \in Builds, S \in SUBSET Layers : [d EXCEPT !.marks[b] = S] \in Directories
           /\ \A m \in Manifest : [d EXCEPT !.head = m] \in Directories
           /\ \A e \in Envs, m \in Manifest : [d EXCEPT !.pins[e] = m] \in Directories
BY DEF Directories

\* The parts of a directory.
LEMMA DirectoryParts ==
    ASSUME NEW d \in Directories
    PROVE  /\ d.files \in [Names -> Archive \cup {None}]
           /\ d.temps \in [Names -> Archive \cup {None}]
           /\ d.marks \in [Builds -> SUBSET Layers]
           /\ d.head \in Manifest \cup {None}
           /\ d.pins \in [Envs -> Manifest \cup {None}]
           /\ d = [files |-> d.files, temps |-> d.temps, marks |-> d.marks, head |-> d.head,
                   pins |-> d.pins]
BY DEF Directories

LEMMA NamesOfAreNames ==
    ASSUME NEW m \in Manifest \cup {None}
    PROVE  NamesOf(m) \subseteq Names
BY DEF NamesOf, Names, Manifest, Entry

LEMMA PackParts ==
    ASSUME TypeOK, pack # None
    PROVE  /\ pack \in Packs
           /\ pack.build \in Builds /\ pack.layers \subseteq Layers /\ pack.year \in Years
           /\ pack.run \in Runs /\ pack.partial \in BOOLEAN
           /\ \A l \in pack.layers : <<l, pack.build>> \in Names
           /\ \A pc \in PackPhases : [pack EXCEPT !.pc = pc] \in Packs
BY DEF TypeOK, Packs, Names

LEMMA MergedIsManifest ==
    ASSUME TypeOK, pack # None, MayFlip
    PROVE  Merged \in Manifest
<1>1. \A l \in Layers : Carries(l) => dir.head[l] \in Entry
  BY DirectoryParts DEF MayFlip, Carries, TypeOK, Manifest
<1>2. [build |-> pack.build, run |-> pack.run, year |-> pack.year] \in Entry
  BY PackParts DEF Entry
<1> QED BY <1>1, <1>2 DEF Merged, Manifest

\* A step of the packer that writes one value of the directory, and one that
\* syncs it.
LEMMA PutStepTypes ==
    ASSUME TypeOK, NEW d \in Directories, Put(d), pack' \in Packs \cup {None},
           UNCHANGED <<age, tab, kept, swept, handed, reported, runs, faults>>
    PROVE  TypeOK'
BY PutTypes DEF TypeOK

LEMMA SyncStepTypes ==
    ASSUME TypeOK, Sync, pack' \in Packs \cup {None}, reported' \in 0 .. MaxPacks,
           UNCHANGED <<age, tab, swept, handed, runs, faults>>
    PROVE  TypeOK'
<1>1. kept' \subseteq Names
  BY NamesOfAreNames, DirectoryParts DEF TypeOK, Sync
<1>2. dir' \in Directories /\ maybe' \subseteq Directories
  BY DEF TypeOK, Sync
<1> QED BY <1>1, <1>2 DEF TypeOK

LEMMA PackingTypes ==
    ASSUME TypeOK, pack # None, Packing
    PROVE  TypeOK'
<1> USE DEF Rest, Unreported, Goto
<1>0. dir \in Directories
  BY DEF TypeOK
<1>d. \A d \in Directories, n \in Names, S \in SUBSET Layers :
          d.files[n] \in Archive \cup {None} /\ d.temps[n] \in Archive \cup {None}
  BY DirectoryParts
<1>1. CASE Recover
  <2>1. FirstMark \in Builds /\ Debris(FirstMark) \subseteq Names
    BY <1>1, FirstMarkIsOne DEF Recover, RecoverFile, Unmark, ToRecover, Marked, Debris
  <2>2. CASE RecoverFile
    <3>1. PICK n \in Names : Put([dir EXCEPT !.files[n] = IF Committed(n[2]) THEN @ ELSE None, !.temps[n] = None])
      BY <2>1, <2>2 DEF RecoverFile
    <3>2. PICK a \in Archive \cup {None} : a = IF Committed(n[2]) THEN dir.files[n] ELSE None
      BY <1>0, <1>d
    <3>3. Put([dir EXCEPT !.files[n] = a, !.temps[n] = None])
      BY <3>1, <3>2
    <3>4. [dir EXCEPT !.files[n] = a, !.temps[n] = None] \in Directories
      BY <1>0, DirectoryChanges
    <3>5. pack' \in Packs \cup {None}
      BY <2>2, PackParts DEF RecoverFile
    <3> QED BY <1>1, <3>3, <3>4, <3>5, PutStepTypes DEF Recover
  <2>3. CASE Unmark
    <3>1. [dir EXCEPT !.marks[FirstMark] = {}] \in Directories
      BY <1>0, <2>1, DirectoryChanges
    <3>2. pack' \in Packs \cup {None}
      BY <2>3, PackParts DEF Unmark, PackPhases
    <3> QED BY <1>1, <2>3, <3>1, <3>2, PutStepTypes DEF Recover, Unmark
  <2> QED BY <1>1, <2>2, <2>3 DEF Recover
<1>2. CASE RecoverSync \/ Cleaned \/ BeginSync \/ PublishSync \/ FlipSync \/ RollbackSync \/ CompleteSync
  <2>1. pack' \in Packs \cup {None} /\ reported' \in 0 .. MaxPacks /\ Sync
        /\ UNCHANGED <<age, tab, swept, handed, runs, faults>>
    BY <1>2, PackParts DEF RecoverSync, Cleaned, BeginSync, PublishSync, FlipSync,
        RollbackSync, CompleteSync, PackPhases, TypeOK, Runs
  <2> QED BY <2>1, SyncStepTypes
<1>3. CASE RecoverDone
  <2>1. [dir EXCEPT !.temps = [n \in Names |-> None]] \in Directories
    BY <1>0, DirectoryChanges
  <2>2. pack' \in Packs
    BY <1>3, PackParts DEF RecoverDone, PackPhases
  <2> QED BY <1>3, <2>1, <2>2, PutStepTypes DEF RecoverDone
<1>4. CASE Preflight
  BY <1>4, PackParts DEF Preflight, Bail, TypeOK, PackPhases
<1>5. CASE Stage
  <2>1. Unstaged \subseteq Layers /\ FirstOf(Unstaged) \in Unstaged /\ Unstaged \subseteq pack.layers
    BY <1>5, FirstOfIsOne, PackParts DEF Stage, Unstaged
  <2>2. Dropped \in [Names -> Archive \cup {None}]
    BY <1>0, DirectoryParts DEF Dropped
  <2>3. [dir EXCEPT !.temps = Dropped] \in Directories
    BY <1>0, <2>2, DirectoryChanges
  <2>4. [run |-> pack.run, durable |-> FALSE] \in Archive
    BY PackParts DEF Archive
  <2>5. [dir EXCEPT !.temps[<<FirstOf(Unstaged), pack.build>>] = [run |-> pack.run, durable |-> FALSE]]
            \in Directories
    BY <1>0, <2>1, <2>4, PackParts, DirectoryChanges
  <2> QED BY <1>5, <2>3, <2>5, PutStepTypes, PackParts DEF Stage
<1>6. CASE StageSync
  <2>1. PICK n \in Names : /\ dir.temps[n] # None
                           /\ Put([dir EXCEPT !.temps[n].durable = TRUE])
                           /\ age' = [age EXCEPT ![n] = 0]
                           /\ UNCHANGED pack
    BY <1>6 DEF StageSync, Staged
  <2>2. PICK a \in Archive : a = [dir.temps[n] EXCEPT !.durable = TRUE]
    BY <1>0, <1>d, <2>1 DEF Archive
  <2>3. Put([dir EXCEPT !.temps[n] = a])
    BY <2>1, <2>2
  <2>4. [dir EXCEPT !.temps[n] = a] \in Directories
    BY <1>0, DirectoryChanges
  <2>5. dir' \in Directories /\ maybe' \subseteq Directories
    BY <2>3, <2>4, PutTypes DEF TypeOK
  <2>6. age' \in [Names -> 0 .. Grace]
    BY <2>1, PublicationAssumption DEF TypeOK, PublicationAssumption
  <2> QED BY <1>6, <2>1, <2>5, <2>6 DEF StageSync, TypeOK
<1>7. CASE Begin
  <2>1. [dir EXCEPT !.marks[pack.build] = pack.layers] \in Directories
    BY <1>0, DirectoryChanges, PackParts
  <2>2. pack' \in Packs
    BY <1>7, PackParts DEF Begin, PackPhases
  <2> QED BY <1>7, <2>1, <2>2, PutStepTypes DEF Begin
<1>8. CASE Publish
  <2>1. FirstOf(Unpublished) \in pack.layers
    BY <1>8, FirstOfIsOne, PackParts DEF Publish, Unpublished
  <2>2. [dir EXCEPT !.files[<<FirstOf(Unpublished), pack.build>>] =
                        dir.temps[<<FirstOf(Unpublished), pack.build>>],
                    !.temps[<<FirstOf(Unpublished), pack.build>>] = None] \in Directories
    BY <1>0, <1>d, <2>1, DirectoryChanges, PackParts
  <2>3. pack' \in Packs
    BY <1>8, PackParts DEF Publish, PackPhases
  <2> QED BY <1>8, <2>2, <2>3, PutStepTypes DEF Publish
<1>9. CASE Flip
  <2>1. [dir EXCEPT !.head = Merged] \in Directories
    BY <1>0, <1>9, DirectoryChanges, MergedIsManifest DEF Flip
  <2>2. pack' \in Packs
    BY <1>9, PackParts DEF Flip, PackPhases
  <2> QED BY <1>9, <2>1, <2>2, PutStepTypes DEF Flip
<1>10. CASE Complete
  <2>1. [dir EXCEPT !.marks[pack.build] = {}] \in Directories
    BY <1>0, DirectoryChanges, PackParts
  <2>2. pack' \in Packs
    BY <1>10, PackParts DEF Complete, PackPhases
  <2> QED BY <1>10, <2>1, <2>2, PutStepTypes DEF Complete
<1> QED
  BY <1>1, <1>2, <1>3, <1>4, <1>5, <1>6, <1>7, <1>8, <1>9, <1>10 DEF Packing

LEMMA FaultTypes ==
    ASSUME TypeOK, (Fail /\ pack # None) \/ Kill \/ HostCrash
    PROVE  TypeOK'
<1> USE DEF Rest, Fault
<1>0. dir \in Directories /\ faults' \in 0 .. MaxFaults
  BY PublicationAssumption DEF TypeOK, Fail, Kill, HostCrash, PublicationAssumption
<1>1. CASE Fail /\ pack # None
  <2>1. Dropped \in [Names -> Archive \cup {None}]
    BY <1>0, DirectoryParts DEF Dropped
  <2>2. [dir EXCEPT !.temps = Dropped] \in Directories
    BY <1>0, <2>1, DirectoryChanges
  <2>3. dir' \in Directories /\ maybe' \subseteq Directories
    BY <1>1, <2>2, PutTypes DEF Fail, FailPublishing, TypeOK
  <2>4. pack' \in Packs \cup {None} /\ kept' = kept
    BY <1>1, PackParts DEF Fail, FailPublishing, Goto, PackPhases
  <2> QED BY <1>0, <1>1, <2>3, <2>4 DEF Fail, TypeOK
<1>2. CASE Kill
  BY <1>0, <1>2 DEF Kill, TypeOK
<1>3. CASE HostCrash
  <2>1. dir' \in Directories /\ maybe' \subseteq Directories
    BY <1>3 DEF HostCrash, TypeOK
  <2>2. kept' \subseteq Names
    BY <1>3, <2>1, NamesOfAreNames, DirectoryParts DEF HostCrash, TypeOK
  <2> QED BY <1>0, <1>3, <2>1, <2>2 DEF HostCrash, TypeOK
<1> QED BY <1>1, <1>2, <1>3

LEMMA OthersTypes ==
    ASSUME TypeOK,
           \/ \E b \in Builds, S \in SUBSET Layers, partial \in BOOLEAN, y \in Years : Start(b, S, partial, y)
           \/ \E e \in Envs : Pin(e)
           \/ Sweep
           \/ \E t \in Tabs : Refresh(t) \/ Close(t)
           \/ Tick
    PROVE  TypeOK'
<1> USE DEF Unreported
<1>0. dir \in Directories
  BY DEF TypeOK
<1>1. ASSUME NEW b \in Builds, NEW S \in SUBSET Layers, NEW partial \in BOOLEAN, NEW y \in Years,
             Start(b, S, partial, y)
      PROVE  TypeOK'
  <2>1. runs + 1 \in Runs /\ runs' \in 0 .. MaxPacks
    BY <1>1, PublicationAssumption DEF Start, TypeOK, Runs, PublicationAssumption
  <2>2. pack' \in Packs
    BY <1>1, <2>1 DEF Start, Packs, PackPhases
  <2> QED BY <1>1, <2>1, <2>2 DEF Start, TypeOK
<1>2. ASSUME NEW e \in Envs, Pin(e)
      PROVE  TypeOK'
  <2>1. dir.head \in Manifest
    BY <1>0, <1>2, DirectoryParts DEF Pin
  <2>. [dir EXCEPT !.pins[e] = dir.head] \in Directories
    BY <1>0, <2>1, DirectoryChanges
  <2>2. dir' \in Directories /\ maybe' \subseteq Directories
    BY <1>2 DEF Pin
  <2>3. age' \in [Names -> 0 .. Grace]
    BY <1>2, PublicationAssumption DEF Pin, TypeOK, PublicationAssumption
  <2>4. kept' \subseteq Names
    BY <1>2, <2>1, NamesOfAreNames DEF Pin, TypeOK
  <2> QED BY <1>2, <2>2, <2>3, <2>4 DEF Pin, TypeOK
<1>3. CASE Sweep
  <2>1. PICK gone \in SUBSET Candidates :
            /\ Put([dir EXCEPT !.files = [n \in Names |-> IF n \in gone THEN None ELSE @[n]]])
            /\ swept' = swept \cup gone
    BY <1>3 DEF Sweep
  <2>2. [n \in Names |-> IF n \in gone THEN None ELSE dir.files[n]] \in [Names -> Archive \cup {None}]
    BY <1>0, DirectoryParts
  <2>3. [dir EXCEPT !.files = [n \in Names |-> IF n \in gone THEN None ELSE dir.files[n]]] \in Directories
    BY <1>0, <2>2, DirectoryChanges
  <2>4. dir' \in Directories /\ maybe' \subseteq Directories
    BY <2>1, <2>3, PutTypes DEF TypeOK
  <2>5. swept' \subseteq Names
    BY <2>1 DEF Candidates, Present, TypeOK
  <2> QED BY <1>3, <2>4, <2>5 DEF Sweep, TypeOK
<1>4. ASSUME NEW t \in Tabs, Refresh(t)
      PROVE  TypeOK'
  <2>1. PICK e \in Envs :
        /\ dir.pins[e] # None
        /\ tab' = [tab EXCEPT ![t] = [holds |-> dir.pins[e], since |-> 0]]
        /\ handed' = [n \in Names |-> IF n \in NamesOf(dir.pins[e]) /\ handed[n] = None
                                      THEN dir.files[n] ELSE handed[n]]
        /\ UNCHANGED <<dir, maybe, age, pack, kept, swept, runs>> /\ Unreported
    BY <1>4 DEF Refresh
  <2>2. dir.pins[e] \in Manifest
    BY <1>0, <2>1, DirectoryParts
  <2>3. tab' \in [Tabs -> [holds : Manifest \cup {None}, since : 0 .. Poll]]
    BY <2>1, <2>2, PublicationAssumption DEF TypeOK, PublicationAssumption
  <2>4. handed' \in [Names -> Archive \cup {None}]
    BY <1>0, <2>1, DirectoryParts DEF TypeOK
  <2> QED BY <2>1, <2>3, <2>4 DEF TypeOK
<1>5. ASSUME NEW t \in Tabs, Close(t)
      PROVE  TypeOK'
  BY <1>5, PublicationAssumption DEF Close, TypeOK, PublicationAssumption
<1>6. CASE Tick
  <2>1. age' \in [Names -> 0 .. Grace]
    BY <1>6, PublicationAssumption DEF Tick, Older, TypeOK, PublicationAssumption
  <2>2. ASSUME NEW t \in Tabs, tab[t].holds # None
        PROVE  [tab[t] EXCEPT !.since = @ + 1] \in [holds : Manifest \cup {None}, since : 0 .. Poll]
    <3>1. tab[t] \in [holds : Manifest \cup {None}, since : 0 .. Poll] /\ tab[t].since < Poll
      BY <1>6, <2>2 DEF Tick, TypeOK
    <3>2. tab[t].since + 1 \in 0 .. Poll
      BY <3>1, PublicationAssumption DEF PublicationAssumption
    <3> QED BY <3>1, <3>2
  <2>3. tab' \in [Tabs -> [holds : Manifest \cup {None}, since : 0 .. Poll]]
    BY <1>6, <2>2 DEF Tick, TypeOK
  <2> QED BY <1>6, <2>1, <2>3 DEF Tick, TypeOK
<1> QED BY <1>1, <1>2, <1>3, <1>4, <1>5, <1>6

LEMMA StepTypes ==
    ASSUME TypeOK, [Next]_vars
    PROVE  TypeOK'
<1>1. CASE UNCHANGED vars
  BY <1>1 DEF vars, TypeOK
<1> QED BY <1>1, PackingTypes, FaultTypes, OthersTypes DEF Next

LEMMA InitTypes ==
    ASSUME Init
    PROVE  TypeOK
BY PublicationAssumption DEF Init, TypeOK, Directories, PublicationAssumption

-----------------------------------------------------------------------------
(* How soundness passes from one value of the directory to the next.       *)

\* A value stays sound while the histories grow.
LEMMA SoundIsStable ==
    ASSUME NEW d \in Directories, Sound(d),
           runs \in Nat, runs' \in Nat, runs <= runs', kept \subseteq kept', swept \subseteq swept',
           UNCHANGED <<handed, tab>>,
           \/ reported' = reported
           \/ d.head # None /\ \E l \in Layers : d.head[l].run >= reported'
    PROVE  Sound(d)'
<1>1. RefsWhole(d)' /\ MarksWhole(d)' /\ HeadOfOneYear(d)'
  BY DEF Sound, RefsWhole, Whole, MarksWhole, HeadOfOneYear, HeadNames, Valid
<1>2. FilesOwned(d)'
  BY DEF Sound, FilesOwned, HeadNames
<1>3. HandedStay(d)'
  BY DEF Sound, HandedStay, HeadNames
<1>4. HeadRuns(d)'
  <2>1. d.head # None => \A l \in Layers : d.head[l].run \in Nat
    BY DirectoryParts DEF Manifest, Entry, Runs
  <2> QED BY <2>1 DEF Sound, HeadRuns
<1>5. HoldsServable(d)'
  BY DEF Sound, HoldsServable, Servable, Valid
<1> QED BY <1>1, <1>2, <1>3, <1>4, <1>5 DEF Sound

\* Staged archives do not matter to it.
LEMMA SoundWithoutTemps ==
    ASSUME NEW d, NEW e, Sound(d), e.files = d.files, e.marks = d.marks, e.head = d.head,
           e.pins = d.pins
    PROVE  Sound(e)
BY DEF Sound, RefsWhole, Whole, Valid, MarksWhole, FilesOwned, HandedStay, HeadOfOneYear,
    HeadRuns, HoldsServable, Servable, HeadNames

\* What a marker lists and the head does not name may go.
LEMMA SoundAfterRemoval ==
    ASSUME TypeOK, TabsHanded, NEW d \in Directories, NEW e, Sound(d), NEW n \in Names,
           n[1] \in d.marks[n[2]], \E l \in d.marks[n[2]] : ~HeadNames(d, l, n[2]),
           e.files = [d.files EXCEPT ![n] = None], e.marks = d.marks, e.head = d.head, e.pins = d.pins
    PROVE  Sound(e)
<1>0. n[1] \in Layers /\ n[2] \in Builds /\ n = <<n[1], n[2]>>
  BY DEF Names
<1>1. ~HeadNames(d, n[1], n[2])
  BY <1>0 DEF Sound, MarksWhole
<1>2. \A p \in Envs : ~(d.pins[p] # None /\ d.pins[p][n[1]].build = n[2])
  BY <1>0, <1>1 DEF Sound, MarksWhole
<1>3. handed[n] = None
  BY <1>1 DEF Sound, HandedStay
<1>4. \A k \in Names : e.files[k] = IF k = n THEN None ELSE d.files[k]
  BY DirectoryParts
<1>h. \A l \in Layers : d.head # None => <<l, d.head[l].build>> \in Names /\ <<l, d.head[l].build>> # n
  BY <1>1, DirectoryParts DEF Names, Manifest, Entry, HeadNames
<1>p. \A p \in Envs, l \in Layers : d.pins[p] # None =>
          <<l, d.pins[p][l].build>> \in Names /\ <<l, d.pins[p][l].build>> # n
  BY <1>2, DirectoryParts DEF Names, Manifest, Entry
<1>5. RefsWhole(e)
  BY <1>4, <1>h, <1>p DEF Sound, RefsWhole, Whole, Valid
<1>6. MarksWhole(e) /\ HeadOfOneYear(e) /\ HeadRuns(e)
  BY DEF Sound, MarksWhole, HeadOfOneYear, HeadRuns, HeadNames
<1>7. FilesOwned(e) /\ HandedStay(e)
  BY <1>3, <1>4 DEF Sound, FilesOwned, HandedStay, HeadNames
<1>8. HoldsServable(e)
  <2> SUFFICES ASSUME NEW t \in Tabs, tab[t].holds # None, NEW l \in Layers
               PROVE  Valid(e, l, tab[t].holds[l])
    BY DEF HoldsServable, Servable
  <2>1. tab[t].holds \in Manifest
    BY DEF TypeOK
  <2>2. <<l, tab[t].holds[l].build>> \in Names /\ <<l, tab[t].holds[l].build>> # n
    BY <1>3, <2>1 DEF TabsHanded, Names, Manifest, Entry
  <2>3. Valid(d, l, tab[t].holds[l])
    BY DEF Sound, HoldsServable, Servable
  <2> QED BY <1>4, <2>2, <2>3 DEF Valid
<1> QED BY <1>5, <1>6, <1>7, <1>8 DEF Sound

\* A marker may go that lists only what the head names and what is not there.
LEMMA SoundAfterUnmark ==
    ASSUME NEW d \in Directories, NEW e, Sound(d), NEW b \in Builds,
           \A l \in d.marks[b] : HeadNames(d, l, b) \/ d.files[<<l, b>>] = None,
           e.marks = [d.marks EXCEPT ![b] = {}], e.files = d.files, e.head = d.head, e.pins = d.pins
    PROVE  Sound(e)
<1>1. \A c \in Builds : e.marks[c] = IF c = b THEN {} ELSE d.marks[c]
  BY DirectoryParts
<1>2. RefsWhole(e) /\ HeadOfOneYear(e) /\ HeadRuns(e) /\ HoldsServable(e)
  BY DEF Sound, RefsWhole, Whole, Valid, HeadOfOneYear, HeadRuns, HoldsServable, Servable
<1>3. MarksWhole(e)
  BY <1>1 DEF Sound, MarksWhole, HeadNames
<1>4. FilesOwned(e)
  BY <1>1 DEF Sound, FilesOwned, HeadNames, Names
<1>5. HandedStay(e)
  BY <1>1 DEF Sound, HandedStay, HeadNames, Names
<1> QED BY <1>2, <1>3, <1>4, <1>5 DEF Sound

\* What is named is there.
LEMMA NamedIsThere ==
    ASSUME NEW d \in Directories, RefsWhole(d), NEW l \in Layers
    PROVE  /\ d.head # None => d.files[<<l, d.head[l].build>>] # None
           /\ \A p \in Envs : d.pins[p] # None => d.files[<<l, d.pins[p][l].build>>] # None
<1>1. d.head # None => Valid(d, l, d.head[l])
  BY DEF RefsWhole, Whole
<1>2. \A p \in Envs : d.pins[p] # None => Valid(d, l, d.pins[p][l])
  BY DEF RefsWhole, Whole
<1> QED BY <1>1, <1>2 DEF Valid

\* A transaction begins for names that are not there and were not swept.
LEMMA SoundAfterBegin ==
    ASSUME NEW d \in Directories, NEW e, Sound(d), NEW b \in Builds, NEW S \in SUBSET Layers,
           d.marks[b] = {}, \A l \in S : d.files[<<l, b>>] = None /\ <<l, b>> \notin swept,
           e.marks = [d.marks EXCEPT ![b] = S], e.files = d.files, e.head = d.head, e.pins = d.pins
    PROVE  Sound(e)
<1>1. \A c \in Builds : e.marks[c] = IF c = b THEN S ELSE d.marks[c]
  BY DirectoryParts
<1>2. RefsWhole(e) /\ HeadOfOneYear(e) /\ HeadRuns(e) /\ HoldsServable(e)
  BY DEF Sound, RefsWhole, Whole, Valid, HeadOfOneYear, HeadRuns, HoldsServable, Servable
<1>3. \A l \in S : ~HeadNames(d, l, b)
  BY NamedIsThere DEF Sound, HeadNames
<1>4. ASSUME NEW l \in S, NEW p \in Envs, d.pins[p] # None
      PROVE  d.pins[p][l].build # b
  <2>1. d.files[<<l, d.pins[p][l].build>>] # None
    BY <1>4, NamedIsThere DEF Sound
  <2> QED BY <2>1
<1>5. MarksWhole(e)
  <2> SUFFICES ASSUME NEW c \in Builds, NEW l \in e.marks[c]
               PROVE  /\ \A k \in e.marks[c] : HeadNames(e, l, c) => HeadNames(e, k, c)
                      /\ \A p \in Envs : e.pins[p] # None /\ e.pins[p][l].build = c =>
                             HeadNames(e, l, c)
    BY DEF MarksWhole
  <2>1. CASE c = b
    BY <1>1, <1>3, <1>4, <2>1 DEF HeadNames
  <2>2. CASE c # b
    BY <1>1, <2>2 DEF Sound, MarksWhole, HeadNames
  <2> QED BY <2>1, <2>2
<1>6. FilesOwned(e)
  BY <1>1 DEF Sound, FilesOwned, HeadNames, Names
<1>7. HandedStay(e)
  <2> SUFFICES ASSUME NEW n \in Names, handed[n] # None
               PROVE  /\ e.files[n] # None => e.files[n] = handed[n]
                      /\ n \in swept \/ e.files[n] # None
                      /\ n[1] \in e.marks[n[2]] => HeadNames(e, n[1], n[2])
    BY DEF HandedStay
  <2>1. n[2] \in Builds /\ n = <<n[1], n[2]>>
    BY DEF Names
  <2>2. n[2] = b => n[1] \notin S
    BY <2>1 DEF Sound, HandedStay
  <2> QED BY <1>1, <2>1, <2>2 DEF Sound, HandedStay, HeadNames
<1> QED BY <1>2, <1>5, <1>6, <1>7 DEF Sound

\* What a marker lists is published where nothing was.
LEMMA SoundAfterPublish ==
    ASSUME TypeOK, NEW d \in Directories, NEW e, Sound(d), NEW n \in Names, NEW a \in Archive,
           n[1] \in d.marks[n[2]], d.files[n] = None, n \notin swept,
           e.files = [d.files EXCEPT ![n] = a], e.marks = d.marks, e.head = d.head, e.pins = d.pins
    PROVE  Sound(e)
<1>1. \A k \in Names : e.files[k] = IF k = n THEN a ELSE d.files[k]
  BY DirectoryParts
<1>2. handed[n] = None
  BY DEF Sound, HandedStay
<1>3. \A l \in Layers, m \in Manifest : Valid(d, l, m[l]) =>
          <<l, m[l].build>> \in Names /\ <<l, m[l].build>> # n
  BY DEF Valid, Names, Manifest, Entry
<1>4. \A l \in Layers, m \in Manifest : Valid(d, l, m[l]) =>
          Valid(e, l, m[l]) /\ e.files[<<l, m[l].build>>] = d.files[<<l, m[l].build>>]
  BY <1>1, <1>3 DEF Valid
<1>5. RefsWhole(e)
  <2>1. \A m \in Manifest \cup {None} : Whole(d, m) => Whole(e, m)
    BY <1>4 DEF Whole
  <2>2. Whole(d, d.head) /\ \A p \in Envs : Whole(d, d.pins[p])
    BY DEF Sound, RefsWhole
  <2> QED BY <2>1, <2>2, DirectoryParts DEF RefsWhole
<1>6. MarksWhole(e) /\ HeadOfOneYear(e) /\ HeadRuns(e)
  BY DEF Sound, MarksWhole, HeadOfOneYear, HeadRuns, HeadNames
<1>7. FilesOwned(e) /\ HandedStay(e)
  BY <1>1, <1>2 DEF Sound, FilesOwned, HandedStay, HeadNames
<1>8. HoldsServable(e)
  BY <1>4 DEF Sound, HoldsServable, Servable, TypeOK
<1> QED BY <1>5, <1>6, <1>7, <1>8 DEF Sound

\* The head changes to what is there, names all that is marked, and leaves none
\* of the old one unaccounted for.
LEMMA SoundAfterFlip ==
    ASSUME NEW d \in Directories, NEW e, Sound(d), NEW m \in Manifest,
           Whole(d, m), NamesOf(d.head) \subseteq kept,
           \A b \in Builds : \A l \in d.marks[b] : m[l].build = b,
           \A l, k \in Layers : m[l].year = m[k].year,
           \A l \in Layers : m[l].run <= runs,
           \E l \in Layers : m[l].run >= reported,
           e.head = m, e.files = d.files, e.marks = d.marks, e.pins = d.pins
    PROVE  Sound(e)
<1>0. m # None
  BY PublicationAssumption DEF PublicationAssumption
<1>1. RefsWhole(e)
  BY DEF Sound, RefsWhole, Whole, Valid
<1>2. \A b \in Builds : \A l \in d.marks[b] : HeadNames(e, l, b)
  BY <1>0 DEF HeadNames
<1>3. MarksWhole(e)
  BY <1>2 DEF MarksWhole
<1>4. \A n \in Names : HeadNames(d, n[1], n[2]) => n \in kept
  BY DEF NamesOf, HeadNames, Names
<1>5. FilesOwned(e)
  BY <1>4 DEF Sound, FilesOwned
<1>6. HandedStay(e)
  BY <1>2 DEF Sound, HandedStay, Names
<1>7. HeadOfOneYear(e) /\ HeadRuns(e) /\ HoldsServable(e)
  BY <1>0 DEF Sound, HeadOfOneYear, HeadRuns, HoldsServable, Servable, Valid
<1> QED BY <1>1, <1>3, <1>5, <1>6, <1>7 DEF Sound

\* The sweep takes what neither the head nor a pin nor an open tab names.
LEMMA SoundAfterSweep ==
    ASSUME TypeOK, NEW d \in Directories, NEW e, Sound(d), NEW gone \in SUBSET Names,
           \A l \in Layers : d.head # None => <<l, d.head[l].build>> \notin gone,
           \A p \in Envs, l \in Layers : d.pins[p] # None => <<l, d.pins[p][l].build>> \notin gone,
           \A t \in Tabs, l \in Layers : tab[t].holds # None => <<l, tab[t].holds[l].build>> \notin gone,
           \A n \in Names : e.files[n] = IF n \in gone THEN None ELSE d.files[n],
           e.marks = d.marks, e.head = d.head, e.pins = d.pins,
           swept' = swept \cup gone, UNCHANGED <<kept, handed, tab, runs, reported>>
    PROVE  Sound(e)'
<1>1. \A l \in Layers, m \in Manifest : <<l, m[l].build>> \in Names
  BY DEF Names, Manifest, Entry
<1>2. \A l \in Layers, m \in Manifest : Valid(d, l, m[l]) /\ <<l, m[l].build>> \notin gone =>
          Valid(e, l, m[l]) /\ e.files[<<l, m[l].build>>] = d.files[<<l, m[l].build>>]
  BY <1>1 DEF Valid
<1>3. RefsWhole(e)'
  <2>1. Whole(e, e.head)
    BY <1>2, DirectoryParts DEF Sound, RefsWhole, Whole
  <2>2. \A p \in Envs : Whole(e, e.pins[p])
    BY <1>2, DirectoryParts DEF Sound, RefsWhole, Whole
  <2> QED BY <2>1, <2>2 DEF RefsWhole, Whole, Valid
<1>4. MarksWhole(e)' /\ HeadOfOneYear(e)' /\ HeadRuns(e)'
  BY DEF Sound, MarksWhole, HeadOfOneYear, HeadRuns, HeadNames
<1>5. FilesOwned(e)' /\ HandedStay(e)'
  BY DEF Sound, FilesOwned, HandedStay, HeadNames
<1>6. HoldsServable(e)
  BY <1>2 DEF Sound, HoldsServable, Servable, TypeOK
<1>7. HoldsServable(e)'
  BY <1>6 DEF HoldsServable, Servable, Valid
<1> QED BY <1>3, <1>4, <1>5, <1>7 DEF Sound

-----------------------------------------------------------------------------
(* The parts of the invariant that do not depend on which step it was.     *)

\* A value with the same head and the same pins is written.
LEMMA PutKeeps ==
    ASSUME PubInv, NEW e \in Directories, Put(e), Sound(e), e.pins = dir.pins, e.head = dir.head,
           UNCHANGED <<kept, handed, tab, swept, reported, runs>>,
           \A n \in Names : age'[n] <= age[n],
           TypeOK', PackInv'
    PROVE  PubInv'
<1>0. TypeOK /\ maybe \subseteq Directories /\ runs \in Nat
  BY DEF PubInv, TypeOK
<1>1. dir' = e /\ maybe' = maybe \cup {e} /\ dir' \in maybe'
  BY DEF Put
<1>2. AllSound'
  <2> SUFFICES ASSUME NEW d \in maybe'
               PROVE  Sound(d)'
    BY DEF AllSound
  <2>1. d \in Directories /\ Sound(d)
    BY <1>0, <1>1 DEF PubInv, AllSound
  <2> QED BY <1>0, <2>1, SoundIsStable
<1>3. PinsSettled'
  BY <1>1 DEF PubInv, PinsSettled
<1>4. TabsHanded'
  BY DEF PubInv, TabsHanded
<1>5. TabsFresh'
  <2> SUFFICES ASSUME NEW t \in Tabs, tab[t].holds # None, NEW l \in Layers
               PROVE  \/ age'[<<l, tab[t].holds[l].build>>] <= tab[t].since
                      \/ \E p \in Envs : /\ dir.pins[p] # None
                                         /\ dir.pins[p][l].build = tab[t].holds[l].build
    BY <1>1 DEF TabsFresh
  <2>1. <<l, tab[t].holds[l].build>> \in Names
    BY <1>0 DEF TypeOK, Manifest, Entry, Names
  <2>2. age[<<l, tab[t].holds[l].build>>] \in Int /\ age'[<<l, tab[t].holds[l].build>>] \in Int
        /\ tab[t].since \in Int
    BY <1>0, <2>1, PublicationAssumption DEF TypeOK, PublicationAssumption
  <2> QED BY <2>1, <2>2 DEF PubInv, TabsFresh
<1>6. HeadsSettle'
  <2>1. \A d : Shown(d)' = Shown(d)
    BY DEF Shown
  <2>2. Shown(e) = Shown(dir)
    BY DEF Shown
  <2>3. PICK s \in maybe : /\ \A d \in maybe : d.head = s.head \/ d.head = dir.head
                           /\ \A l \in Layers : Shown(s)[l] <= Shown(dir)[l]
    BY DEF PubInv, HeadsSettle
  <2>4. \A d \in maybe' : d.head = s.head \/ d.head = e.head
    BY <1>1, <2>3
  <2> QED BY <1>1, <2>1, <2>2, <2>3, <2>4 DEF HeadsSettle
<1> QED BY <1>1, <1>2, <1>3, <1>4, <1>5, <1>6 DEF PubInv

\* The directory is synced, or a crash returns it to a value it may return to.
LEMMA OneValueKeeps ==
    ASSUME PubInv, NEW e \in maybe, dir' = e, maybe' = {e}, kept \subseteq kept',
           UNCHANGED <<age, handed, tab, swept, runs>>,
           \/ reported' = reported
           \/ e.head # None /\ \E l \in Layers : e.head[l].run >= reported',
           reported' <= runs,
           TypeOK', PackInv'
    PROVE  PubInv'
<1>0. e \in Directories /\ Sound(e) /\ runs \in Nat /\ e.pins = dir.pins
  BY DEF PubInv, TypeOK, AllSound, PinsSettled
<1>1. Sound(e)'
  BY <1>0, SoundIsStable
<1>2. AllSound' /\ PinsSettled'
  BY <1>1 DEF AllSound, PinsSettled
<1>3. TabsFresh' /\ TabsHanded'
  BY <1>0 DEF PubInv, TabsFresh, TabsHanded
<1>4. HeadsSettle'
  <2>1. \A l \in Layers : Shown(e)[l] \in Int
    BY <1>0, DirectoryParts DEF Shown, Manifest, Entry, Runs
  <2>2. \A d : Shown(d)' = Shown(d)
    BY DEF Shown
  <2> QED BY <2>1, <2>2 DEF HeadsSettle
<1> QED BY <1>2, <1>3, <1>4 DEF PubInv

LEMMA SyncKeeps ==
    ASSUME PubInv, Sync, UNCHANGED <<age, handed, tab, swept, runs, reported>>, TypeOK', PackInv'
    PROVE  PubInv'
<1>1. PICK e \in maybe : e = dir
  BY DEF PubInv
<1>2. dir' = e /\ maybe' = {e} /\ kept \subseteq kept' /\ reported' <= runs
  BY <1>1 DEF PubInv, Sync
<1> QED BY <1>2, OneValueKeeps

\* The packer is the only one that writes while it runs.
LEMMA NoPacker ==
    ASSUME PubInv, pack' = None
    PROVE  PackInv'
BY DEF PackInv

-----------------------------------------------------------------------------
(* The steps of the packer.                                                *)

\* What a change of phase leaves alone.
LEMMA PhaseChanges ==
    ASSUME TypeOK, pack # None, NEW pc, pack' = [pack EXCEPT !.pc = pc]
    PROVE  /\ pack'.pc = pc
           /\ pack'.build = pack.build /\ pack'.layers = pack.layers /\ pack'.run = pack.run
           /\ pack'.year = pack.year /\ pack'.partial = pack.partial
           /\ Own' = Own /\ Finished' = Finished
BY PackParts DEF Own, Finished, Packs

\* The run stays the latest while neither the head nor the sweep moves.
LEMMA RunStaysNew ==
    ASSUME PubInv, pack # None, NEW pc, pack' = [pack EXCEPT !.pc = pc],
           pc \in BeforeFlip => pack.pc \in BeforeFlip,
           dir'.head = dir.head, UNCHANGED <<runs, reported, swept>>
    PROVE  RunIsNew'
<1> TypeOK
  BY DEF PubInv
<1> QED BY PhaseChanges DEF PubInv, PackInv, RunIsNew

LEMMA SyncSteps ==
    ASSUME PubInv, pack # None,
           RecoverSync \/ Cleaned \/ BeginSync \/ PublishSync \/ FlipSync,
           TypeOK'
    PROVE  PubInv'
<1> USE DEF Goto, Rest, Unreported
<1>0. TypeOK /\ dir' = dir /\ maybe' = {dir} /\ Sync
      /\ UNCHANGED <<age, handed, tab, swept, runs, reported>>
  BY DEF PubInv, RecoverSync, Cleaned, BeginSync, PublishSync, FlipSync, Sync
<1>1. PICK pc \in PackPhases :
          /\ pack' = [pack EXCEPT !.pc = pc]
          /\ \/ pack.pc = "recoverSync" /\ pc = "recover"
             \/ pack.pc = "cleaned" /\ pc = "preflight"
             \/ pack.pc \in {"marked", "published"} /\ pc = "publish"
             \/ pack.pc = "flipped" /\ pc = "complete"
  BY DEF RecoverSync, Cleaned, BeginSync, PublishSync, FlipSync, PackPhases
<1>2. RunIsNew'
  BY <1>0, <1>1, RunStaysNew DEF BeforeFlip
<1>3. MarksAreOwn'
  BY <1>0, <1>1, PhaseChanges DEF PubInv, PackInv, MarksAreOwn, InTransaction
<1>4. StagedInPlace'
  BY <1>0, <1>1, PhaseChanges DEF PubInv, PackInv, StagedInPlace
<1>5. SameHeads' /\ NamesOf(dir.head)' \subseteq kept'
  BY <1>0 DEF SameHeads, Sync, NamesOf
<1>6. HeadInPlace'
  BY <1>0, <1>1, <1>5, PhaseChanges DEF PubInv, PackInv, HeadInPlace
<1> QED BY <1>0, <1>2, <1>3, <1>4, <1>6, SyncKeeps DEF PackInv

\* A pack is reported when what it flipped is synced.
LEMMA LastSyncs ==
    ASSUME PubInv, pack # None, RollbackSync \/ CompleteSync, TypeOK'
    PROVE  PubInv'
<1> USE DEF Goto, Rest, Unreported
<1>1. Sync /\ pack' = None /\ UNCHANGED <<age, handed, tab, swept, runs>>
  BY DEF RollbackSync, CompleteSync
<1>2. PackInv'
  BY <1>1, NoPacker
<1>3. CASE RollbackSync
  BY <1>1, <1>2, <1>3, SyncKeeps DEF RollbackSync
<1>4. CASE CompleteSync
  <2>1. PICK e \in maybe : e = dir
    BY DEF PubInv
  <2>2. dir' = e /\ maybe' = {e} /\ kept \subseteq kept'
    BY <1>1, <2>1 DEF Sync
  <2>3. pack.pc = "completed" /\ reported' = pack.run
    BY <1>4 DEF CompleteSync
  <2>4. reported' <= runs
    BY <2>3 DEF PubInv, PackInv, RunIsNew, TypeOK
  <2>5. PICK l \in pack.layers : TRUE
    BY DEF PubInv, PackInv, RunIsNew
  <2>6. l \in Layers /\ pack.run \in Int
    BY PackParts DEF PubInv, Runs
  <2>7. e.head # None /\ e.head[l].run = pack.run
    BY <2>1, <2>3, <2>5 DEF PubInv, PackInv, HeadInPlace
  <2>8. e.head # None /\ \E k \in Layers : e.head[k].run >= reported'
    BY <2>3, <2>6, <2>7
  <2> QED BY <1>1, <1>2, <2>2, <2>4, <2>8, OneValueKeeps
<1> QED BY <1>3, <1>4

\* The directory stays as it is.
LEMMA StillKeeps ==
    ASSUME PubInv, UNCHANGED <<dir, maybe, age, tab, kept, swept, handed, reported>>,
           runs' \in Nat, runs <= runs',
           TypeOK', PackInv'
    PROVE  PubInv'
<1>0. maybe \subseteq Directories /\ runs \in Nat /\ reported \in Nat
  BY DEF PubInv, TypeOK
<1>1. AllSound'
  <2> SUFFICES ASSUME NEW d \in maybe'
               PROVE  Sound(d)'
    BY DEF AllSound
  <2>1. d \in Directories /\ Sound(d)
    BY <1>0 DEF PubInv, AllSound
  <2> QED BY <1>0, <2>1, SoundIsStable
<1>2. PinsSettled' /\ TabsFresh' /\ TabsHanded'
  BY DEF PubInv, PinsSettled, TabsFresh, TabsHanded
<1>3. HeadsSettle'
  BY DEF PubInv, HeadsSettle, Shown
<1> QED BY <1>0, <1>1, <1>2, <1>3 DEF PubInv

\* What recovery takes its marker lists, and the head does not name all of it.
LEMMA RecoverSteps ==
    ASSUME PubInv, pack # None, Recover, TypeOK'
    PROVE  PubInv'
<1> USE DEF Rest, Unreported
<1>0. TypeOK /\ dir \in Directories /\ Sound(dir) /\ TabsHanded
  BY DEF PubInv, TypeOK, AllSound
<1>1. pack.pc \in {"recover", "rollback"} /\ FirstMark \in Builds
  BY FirstMarkIsOne DEF Recover, RecoverFile, Unmark, ToRecover, Marked
<1>u. UNCHANGED <<kept, handed, tab, swept, reported, runs, age>>
  BY DEF Recover
<1>a. \A n \in Names : age'[n] <= age[n]
  BY <1>0, <1>u, PublicationAssumption DEF TypeOK, PublicationAssumption
<1>2. CASE RecoverFile
  <2>1. PICK n \in Debris(FirstMark) :
            Put([dir EXCEPT !.files[n] = IF Committed(n[2]) THEN @ ELSE None, !.temps[n] = None])
    BY <1>2 DEF RecoverFile
  <2>2. n \in Names /\ n[2] = FirstMark /\ n[1] \in dir.marks[n[2]]
    BY DEF Debris
  <2>3. PICK e \in Directories :
            e = [dir EXCEPT !.files[n] = IF Committed(n[2]) THEN @ ELSE None, !.temps[n] = None]
    <3>1. PICK a \in Archive \cup {None} : a = IF Committed(n[2]) THEN dir.files[n] ELSE None
      BY <1>0, <2>2, DirectoryParts
    <3>2. [dir EXCEPT !.files[n] = a, !.temps[n] = None] \in Directories
      BY <1>0, <2>2, DirectoryChanges
    <3> QED BY <3>1, <3>2
  <2>4. /\ e.marks = dir.marks /\ e.head = dir.head /\ e.pins = dir.pins
        /\ e.files = IF Committed(n[2]) THEN dir.files ELSE [dir.files EXCEPT ![n] = None]
    BY <1>0, <2>2, <2>3, DirectoryParts
  <2>5. Sound(e)
    <3>1. CASE Committed(n[2])
      BY <1>0, <2>4, <3>1, SoundWithoutTemps
    <3>2. CASE ~Committed(n[2])
      <4>1. \E l \in dir.marks[n[2]] : ~HeadNames(dir, l, n[2])
        BY <2>2, <3>2 DEF Committed, HeadNames
      <4> QED BY <1>0, <2>2, <2>4, <3>2, <4>1, SoundAfterRemoval
    <3> QED BY <3>1, <3>2
  <2>6. dir'.head = dir.head /\ pack' = pack
    BY <1>2, <2>1, <2>3, <2>4 DEF RecoverFile, Put
  <2>7. RunIsNew'
    BY <1>u, <2>6 DEF PubInv, PackInv, RunIsNew
  <2>8. PackInv'
    BY <1>1, <2>6, <2>7 DEF PackInv, MarksAreOwn, StagedInPlace, HeadInPlace, InTransaction
  <2> QED BY <1>u, <1>a, <2>1, <2>3, <2>4, <2>5, <2>8, PutKeeps
<1>3. CASE Unmark
  <2>1. PICK e \in Directories : e = [dir EXCEPT !.marks[FirstMark] = {}]
    BY <1>0, <1>1, DirectoryChanges
  <2>2. /\ e.marks = [dir.marks EXCEPT ![FirstMark] = {}] /\ e.files = dir.files
        /\ e.head = dir.head /\ e.pins = dir.pins
    BY <1>0, <2>1, DirectoryParts
  <2>3. Put(e)
    BY <1>3, <2>1 DEF Unmark
  <2>4. ASSUME NEW l \in dir.marks[FirstMark]
        PROVE  HeadNames(dir, l, FirstMark) \/ dir.files[<<l, FirstMark>>] = None
    <3>1. <<l, FirstMark>> \in Names
      BY <1>0, <1>1, DirectoryParts DEF Names
    <3>2. <<l, FirstMark>> \notin Debris(FirstMark)
      BY <1>3 DEF Unmark
    <3> QED BY <3>1, <3>2 DEF Debris, Committed, HeadNames
  <2>5. Sound(e)
    BY <1>0, <1>1, <2>2, <2>4, SoundAfterUnmark
  <2>6. dir'.head = dir.head /\ pack' = [pack EXCEPT !.pc = IF @ = "rollback" THEN "rollbackSync" ELSE "recoverSync"]
    BY <1>3, <2>2, <2>3 DEF Unmark, Put
  <2>7. PICK pc \in {"rollbackSync", "recoverSync"} : pack' = [pack EXCEPT !.pc = pc]
    BY <2>6
  <2>8. RunIsNew'
    BY <1>1, <1>u, <2>6, <2>7, RunStaysNew DEF BeforeFlip
  <2>9. pack'.pc \in {"rollbackSync", "recoverSync"}
    BY <1>0, <2>7, PhaseChanges
  <2>10. PackInv'
    BY <2>8, <2>9 DEF PackInv, MarksAreOwn, StagedInPlace, HeadInPlace, InTransaction
  <2> QED BY <1>u, <1>a, <2>2, <2>3, <2>5, <2>10, PutKeeps
<1> QED BY <1>2, <1>3 DEF Recover

LEMMA PreparingSteps ==
    ASSUME PubInv, pack # None, RecoverDone \/ Preflight, TypeOK'
    PROVE  PubInv'
<1> USE DEF Rest, Unreported, Goto
<1>0. TypeOK /\ dir \in Directories /\ Sound(dir)
  BY DEF PubInv, TypeOK, AllSound
<1>u. UNCHANGED <<kept, handed, tab, swept, reported, runs, age>> /\ runs \in Nat
  BY DEF RecoverDone, Preflight, Bail, PubInv, TypeOK
<1>a. \A n \in Names : age'[n] <= age[n]
  BY <1>0, <1>u, PublicationAssumption DEF TypeOK, PublicationAssumption
<1>1. CASE RecoverDone
  <2>1. PICK e \in Directories : e = [dir EXCEPT !.temps = [n \in Names |-> None]]
    BY <1>0, DirectoryChanges
  <2>2. /\ e.temps = [n \in Names |-> None] /\ e.files = dir.files /\ e.marks = dir.marks
        /\ e.head = dir.head /\ e.pins = dir.pins
    BY <1>0, <2>1, DirectoryParts
  <2>3. Sound(e)
    BY <1>0, <2>2, SoundWithoutTemps
  <2>4. Put(e) /\ dir' = e
    BY <1>1, <2>1 DEF RecoverDone, Put
  <2>5. RunIsNew' /\ pack'.pc = "cleaned"
    BY <1>0, <1>1, <1>u, <2>2, <2>4, RunStaysNew, PhaseChanges DEF RecoverDone, BeforeFlip
  <2>6. \A b \in Builds : e.marks[b] = {}
    BY <1>1, <2>2 DEF RecoverDone, Marked
  <2>7. PackInv'
    BY <2>2, <2>4, <2>5, <2>6 DEF PackInv, MarksAreOwn, StagedInPlace, HeadInPlace, InTransaction
  <2> QED BY <1>u, <1>a, <2>2, <2>3, <2>4, <2>7, PutKeeps
<1>2. CASE Preflight
  <2>1. UNCHANGED <<dir, maybe>>
    BY <1>2 DEF Preflight, Bail
  <2>2. CASE pack' = None
    BY <1>u, <2>1, <2>2, NoPacker, StillKeeps
  <2>3. CASE pack' # None
    <3>1. pack.pc = "preflight" /\ pack' = [pack EXCEPT !.pc = "stage"]
      BY <1>2, <2>3 DEF Preflight, Bail
    <3>2. RunIsNew' /\ pack'.pc = "stage"
      BY <1>0, <1>u, <2>1, <3>1, RunStaysNew, PhaseChanges DEF BeforeFlip
    <3>3. PackInv'
      BY <2>1, <3>1, <3>2 DEF PubInv, PackInv, MarksAreOwn, StagedInPlace, HeadInPlace, InTransaction
    <3> QED BY <1>u, <2>1, <3>3, StillKeeps
  <2> QED BY <2>2, <2>3
<1> QED BY <1>1, <1>2

LEMMA StagingSteps ==
    ASSUME PubInv, pack # None, Stage \/ StageSync, TypeOK'
    PROVE  PubInv'
<1> USE DEF Rest, Unreported, Goto
<1>0. TypeOK /\ dir \in Directories /\ Sound(dir) /\ dir' \in Directories
  BY DEF PubInv, TypeOK, AllSound
<1>1. pack.pc = "stage" /\ Put(dir')
      /\ UNCHANGED <<kept, handed, tab, swept, reported, runs>>
  BY DEF Stage, StageSync, Staged, Put
<1>2. \A n \in Names : age'[n] <= age[n]
  <2>1. age' = age \/ \E n \in Names : age' = [age EXCEPT ![n] = 0]
    BY DEF Stage, StageSync, Staged
  <2>2. \A n \in Names : age[n] \in Nat
    BY <1>0, PublicationAssumption DEF TypeOK, PublicationAssumption
  <2>3. age \in [Names -> 0 .. Grace]
    BY <1>0 DEF TypeOK
  <2> QED BY <2>1, <2>2, <2>3
<1>3. /\ dir'.files = dir.files /\ dir'.marks = dir.marks /\ dir'.head = dir.head
      /\ dir'.pins = dir.pins
  BY <1>0, DirectoryParts DEF Stage, StageSync, Staged, Put
<1>4. ASSUME pack' = pack
      PROVE  PackInv'
  <2>1. RunIsNew'
    BY <1>1, <1>3, <1>4 DEF PubInv, PackInv, RunIsNew
  <2>2. MarksAreOwn' /\ HeadInPlace'
    BY <1>1, <1>3, <1>4 DEF PubInv, PackInv, MarksAreOwn, HeadInPlace, InTransaction
  <2>3. ASSUME NEW n \in Names, dir'.temps[n] # None
        PROVE  n \in Own /\ dir'.temps[n].run = pack.run /\ dir.files[n] = None
    <3>0. dir.temps[n] # None => n \in Own /\ dir.temps[n].run = pack.run /\ dir.files[n] = None
      BY <1>1 DEF PubInv, PackInv, StagedInPlace
    <3>1. CASE Stage
      <4>1. FirstOf(Unstaged) \in Unstaged /\ Unstaged \subseteq pack.layers
        BY <1>0, <3>1, FirstOfIsOne, PackParts DEF Stage, Unstaged
      <4>2. PICK k \in Names : k = <<FirstOf(Unstaged), pack.build>>
        BY <1>0, <4>1, PackParts
      <4>3. k \in Own
        BY <4>1, <4>2 DEF Own
      <4>4. CASE dir.files[k] # None
        <5>1. dir' = [dir EXCEPT !.temps = Dropped] /\ pack' = None
          BY <3>1, <4>2, <4>4 DEF Stage, Put
        <5> QED BY <1>4, <5>1
      <4>5. CASE dir.files[k] = None
        <5>1. dir' = [dir EXCEPT !.temps[k] = [run |-> pack.run, durable |-> FALSE]]
          BY <3>1, <4>2, <4>5 DEF Stage, Put
        <5>2. dir'.temps[n] = IF n = k THEN [run |-> pack.run, durable |-> FALSE] ELSE dir.temps[n]
          BY <1>0, <5>1, DirectoryParts
        <5> QED BY <2>3, <3>0, <4>3, <4>5, <5>2
      <4> QED BY <4>4, <4>5
    <3>2. CASE StageSync
      <4>1. PICK k \in Names : dir.temps[k] # None /\ dir' = [dir EXCEPT !.temps[k].durable = TRUE]
        BY <3>2 DEF StageSync, Staged, Put
      <4>2. dir'.temps[n] = IF n = k THEN [dir.temps[k] EXCEPT !.durable = TRUE] ELSE dir.temps[n]
        BY <1>0, <4>1, DirectoryParts
      <4>3. dir.temps[k] \in Archive
        BY <1>0, <4>1, DirectoryParts
      <4>4. [dir.temps[k] EXCEPT !.durable = TRUE].run = dir.temps[k].run
        BY <4>3 DEF Archive
      <4> QED BY <2>3, <3>0, <4>1, <4>2, <4>4
    <3> QED BY <3>1, <3>2
  <2>4. StagedInPlace'
    BY <1>1, <1>3, <1>4, <2>3 DEF StagedInPlace, Own
  <2> QED BY <1>4, <2>1, <2>2, <2>4 DEF PackInv
<1>5. pack' = None => PackInv'
  BY NoPacker
<1>6. PackInv'
  BY <1>4, <1>5 DEF Stage, StageSync, Staged
<1>7. PICK e \in Directories : e = dir'
  BY <1>0
<1>8. Sound(e)
  BY <1>0, <1>3, <1>7, SoundWithoutTemps
<1> QED BY <1>1, <1>2, <1>3, <1>6, <1>7, <1>8, PutKeeps

LEMMA BeginStep ==
    ASSUME PubInv, pack # None, Begin, TypeOK'
    PROVE  PubInv'
<1> USE DEF Rest, Unreported, Goto
<1>0. TypeOK /\ dir \in Directories /\ Sound(dir)
  BY DEF PubInv, TypeOK, AllSound
<1>u. UNCHANGED <<kept, handed, tab, swept, reported, runs, age>>
  BY DEF Begin
<1>a. \A n \in Names : age'[n] <= age[n]
  BY <1>0, <1>u, PublicationAssumption DEF TypeOK, PublicationAssumption
<1>1. PICK e \in Directories : e = [dir EXCEPT !.marks[pack.build] = pack.layers]
  BY <1>0, DirectoryChanges, PackParts
<1>2. /\ e.marks = [dir.marks EXCEPT ![pack.build] = pack.layers] /\ e.files = dir.files
      /\ e.temps = dir.temps /\ e.head = dir.head /\ e.pins = dir.pins
  BY <1>0, <1>1, DirectoryParts
<1>3. Put(e) /\ dir' = e /\ pack.pc = "stage" /\ pack' = [pack EXCEPT !.pc = "marked"]
  BY <1>1 DEF Begin, Put
<1>4. ASSUME NEW n \in Own
      PROVE  dir.temps[n] = Finished /\ dir.files[n] = None
  <2>1. n \in Names /\ n = <<n[1], pack.build>> /\ n[1] \in pack.layers
    BY DEF Own, Names
  <2>2. dir.temps[n] # None /\ dir.temps[n].durable
    BY <2>1 DEF Begin, Unstaged
  <2>3. dir.temps[n].run = pack.run /\ dir.files[n] = None
    BY <1>3, <2>1, <2>2 DEF PubInv, PackInv, StagedInPlace
  <2>4. dir.temps[n] \in Archive
    BY <1>0, <2>1, <2>2, DirectoryParts
  <2> QED BY <2>2, <2>3, <2>4 DEF Archive, Finished
<1>5. \A b \in Builds : dir.marks[b] = {}
  BY <1>3 DEF PubInv, PackInv, MarksAreOwn
<1>6. \A l \in pack.layers : dir.files[<<l, pack.build>>] = None /\ <<l, pack.build>> \notin swept
  BY <1>0, <1>4, PackParts DEF Own, PubInv, PackInv, RunIsNew
<1>7. Sound(e)
  BY <1>0, <1>2, <1>5, <1>6, PackParts, SoundAfterBegin
<1>8. RunIsNew' /\ pack'.pc = "marked" /\ pack'.build = pack.build /\ pack'.layers = pack.layers
      /\ Own' = Own /\ Finished' = Finished
  BY <1>0, <1>u, <1>2, <1>3, RunStaysNew, PhaseChanges DEF BeforeFlip
<1>9. MarksAreOwn'
  BY <1>0, <1>2, <1>3, <1>5, <1>8, DirectoryParts DEF MarksAreOwn
<1>10. StagedInPlace' /\ HeadInPlace'
  BY <1>2, <1>3, <1>4, <1>8 DEF StagedInPlace, HeadInPlace
<1>11. PackInv'
  BY <1>8, <1>9, <1>10 DEF PackInv
<1> QED BY <1>u, <1>a, <1>2, <1>3, <1>7, <1>11, PutKeeps

LEMMA PublishStep ==
    ASSUME PubInv, pack # None, Publish, TypeOK'
    PROVE  PubInv'
<1> USE DEF Rest, Unreported, Goto
<1>0. TypeOK /\ dir \in Directories /\ Sound(dir)
  BY DEF PubInv, TypeOK, AllSound
<1>u. UNCHANGED <<kept, handed, tab, swept, reported, runs, age>>
  BY DEF Publish
<1>a. \A n \in Names : age'[n] <= age[n]
  BY <1>0, <1>u, PublicationAssumption DEF TypeOK, PublicationAssumption
<1>1. FirstOf(Unpublished) \in Unpublished /\ Unpublished \subseteq pack.layers
  BY <1>0, FirstOfIsOne, PackParts DEF Publish, Unpublished
<1>2. PICK n \in Own : n = <<FirstOf(Unpublished), pack.build>>
  BY <1>0, <1>1, PackParts DEF Own
<1>3. n \in Names /\ n[1] \in pack.layers /\ n[2] = pack.build
  BY DEF Own
<1>4. /\ pack.pc = "publish" /\ dir.files[n] = None /\ dir.temps[n] # None
      /\ Put([dir EXCEPT !.files[n] = dir.temps[n], !.temps[n] = None])
      /\ pack' = [pack EXCEPT !.pc = "published"]
  BY <1>1, <1>2 DEF Publish, Unpublished
<1>5. dir.temps[n] = Finished
  BY <1>4 DEF PubInv, PackInv, StagedInPlace
<1>6. Finished \in Archive
  BY <1>0, PackParts DEF Finished, Archive
<1>7. PICK e \in Directories : e = [dir EXCEPT !.files[n] = Finished, !.temps[n] = None]
  BY <1>0, <1>3, <1>6, DirectoryChanges
<1>8. /\ e.files = [dir.files EXCEPT ![n] = Finished] /\ e.temps = [dir.temps EXCEPT ![n] = None]
      /\ e.marks = dir.marks /\ e.head = dir.head /\ e.pins = dir.pins
  BY <1>0, <1>7, DirectoryParts
<1>9. Put(e) /\ dir' = e
  BY <1>4, <1>5, <1>7 DEF Put
<1>10. n[1] \in dir.marks[n[2]]
  BY <1>0, <1>3, <1>4, PackParts DEF PubInv, PackInv, MarksAreOwn, InTransaction
<1>11. n \notin swept
  BY <1>3 DEF PubInv, PackInv, RunIsNew, Names
<1>12. Sound(e)
  BY <1>0, <1>3, <1>4, <1>6, <1>8, <1>10, <1>11, SoundAfterPublish
<1>13. RunIsNew' /\ pack'.pc = "published" /\ pack'.build = pack.build /\ pack'.layers = pack.layers
       /\ Own' = Own /\ Finished' = Finished
  BY <1>0, <1>u, <1>4, <1>8, <1>9, RunStaysNew, PhaseChanges DEF BeforeFlip
<1>14. MarksAreOwn'
  BY <1>4, <1>8, <1>9, <1>13 DEF PubInv, PackInv, MarksAreOwn, InTransaction
<1>15. StagedInPlace'
  <2>1. \A k \in Names : /\ e.files[k] = IF k = n THEN Finished ELSE dir.files[k]
                         /\ e.temps[k] = IF k = n THEN None ELSE dir.temps[k]
    BY <1>0, <1>8, DirectoryParts
  <2>2. \A k \in Own : k \in Names
    BY DEF Own
  <2> QED BY <1>4, <1>9, <1>13, <2>1, <2>2 DEF PubInv, PackInv, StagedInPlace
<1>16. HeadInPlace'
  BY <1>u, <1>4, <1>8, <1>9, <1>13 DEF PubInv, PackInv, HeadInPlace, SameHeads, NamesOf, Put
<1>17. PackInv'
  BY <1>13, <1>14, <1>15, <1>16 DEF PackInv
<1> QED BY <1>u, <1>a, <1>8, <1>9, <1>12, <1>17, PutKeeps

LEMMA CompleteStep ==
    ASSUME PubInv, pack # None, Complete, TypeOK'
    PROVE  PubInv'
<1> USE DEF Rest, Unreported, Goto
<1>0. TypeOK /\ dir \in Directories /\ Sound(dir)
  BY DEF PubInv, TypeOK, AllSound
<1>u. UNCHANGED <<kept, handed, tab, swept, reported, runs, age>>
  BY DEF Complete
<1>a. \A n \in Names : age'[n] <= age[n]
  BY <1>0, <1>u, PublicationAssumption DEF TypeOK, PublicationAssumption
<1>1. PICK e \in Directories : e = [dir EXCEPT !.marks[pack.build] = {}]
  BY <1>0, DirectoryChanges, PackParts
<1>2. /\ e.marks = [dir.marks EXCEPT ![pack.build] = {}] /\ e.files = dir.files
      /\ e.temps = dir.temps /\ e.head = dir.head /\ e.pins = dir.pins
  BY <1>0, <1>1, DirectoryParts
<1>3. Put(e) /\ dir' = e /\ pack.pc = "complete" /\ pack' = [pack EXCEPT !.pc = "completed"]
  BY <1>1 DEF Complete, Put
<1>4. \A b \in Builds : dir.marks[b] = IF b = pack.build THEN pack.layers ELSE {}
  BY <1>3 DEF PubInv, PackInv, MarksAreOwn, InTransaction
<1>5. \A l \in pack.layers : HeadNames(dir, l, pack.build)
  BY <1>3 DEF PubInv, PackInv, HeadInPlace, HeadNames
<1>6. Sound(e)
  BY <1>0, <1>2, <1>4, <1>5, PackParts, SoundAfterUnmark
<1>7. RunIsNew' /\ pack'.pc = "completed" /\ pack'.build = pack.build /\ pack'.layers = pack.layers
      /\ pack'.run = pack.run /\ pack'.year = pack.year
  BY <1>0, <1>u, <1>2, <1>3, RunStaysNew, PhaseChanges DEF BeforeFlip
<1>8. MarksAreOwn'
  BY <1>0, <1>2, <1>3, <1>4, <1>7, DirectoryParts DEF MarksAreOwn, InTransaction
<1>9. StagedInPlace'
  BY <1>7 DEF StagedInPlace
<1>10. HeadInPlace'
  BY <1>2, <1>3, <1>7 DEF PubInv, PackInv, HeadInPlace, SameHeads, Put
<1>11. PackInv'
  BY <1>7, <1>8, <1>9, <1>10 DEF PackInv
<1> QED BY <1>u, <1>a, <1>2, <1>3, <1>6, <1>11, PutKeeps

\* What the new head says of each layer.
LEMMA MergedEntries ==
    ASSUME PubInv, pack # None, Flip, NEW l \in Layers
    PROVE  \/ /\ pack.partial /\ l \notin pack.layers
              /\ dir.head # None /\ Merged[l] = dir.head[l]
              /\ dir.head[l].run < pack.run /\ dir.head[l].year = pack.year
           \/ /\ l \in pack.layers
              /\ Merged[l] = [build |-> pack.build, run |-> pack.run, year |-> pack.year]
<1>1. pack.pc = "publish" /\ MayFlip
  BY DEF Flip
<1>2. pack.partial \/ pack.layers = Layers
  BY DEF PubInv, PackInv, RunIsNew
<1>3. dir.head # None => dir.head[l].run < pack.run
  BY <1>1 DEF PubInv, PackInv, RunIsNew, BeforeFlip
<1> QED BY <1>1, <1>2, <1>3 DEF MayFlip, CarriedOk, Carries, Merged

LEMMA MergedIsWhole ==
    ASSUME PubInv, pack # None, Flip
    PROVE  Whole(dir, Merged)
<1> SUFFICES ASSUME NEW l \in Layers
             PROVE  Valid(dir, l, Merged[l]) /\ dir.files[<<l, Merged[l].build>>].durable
  BY DEF Whole
<1>0. TypeOK /\ Sound(dir)
  BY DEF PubInv, AllSound
<1>1. Valid(dir, l, Merged[l])
  BY DEF Flip, MayFlip, Servable
<1>2. CASE dir.head # None /\ Merged[l] = dir.head[l]
  BY <1>0, <1>2 DEF Sound, RefsWhole, Whole
<1>3. CASE l \in pack.layers /\ Merged[l] = [build |-> pack.build, run |-> pack.run, year |-> pack.year]
  <2>1. PICK n \in Own : n = <<l, pack.build>>
    BY <1>0, <1>3, PackParts DEF Own
  <2>2. dir.temps[n] = None
    BY <1>3, <2>1 DEF Flip, Unpublished
  <2>. Finished \in Archive
    BY <1>0, PackParts DEF Finished, Archive
  <2>3. Finished # None
    BY PublicationAssumption DEF PublicationAssumption
  <2>4. dir.files[n] = Finished
    BY <2>2, <2>3 DEF PubInv, PackInv, StagedInPlace, Flip
  <2> QED BY <1>1, <1>3, <2>1, <2>4 DEF Finished
<1> QED BY <1>2, <1>3, MergedEntries

LEMMA FlipStep ==
    ASSUME PubInv, pack # None, Flip, TypeOK'
    PROVE  PubInv'
<1> USE DEF Rest, Unreported, Goto
<1>0. TypeOK /\ dir \in Directories /\ Sound(dir) /\ maybe \subseteq Directories
      /\ runs \in Nat /\ reported \in Nat /\ pack.run \in Nat
  BY PackParts DEF PubInv, TypeOK, AllSound, Runs
<1>u. UNCHANGED <<kept, handed, tab, swept, reported, runs, age>>
  BY DEF Flip
<1>1. PICK m \in Manifest : m = Merged
  BY <1>0, MergedIsManifest DEF Flip
<1>2. PICK e \in Directories : e = [dir EXCEPT !.head = m]
  BY <1>0, DirectoryChanges
<1>3. /\ e.head = m /\ e.files = dir.files /\ e.temps = dir.temps /\ e.marks = dir.marks
      /\ e.pins = dir.pins
  BY <1>0, <1>2, DirectoryParts
<1>4. /\ Put(e) /\ dir' = e /\ maybe' = maybe \cup {e}
      /\ pack.pc = "publish" /\ pack' = [pack EXCEPT !.pc = "flipped"]
  BY <1>1, <1>2 DEF Flip, Put
<1>5. SameHeads /\ NamesOf(dir.head) \subseteq kept
  BY <1>4 DEF PubInv, PackInv, HeadInPlace
<1>6. pack.run = runs /\ reported < pack.run /\ pack.layers # {} /\ pack.layers \subseteq Layers
  BY <1>0, PackParts DEF PubInv, PackInv, RunIsNew
<1>7. \A l \in pack.layers : m[l] = [build |-> pack.build, run |-> pack.run, year |-> pack.year]
  BY <1>1, <1>6, MergedEntries
<1>8. \A l \in Layers : m[l].year = pack.year /\ m[l].run <= pack.run
  <2> TAKE l \in Layers
  <2>1. dir.head # None => dir.head[l].run \in Nat
    BY <1>0, DirectoryParts DEF Manifest, Entry, Runs
  <2> QED BY <1>0, <1>1, <2>1, MergedEntries
<1>9. Sound(e)
  <2>1. \A b \in Builds : \A l \in dir.marks[b] : m[l].build = b
    BY <1>4, <1>7 DEF PubInv, PackInv, MarksAreOwn, InTransaction
  <2>2. \E l \in Layers : m[l].run >= reported
    BY <1>0, <1>6, <1>7
  <2>3. \A l, k \in Layers : m[l].year = m[k].year
    BY <1>8
  <2>4. \A l \in Layers : m[l].run <= runs
    BY <1>6, <1>8
  <2>5. Whole(dir, m)
    BY <1>1, MergedIsWhole
  <2> QED BY <1>0, <1>3, <1>5, <2>1, <2>2, <2>3, <2>4, <2>5, SoundAfterFlip
<1>10. AllSound'
  <2> SUFFICES ASSUME NEW d \in maybe'
               PROVE  Sound(d)'
    BY DEF AllSound
  <2>1. d \in Directories /\ Sound(d)
    BY <1>0, <1>4, <1>9 DEF PubInv, AllSound
  <2> QED BY <1>0, <1>u, <2>1, SoundIsStable
<1>11. PinsSettled' /\ TabsFresh' /\ TabsHanded'
  BY <1>u, <1>3, <1>4 DEF PubInv, PinsSettled, TabsFresh, TabsHanded
<1>12. HeadsSettle'
  <2>1. \A d : Shown(d)' = Shown(d)
    BY DEF Shown
  <2>2. PICK s \in maybe : s = dir
    BY DEF PubInv
  <2>3. \A d \in maybe' : d.head = s.head \/ d.head = e.head
    BY <1>4, <1>5, <2>2 DEF SameHeads
  <2>4. ASSUME NEW l \in Layers
        PROVE  Shown(s)[l] <= Shown(e)[l]
    <3>0. m # None
      BY PublicationAssumption DEF PublicationAssumption
    <3>1. Shown(e)[l] = m[l].run /\ Shown(s)[l] = IF dir.head = None THEN 0 ELSE dir.head[l].run
      BY <1>3, <2>2, <3>0 DEF Shown
    <3>2. m[l].run \in Nat /\ (dir.head # None => dir.head[l].run \in Nat)
      BY <1>0, DirectoryParts DEF Manifest, Entry, Runs
    <3>3. dir.head # None => dir.head[l].run < pack.run
      BY <1>4 DEF PubInv, PackInv, RunIsNew, BeforeFlip
    <3>4. m[l].run = pack.run \/ (dir.head # None /\ m[l].run = dir.head[l].run)
      BY <1>1, MergedEntries
    <3> QED BY <1>0, <3>1, <3>2, <3>3, <3>4
  <2> QED BY <1>4, <2>1, <2>2, <2>3, <2>4 DEF HeadsSettle
<1>13. pack'.pc = "flipped" /\ pack'.build = pack.build /\ pack'.layers = pack.layers
       /\ pack'.run = pack.run /\ pack'.year = pack.year /\ pack'.partial = pack.partial
  BY <1>0, <1>4, PhaseChanges
<1>14. RunIsNew'
  BY <1>u, <1>13 DEF PubInv, PackInv, RunIsNew, BeforeFlip
<1>15. MarksAreOwn'
  BY <1>3, <1>4, <1>13 DEF PubInv, PackInv, MarksAreOwn, InTransaction
<1>16. StagedInPlace'
  BY <1>13 DEF StagedInPlace
<1>17. HeadInPlace'
  <2>1. m # None
    BY PublicationAssumption DEF PublicationAssumption
  <2> QED BY <1>3, <1>4, <1>7, <1>13, <2>1 DEF HeadInPlace
<1>18. PackInv'
  BY <1>14, <1>15, <1>16, <1>17 DEF PackInv
<1> QED BY <1>u, <1>4, <1>10, <1>11, <1>12, <1>18 DEF PubInv

\* The steps of the packer together.
LEMMA PackingKeeps ==
    ASSUME PubInv, pack # None, Packing, TypeOK'
    PROVE  PubInv'
BY SyncSteps, LastSyncs, RecoverSteps, PreparingSteps, StagingSteps, BeginStep, PublishStep,
   FlipStep, CompleteStep DEF Packing

-----------------------------------------------------------------------------
(* Failures, kills and crashes.                                            *)

LEMMA FailStep ==
    ASSUME PubInv, pack # None, Fail, TypeOK'
    PROVE  PubInv'
<1> USE DEF Rest, Fault, Goto
<1>0. TypeOK /\ dir \in Directories /\ Sound(dir) /\ runs \in Nat
  BY DEF PubInv, TypeOK, AllSound
<1>u. UNCHANGED <<kept, handed, tab, swept, reported, runs, age>>
  BY DEF Fail, FailPublishing
<1>a. \A n \in Names : age'[n] <= age[n]
  BY <1>0, <1>u, PublicationAssumption DEF TypeOK, PublicationAssumption
<1>1. PICK e \in Directories : e = [dir EXCEPT !.temps = Dropped]
  <2>1. Dropped \in [Names -> Archive \cup {None}]
    BY <1>0, DirectoryParts DEF Dropped
  <2> QED BY <1>0, <2>1, DirectoryChanges
<1>2. e.files = dir.files /\ e.marks = dir.marks /\ e.head = dir.head /\ e.pins = dir.pins
  BY <1>0, <1>1, DirectoryParts
<1>3. Sound(e)
  BY <1>0, <1>2, SoundWithoutTemps
<1>4. Put(e) \/ UNCHANGED <<dir, maybe>>
  BY <1>1 DEF Fail, FailPublishing
<1>5. PackInv'
  <2>1. CASE pack' = None
    BY <2>1, NoPacker
  <2>2. CASE pack' # None
    <3>1. pack' = [pack EXCEPT !.pc = "rollback"] /\ Put(e)
      BY <1>1, <2>2 DEF Fail, FailPublishing
    <3>2. RunIsNew' /\ pack'.pc = "rollback"
      BY <1>0, <1>u, <1>2, <3>1, RunStaysNew, PhaseChanges DEF BeforeFlip, Put
    <3> QED BY <3>2 DEF PackInv, MarksAreOwn, StagedInPlace, HeadInPlace, InTransaction
  <2> QED BY <2>1, <2>2
<1>6. CASE Put(e)
  BY <1>u, <1>a, <1>2, <1>3, <1>5, <1>6, PutKeeps
<1>7. CASE UNCHANGED <<dir, maybe>>
  BY <1>0, <1>u, <1>5, <1>7, StillKeeps
<1> QED BY <1>4, <1>6, <1>7

LEMMA KillStep ==
    ASSUME PubInv, Kill, TypeOK'
    PROVE  PubInv'
<1>1. UNCHANGED <<dir, maybe, age, tab, kept, swept, handed, reported, runs>> /\ pack' = None
      /\ runs \in Nat
  BY DEF Kill, Rest, Fault, PubInv, TypeOK
<1> QED BY <1>1, NoPacker, StillKeeps

LEMMA CrashStep ==
    ASSUME PubInv, HostCrash, TypeOK'
    PROVE  PubInv'
<1>1. PICK e \in maybe : dir' = e /\ maybe' = {e}
  BY DEF HostCrash
<1>2. kept \subseteq kept' /\ pack' = None /\ UNCHANGED <<age, handed, tab, swept, runs, reported>>
  BY DEF HostCrash, Rest, Fault
<1>3. reported' <= runs
  BY <1>2 DEF PubInv
<1> QED BY <1>1, <1>2, <1>3, NoPacker, OneValueKeeps

-----------------------------------------------------------------------------
(* Starts, pins, sweeps, tabs and the clock.                               *)

LEMMA StartStep ==
    ASSUME PubInv, NEW b \in Builds, NEW S \in SUBSET Layers, NEW partial \in BOOLEAN,
           NEW y \in Years, Start(b, S, partial, y), TypeOK'
    PROVE  PubInv'
<1>0. TypeOK /\ runs \in Nat /\ reported \in Nat /\ reported <= runs /\ dir \in Directories /\ Sound(dir)
  BY DEF PubInv, TypeOK, AllSound
<1>1. /\ UNCHANGED <<dir, maybe, age, tab, kept, swept, handed, reported>> /\ runs' = runs + 1
      /\ pack' = [pc |-> "recover", build |-> b, layers |-> S, partial |-> partial,
                  year |-> y, run |-> runs + 1]
      /\ S # {} /\ (partial \/ S = Layers) /\ \A l \in S : <<l, b>> \notin swept
  BY DEF Start, Unreported
<1>2. \A l \in Layers : dir.head # None => dir.head[l].run < runs + 1
  <2>1. \A l \in Layers : dir.head # None => dir.head[l].run \in Nat
    BY <1>0, DirectoryParts DEF Manifest, Entry, Runs
  <2> QED BY <1>0, <2>1 DEF Sound, HeadRuns
<1>3. RunIsNew'
  BY <1>0, <1>1, <1>2 DEF RunIsNew
<1>4. PackInv'
  BY <1>1, <1>3 DEF PackInv, MarksAreOwn, StagedInPlace, HeadInPlace, InTransaction
<1> QED BY <1>0, <1>1, <1>4, StillKeeps

\* A pin is switched to the head and synced; what it named and the head does not
\* is renewed.
LEMMA PinStep ==
    ASSUME PubInv, NEW p \in Envs, Pin(p), TypeOK'
    PROVE  PubInv'
<1> USE DEF Unreported
<1>0. TypeOK /\ dir \in Directories /\ Sound(dir) /\ runs \in Nat /\ dir.head \in Manifest
  BY DirectoryParts DEF PubInv, TypeOK, AllSound, Pin
<1>1. PICK e \in Directories : e = [dir EXCEPT !.pins[p] = dir.head]
  BY <1>0, DirectoryChanges
<1>2. /\ e.files = dir.files /\ e.marks = dir.marks /\ e.head = dir.head
      /\ \A q \in Envs : e.pins[q] = IF q = p THEN dir.head ELSE dir.pins[q]
  BY <1>0, <1>1, DirectoryParts
<1>3. dir' = e /\ maybe' = {e} /\ kept \subseteq kept' /\ dir.head # None /\ pack' = pack /\ pack = None
      /\ UNCHANGED <<tab, swept, handed, runs, reported>>
      /\ age' = [n \in Names |-> IF n \in NamesOf(dir.pins[p]) \ NamesOf(dir.head) THEN 0 ELSE age[n]]
  BY <1>1 DEF Pin
<1>4. Sound(e)
  <2>1. RefsWhole(e)
    BY <1>0, <1>2 DEF Sound, RefsWhole, Whole, Valid
  <2>2. MarksWhole(e)
    <3> SUFFICES ASSUME NEW b \in Builds, NEW l \in dir.marks[b]
                 PROVE  /\ \A k \in dir.marks[b] : HeadNames(e, l, b) => HeadNames(e, k, b)
                        /\ \A q \in Envs : e.pins[q] # None /\ e.pins[q][l].build = b =>
                               HeadNames(e, l, b)
      BY <1>2 DEF MarksWhole
    <3> QED BY <1>0, <1>2, <1>3 DEF Sound, MarksWhole, HeadNames
  <2> QED BY <1>0, <1>2, <2>1, <2>2 DEF Sound, FilesOwned, HandedStay, HeadOfOneYear, HeadRuns,
            HoldsServable, Servable, Valid, HeadNames
<1>5. Sound(e)'
  BY <1>0, <1>3, <1>4, SoundIsStable
<1>6. TabsFresh'
  <2> SUFFICES ASSUME NEW t \in Tabs, tab[t].holds # None, NEW l \in Layers
               PROVE  \/ age'[<<l, tab[t].holds[l].build>>] <= tab[t].since
                      \/ \E q \in Envs : /\ e.pins[q] # None
                                         /\ e.pins[q][l].build = tab[t].holds[l].build
    BY <1>3 DEF TabsFresh
  <2>1. PICK n \in Names : n = <<l, tab[t].holds[l].build>>
    BY <1>0 DEF TypeOK, Manifest, Entry, Names
  <2>2. tab[t].since \in Nat
    BY <1>0, PublicationAssumption DEF TypeOK, PublicationAssumption
  <2>3. CASE n \in NamesOf(dir.pins[p])
    <3>1. CASE n \in NamesOf(dir.head)
      BY <1>2, <1>3, <2>1, <3>1 DEF NamesOf
    <3>2. CASE n \notin NamesOf(dir.head)
      BY <1>3, <2>1, <2>2, <2>3, <3>2
    <3> QED BY <3>1, <3>2
  <2>4. CASE n \notin NamesOf(dir.pins[p])
    <3>1. age'[n] = age[n]
      BY <1>3, <2>4
    <3>2. CASE age[n] <= tab[t].since
      BY <2>1, <3>1, <3>2
    <3>3. CASE ~(age[n] <= tab[t].since)
      <4>1. PICK q \in Envs : dir.pins[q] # None /\ dir.pins[q][l].build = tab[t].holds[l].build
        BY <2>1, <3>3 DEF PubInv, TabsFresh
      <4>2. q # p
        BY <2>1, <2>4, <4>1 DEF NamesOf
      <4> QED BY <1>2, <4>1, <4>2
    <3> QED BY <3>2, <3>3
  <2> QED BY <2>3, <2>4
<1>7. HeadsSettle'
  <2>1. \A l \in Layers : Shown(e)[l] \in Int
    BY <1>1, DirectoryParts DEF Shown, Manifest, Entry, Runs
  <2>2. \A d : Shown(d)' = Shown(d)
    BY DEF Shown
  <2> QED BY <1>3, <2>1, <2>2 DEF HeadsSettle
<1>8. PackInv'
  BY <1>3 DEF PackInv
<1>9. AllSound' /\ PinsSettled' /\ TabsHanded'
  BY <1>3, <1>5 DEF PubInv, AllSound, PinsSettled, TabsHanded
<1> QED BY <1>3, <1>6, <1>7, <1>8, <1>9 DEF PubInv

\* What an open tab holds is too young to be swept.
LEMMA SweepStep ==
    ASSUME PubInv, Sweep, TypeOK'
    PROVE  PubInv'
<1> USE DEF Unreported
<1>0. TypeOK /\ dir \in Directories /\ Sound(dir) /\ runs \in Nat /\ maybe \subseteq Directories
  BY DEF PubInv, TypeOK, AllSound
<1>1. PICK gone \in SUBSET Candidates :
          /\ Put([dir EXCEPT !.files = [n \in Names |-> IF n \in gone THEN None ELSE @[n]]])
          /\ swept' = swept \cup gone
  BY DEF Sweep
<1>2. PICK e \in Directories : e = [dir EXCEPT !.files = [n \in Names |-> IF n \in gone THEN None ELSE dir.files[n]]]
  <2>1. [n \in Names |-> IF n \in gone THEN None ELSE dir.files[n]] \in [Names -> Archive \cup {None}]
    BY <1>0, DirectoryParts
  <2> QED BY <1>0, <2>1, DirectoryChanges
<1>3. /\ e.marks = dir.marks /\ e.head = dir.head /\ e.pins = dir.pins
      /\ \A n \in Names : e.files[n] = IF n \in gone THEN None ELSE dir.files[n]
  BY <1>0, <1>2, DirectoryParts
<1>4. /\ dir' = e /\ maybe' = maybe \cup {e} /\ pack = None /\ pack' = None
      /\ UNCHANGED <<age, kept, tab, handed, runs, reported>>
  BY <1>1, <1>2 DEF Sweep, Put
<1>5. gone \subseteq Names /\ \A n \in gone : n \notin Keep /\ age[n] >= Grace
  BY DEF Candidates, Present
<1>6. ASSUME NEW l \in Layers, dir.head # None
      PROVE  <<l, dir.head[l].build>> \notin gone
  BY <1>5, <1>6 DEF Keep, NamesOf
<1>7. ASSUME NEW q \in Envs, NEW l \in Layers, dir.pins[q] # None
      PROVE  <<l, dir.pins[q][l].build>> \notin gone
  BY <1>5, <1>7 DEF Keep, NamesOf
<1>8. ASSUME NEW t \in Tabs, NEW l \in Layers, tab[t].holds # None
      PROVE  <<l, tab[t].holds[l].build>> \notin gone
  <2>1. PICK n \in Names : n = <<l, tab[t].holds[l].build>>
    BY <1>0, <1>8 DEF TypeOK, Manifest, Entry, Names
  <2>2. CASE \E q \in Envs : dir.pins[q] # None /\ dir.pins[q][l].build = tab[t].holds[l].build
    BY <1>7, <2>2
  <2>3. CASE age[n] <= tab[t].since
    <3>1. age[n] \in Nat /\ tab[t].since \in 0 .. Poll /\ Poll < Grace /\ Grace \in Nat /\ Poll \in Nat
      BY <1>0, PublicationAssumption DEF TypeOK, PublicationAssumption
    <3> QED BY <1>5, <2>1, <2>3, <3>1
  <2> QED BY <1>8, <2>1, <2>2, <2>3 DEF PubInv, TabsFresh
<1>9. Sound(e)'
  BY <1>0, <1>1, <1>3, <1>4, <1>5, <1>6, <1>7, <1>8, SoundAfterSweep
<1>10. AllSound'
  <2> SUFFICES ASSUME NEW d \in maybe'
               PROVE  Sound(d)'
    BY DEF AllSound
  <2>1. CASE d = e
    BY <1>9, <2>1
  <2>2. CASE d \in maybe
    BY <1>0, <1>1, <1>4, <2>2, SoundIsStable DEF PubInv, AllSound
  <2> QED BY <1>4, <2>1, <2>2
<1>11. PinsSettled' /\ TabsFresh' /\ TabsHanded'
  BY <1>3, <1>4 DEF PubInv, PinsSettled, TabsFresh, TabsHanded
<1>12. HeadsSettle'
  <2>1. \A d : Shown(d)' = Shown(d)
    BY DEF Shown
  <2>2. Shown(e) = Shown(dir)
    BY <1>3 DEF Shown
  <2>3. PICK s \in maybe : /\ \A d \in maybe : d.head = s.head \/ d.head = dir.head
                           /\ \A l \in Layers : Shown(s)[l] <= Shown(dir)[l]
    BY DEF PubInv, HeadsSettle
  <2>4. \A d \in maybe' : d.head = s.head \/ d.head = e.head
    BY <1>3, <1>4, <2>3
  <2> QED BY <1>4, <2>1, <2>2, <2>3, <2>4 DEF HeadsSettle
<1>13. PackInv'
  BY <1>4 DEF PackInv
<1> QED BY <1>4, <1>10, <1>11, <1>12, <1>13 DEF PubInv

\* A pin names the same archives in every value a crash may leave.
LEMMA PinnedAlike ==
    ASSUME PubInv, NEW d \in maybe, NEW p \in Envs, dir.pins[p] # None, NEW l \in Layers
    PROVE  /\ <<l, dir.pins[p][l].build>> \in Names
           /\ Valid(d, l, dir.pins[p][l])
           /\ d.files[<<l, dir.pins[p][l].build>>] # None
           /\ d.files[<<l, dir.pins[p][l].build>>] = dir.files[<<l, dir.pins[p][l].build>>]
<1>0. d \in Directories /\ dir \in Directories /\ Sound(d) /\ Sound(dir) /\ d.pins = dir.pins
  BY DEF PubInv, TypeOK, AllSound, PinsSettled
<1>1. dir.pins[p] \in Manifest
  BY <1>0, DirectoryParts
<1>2. PICK n \in Names : n = <<l, dir.pins[p][l].build>>
  BY <1>1 DEF Manifest, Entry, Names
<1>3. /\ d.files[n] # None /\ d.files[n].run = dir.pins[p][l].run /\ d.files[n].durable
      /\ dir.files[n] # None /\ dir.files[n].run = dir.pins[p][l].run /\ dir.files[n].durable
  BY <1>0, <1>2 DEF Sound, RefsWhole, Whole, Valid
<1>4. d.files[n] \in Archive /\ dir.files[n] \in Archive
  BY <1>0, <1>3, DirectoryParts
<1>5. d.files[n] = dir.files[n]
  BY <1>3, <1>4 DEF Archive
<1> QED BY <1>2, <1>3, <1>5 DEF Valid

\* A tab fetches what a pin names: no crash takes it, no recovery removes it.
LEMMA RefreshStep ==
    ASSUME PubInv, NEW t \in Tabs, Refresh(t), TypeOK'
    PROVE  PubInv'
<1> USE DEF Unreported
<1>0. TypeOK /\ dir \in Directories /\ runs \in Nat /\ maybe \subseteq Directories
  BY DEF PubInv, TypeOK
<1>1. PICK p \in Envs :
          /\ dir.pins[p] # None
          /\ tab' = [tab EXCEPT ![t] = [holds |-> dir.pins[p], since |-> 0]]
          /\ handed' = [n \in Names |-> IF n \in NamesOf(dir.pins[p]) /\ handed[n] = None
                                        THEN dir.files[n] ELSE handed[n]]
  BY DEF Refresh
<1>2. UNCHANGED <<dir, maybe, age, pack, kept, swept, runs, reported>>
  BY DEF Refresh
<1>3. PICK m \in Manifest : m = dir.pins[p] /\ m # None
  BY <1>0, <1>1, DirectoryParts
<1>4. tab'[t].holds = m /\ \A u \in Tabs : u # t => tab'[u] = tab[u]
  BY <1>0, <1>1, <1>3 DEF TypeOK
<1>5. \A n \in Names : handed'[n] = handed[n] \/
          (handed[n] = None /\ handed'[n] = dir.files[n]
           /\ \E l \in Layers : n = <<l, dir.pins[p][l].build>>)
  BY <1>1 DEF NamesOf
<1>6. ASSUME NEW d \in maybe
      PROVE  Sound(d)'
  <2>0. Sound(d) /\ d.pins = dir.pins
    BY DEF PubInv, AllSound, PinsSettled
  <2>1. HandedStay(d)'
    <3> SUFFICES ASSUME NEW n \in Names, handed'[n] # None
                 PROVE  /\ d.files[n] # None => d.files[n] = handed'[n]
                        /\ n \in swept \/ d.files[n] # None
                        /\ n[1] \in d.marks[n[2]] => HeadNames(d, n[1], n[2])
      BY <1>2 DEF HandedStay, HeadNames
    <3>1. CASE handed'[n] = handed[n]
      BY <2>0, <3>1 DEF Sound, HandedStay
    <3>2. CASE handed'[n] # handed[n]
      <4>1. PICK l \in Layers : n = <<l, dir.pins[p][l].build>>
        BY <1>5, <3>2
      <4>2. handed'[n] = dir.files[n]
        BY <1>5, <3>2
      <4>3. d.files[n] # None /\ d.files[n] = dir.files[n]
        BY <1>1, <4>1, PinnedAlike
      <4>4. n[1] = l /\ n[2] = dir.pins[p][l].build /\ n[2] \in Builds
        BY <4>1 DEF Names
      <4>5. n[1] \in d.marks[n[2]] => HeadNames(d, n[1], n[2])
        BY <1>1, <2>0, <4>4 DEF Sound, MarksWhole
      <4> QED BY <4>2, <4>3, <4>5
    <3> QED BY <3>1, <3>2
  <2>2. HoldsServable(d)'
    <3>1. Servable(d, m)
      BY <1>1, <1>3, PinnedAlike DEF Servable
    <3> SUFFICES ASSUME NEW u \in Tabs, tab'[u].holds # None
                 PROVE  Servable(d, tab'[u].holds)
      BY <1>2 DEF HoldsServable, Servable, Valid
    <3>2. CASE u = t
      BY <1>4, <3>1, <3>2
    <3>3. CASE u # t
      BY <1>4, <2>0, <3>3 DEF Sound, HoldsServable
    <3> QED BY <3>2, <3>3
  <2> QED BY <1>2, <2>0, <2>1, <2>2 DEF Sound, RefsWhole, Whole, Valid, MarksWhole, FilesOwned,
            HeadOfOneYear, HeadRuns, HeadNames
<1>7. AllSound'
  BY <1>2, <1>6 DEF AllSound
<1>8. TabsFresh'
  <2> SUFFICES ASSUME NEW u \in Tabs, tab'[u].holds # None, NEW l \in Layers
               PROVE  \/ age[<<l, tab'[u].holds[l].build>>] <= tab'[u].since
                      \/ \E q \in Envs : /\ dir.pins[q] # None
                                         /\ dir.pins[q][l].build = tab'[u].holds[l].build
    BY <1>2 DEF TabsFresh
  <2>1. CASE u = t
    BY <1>1, <1>3, <1>4, <2>1
  <2>2. CASE u # t
    BY <1>4, <2>2 DEF PubInv, TabsFresh
  <2> QED BY <2>1, <2>2
<1>9. TabsHanded'
  <2> SUFFICES ASSUME NEW u \in Tabs, tab'[u].holds # None, NEW l \in Layers
               PROVE  handed'[<<l, tab'[u].holds[l].build>>] # None
    BY DEF TabsHanded
  <2>1. PICK n \in Names : n = <<l, tab'[u].holds[l].build>>
    BY DEF TypeOK, Manifest, Entry, Names
  <2>2. CASE u = t
    <3>1. n = <<l, dir.pins[p][l].build>> /\ n \in NamesOf(dir.pins[p])
      BY <1>1, <1>3, <1>4, <2>1, <2>2 DEF NamesOf
    <3>2. PICK d \in maybe : d = dir
      BY DEF PubInv
    <3>3. dir.files[n] # None
      BY <1>1, <3>1, <3>2, PinnedAlike
    <3> QED BY <1>1, <2>1, <3>1, <3>3
  <2>3. CASE u # t
    <3>1. handed[n] # None
      BY <1>4, <2>1, <2>3 DEF PubInv, TabsHanded
    <3> QED BY <1>5, <2>1, <3>1
  <2> QED BY <2>2, <2>3
<1>10. PackInv' /\ PinsSettled' /\ HeadsSettle'
  BY <1>2 DEF PubInv, PackInv, RunIsNew, MarksAreOwn, StagedInPlace, HeadInPlace, SameHeads, Own,
     Finished, PinsSettled, HeadsSettle, Shown
<1> QED BY <1>2, <1>7, <1>8, <1>9, <1>10 DEF PubInv

LEMMA CloseStep ==
    ASSUME PubInv, NEW t \in Tabs, Close(t), TypeOK'
    PROVE  PubInv'
<1> USE DEF Unreported
<1>1. UNCHANGED <<dir, maybe, age, pack, kept, swept, handed, runs, reported>>
  BY DEF Close
<1>2. \A u \in Tabs : tab'[u].holds # None => tab'[u] = tab[u]
  BY DEF Close, PubInv, TypeOK
<1>3. TabsFresh' /\ TabsHanded'
  BY <1>1, <1>2 DEF PubInv, TabsFresh, TabsHanded
<1>4. ASSUME NEW d \in maybe
      PROVE  Sound(d)'
  <2>1. Sound(d)
    BY DEF PubInv, AllSound
  <2>2. HoldsServable(d)'
    BY <1>1, <1>2, <2>1 DEF Sound, HoldsServable, Servable, Valid
  <2> QED BY <1>1, <2>1, <2>2 DEF Sound, RefsWhole, Whole, Valid, MarksWhole, FilesOwned,
            HandedStay, HeadOfOneYear, HeadRuns, HeadNames
<1>5. AllSound' /\ PinsSettled' /\ HeadsSettle' /\ PackInv'
  BY <1>1, <1>4 DEF AllSound, PubInv, PackInv, RunIsNew, MarksAreOwn, StagedInPlace, HeadInPlace,
     SameHeads, Own, Finished, PinsSettled, HeadsSettle, Shown
<1> QED BY <1>1, <1>3, <1>5 DEF PubInv

\* A tick ages what a tab holds by no more than the tab.
LEMMA TickStep ==
    ASSUME PubInv, Tick, TypeOK'
    PROVE  PubInv'
<1> USE DEF Unreported
<1>0. TypeOK
  BY DEF PubInv
<1>1. UNCHANGED <<dir, maybe, pack, kept, swept, handed, runs, reported>>
  BY DEF Tick
<1>2. \A u \in Tabs : tab'[u].holds = tab[u].holds
                      /\ (tab[u].holds # None => tab'[u].since = tab[u].since + 1)
  BY <1>0 DEF Tick, TypeOK
<1>3. \A n \in Names : age'[n] <= age[n] + 1
  BY <1>0, PublicationAssumption DEF Tick, Older, TypeOK, PublicationAssumption
<1>4. TabsHanded'
  BY <1>1, <1>2 DEF PubInv, TabsHanded
<1>5. TabsFresh'
  <2> SUFFICES ASSUME NEW t \in Tabs, tab[t].holds # None, NEW l \in Layers
               PROVE  \/ age'[<<l, tab[t].holds[l].build>>] <= tab'[t].since
                      \/ \E q \in Envs : /\ dir.pins[q] # None
                                         /\ dir.pins[q][l].build = tab[t].holds[l].build
    BY <1>1, <1>2 DEF TabsFresh
  <2>1. PICK n \in Names : n = <<l, tab[t].holds[l].build>>
    BY <1>0 DEF TypeOK, Manifest, Entry, Names
  <2>2. age[n] \in Int /\ age'[n] \in Int /\ tab[t].since \in Int
    BY <1>0, PublicationAssumption DEF TypeOK, PublicationAssumption
  <2> QED BY <1>2, <1>3, <2>1, <2>2 DEF PubInv, TabsFresh
<1>6. ASSUME NEW d \in maybe
      PROVE  Sound(d)'
  <2>1. Sound(d)
    BY DEF PubInv, AllSound
  <2>2. HoldsServable(d)'
    BY <1>1, <1>2, <2>1 DEF Sound, HoldsServable, Servable, Valid
  <2> QED BY <1>1, <2>1, <2>2 DEF Sound, RefsWhole, Whole, Valid, MarksWhole, FilesOwned,
            HandedStay, HeadOfOneYear, HeadRuns, HeadNames
<1>7. AllSound' /\ PinsSettled' /\ HeadsSettle' /\ PackInv'
  BY <1>1, <1>6 DEF AllSound, PubInv, PackInv, RunIsNew, MarksAreOwn, StagedInPlace, HeadInPlace,
     SameHeads, Own, Finished, PinsSettled, HeadsSettle, Shown
<1> QED BY <1>1, <1>4, <1>5, <1>7 DEF PubInv

-----------------------------------------------------------------------------
(* The invariant.                                                          *)

LEMMA InitKeeps ==
    ASSUME Init
    PROVE  PubInv
<1>1. TypeOK
  BY InitTypes
<1>2. /\ \A n \in Names : dir.files[n] = None /\ handed[n] = None
      /\ \A b \in Builds : dir.marks[b] = {}
      /\ dir.head = None /\ \A e \in Envs : dir.pins[e] = None
      /\ \A t \in Tabs : tab[t].holds = None
      /\ maybe = {dir} /\ pack = None /\ reported = 0 /\ runs = 0
  BY DEF Init
<1>3. Sound(dir)
  BY <1>2 DEF Sound, RefsWhole, Whole, MarksWhole, FilesOwned, HandedStay, HeadOfOneYear, HeadRuns,
     HoldsServable
<1>4. AllSound /\ PinsSettled /\ TabsFresh /\ TabsHanded /\ PackInv
  BY <1>2, <1>3 DEF AllSound, PinsSettled, TabsFresh, TabsHanded, PackInv
<1>5. HeadsSettle
  BY <1>2 DEF HeadsSettle, Shown
<1> QED BY <1>1, <1>2, <1>4, <1>5 DEF PubInv

LEMMA StutterStep ==
    ASSUME PubInv, UNCHANGED vars
    PROVE  PubInv'
<1>1. UNCHANGED <<dir, maybe, age, pack, tab, kept, swept, handed, reported, runs, faults>>
  BY DEF vars
<1>2. TypeOK' /\ runs \in Nat
  BY <1>1 DEF PubInv, TypeOK
<1>3. PackInv'
  BY <1>1 DEF PubInv, PackInv, RunIsNew, MarksAreOwn, StagedInPlace, HeadInPlace, SameHeads, Own, Finished
<1> QED BY <1>1, <1>2, <1>3, StillKeeps

LEMMA Inductive ==
    ASSUME PubInv, [Next]_vars
    PROVE  PubInv'
<1>0. TypeOK'
  BY StepTypes DEF PubInv
<1>1. CASE \E b \in Builds, S \in SUBSET Layers, partial \in BOOLEAN, y \in Years : Start(b, S, partial, y)
  BY <1>0, <1>1, StartStep
<1>2. CASE pack # None /\ (Packing \/ Fail \/ Kill)
  BY <1>0, <1>2, PackingKeeps, FailStep, KillStep
<1>3. CASE HostCrash
  BY <1>0, <1>3, CrashStep
<1>4. CASE \E e \in Envs : Pin(e)
  BY <1>0, <1>4, PinStep
<1>5. CASE Sweep
  BY <1>0, <1>5, SweepStep
<1>6. CASE \E t \in Tabs : Refresh(t) \/ Close(t)
  BY <1>0, <1>6, RefreshStep, CloseStep
<1>7. CASE Tick
  BY <1>0, <1>7, TickStep
<1>8. CASE UNCHANGED vars
  BY <1>8, StutterStep
<1> QED BY <1>1, <1>2, <1>3, <1>4, <1>5, <1>6, <1>7, <1>8 DEF Next

LEMMA PubInvHolds == Spec => []PubInv
<1>1. Init => PubInv
  BY InitKeeps
<1>2. PubInv /\ [Next]_vars => PubInv'
  BY Inductive
<1> QED BY <1>1, <1>2, PTL DEF Spec

-----------------------------------------------------------------------------
(* What it says.                                                           *)

\* Every variable keeps its type, within the bounds.
THEOREM Types == Spec => []TypeOK
<1>1. PubInv => TypeOK
  BY DEF PubInv
<1> QED BY <1>1, PubInvHolds, PTL

\* The head and the pins name whole, synced archives, in every value of the
\* directory a host crash may leave, and every archive is listed by a marker or
\* was published: packs, failures between any two steps, kills, recoveries,
\* switches and sweeps keep it (tile_store_pack.rs, tile_store_gc.rs).
THEOREM ArchivesAlwaysMatch == Spec => []ArchivesMatchReferences
<1>1. ASSUME PubInv PROVE ReferencesAreWhole
  <2> SUFFICES ASSUME NEW d \in maybe, NEW m \in {d.head} \cup {d.pins[e] : e \in Envs}, m # None
               PROVE  Servable(d, m) /\ \A n \in NamesOf(m) : d.files[n].durable
    BY <1>1 DEF ReferencesAreWhole, PubInv
  <2>1. Whole(d, m)
    BY <1>1 DEF PubInv, AllSound, Sound, RefsWhole
  <2> QED BY <2>1 DEF Whole, Servable, NamesOf
<1>2. ASSUME PubInv PROVE NoOrphan
  <2> SUFFICES ASSUME NEW d \in maybe, NEW n \in Names, d.files[n] # None
               PROVE  n[1] \in d.marks[n[2]] \/ n \in kept \cup NamesOf(d.head)
    BY <1>2 DEF NoOrphan, PubInv, Present
  <2>1. n[1] \in d.marks[n[2]] \/ n \in kept \/ HeadNames(d, n[1], n[2])
    BY <1>2 DEF PubInv, AllSound, Sound, FilesOwned
  <2>2. HeadNames(d, n[1], n[2]) => n \in NamesOf(d.head)
    BY DEF HeadNames, NamesOf, Names
  <2> QED BY <2>1, <2>2
<1>3. PubInv => ArchivesMatchReferences
  BY <1>1, <1>2 DEF ArchivesMatchReferences
<1> QED BY <1>3, PubInvHolds, PTL

\* A name that a browser was given keeps its content as long as it is there,
\* over failed packs, retries under the same build id and crashes; and what an
\* open tab goes by is there until the tab refreshes, over switches and sweeps.
THEOREM BrowsersAlwaysServed == Spec => []BrowsersAreServed
<1>1. ASSUME PubInv PROVE NamesAreImmutable
  BY <1>1 DEF NamesAreImmutable, PubInv, AllSound, Sound, HandedStay
<1>2. ASSUME PubInv PROVE TabsAreServed
  BY <1>2 DEF TabsAreServed, PubInv, AllSound, Sound, HoldsServable
<1>3. PubInv => BrowsersAreServed
  BY <1>1, <1>2 DEF BrowsersAreServed
<1> QED BY <1>3, PubInvHolds, PTL

\* The head is of one dataset year, over any sequence of partial packs, and a
\* pack that exited with success stays published over any crash of the host.
THEOREM HeadAlwaysTrue == Spec => []HeadIsTrue
<1>1. ASSUME PubInv PROVE OneYear
  BY <1>1 DEF OneYear, PubInv, AllSound, Sound, HeadOfOneYear
<1>2. ASSUME PubInv PROVE ReportedSurvives
  <2> SUFFICES ASSUME reported > 0, NEW d \in maybe
               PROVE  \E l \in Layers : Shown(d)[l] >= reported
    BY DEF ReportedSurvives
  <2>1. d.head # None /\ \E l \in Layers : d.head[l].run >= reported
    BY <1>2 DEF PubInv, AllSound, Sound, HeadRuns
  <2> QED BY <2>1 DEF Shown
<1>3. PubInv => HeadIsTrue
  BY <1>1, <1>2 DEF HeadIsTrue
<1> QED BY <1>3, PubInvHolds, PTL

-----------------------------------------------------------------------------
(* The packer implements the abstract publication.                         *)

SettledOf(M) ==
    CHOOSE s \in {Shown(d) : d \in M} : \A d \in M : \A l \in Layers : s[l] <= Shown(d)[l]

LEMMA SettledIsLeast ==
    ASSUME NEW M, M \subseteq Directories, NEW s \in M,
           \A d \in M : \A l \in Layers : Shown(s)[l] <= Shown(d)[l]
    PROVE  SettledOf(M) = Shown(s)
<1>1. \A d \in M : Shown(d) \in [Layers -> Int]
  <2> SUFFICES ASSUME NEW d \in M, NEW l \in Layers
               PROVE  (IF d.head = None THEN 0 ELSE d.head[l].run) \in Int
    BY DEF Shown
  <2> QED BY DirectoryParts DEF Manifest, Entry, Runs
<1>2. Shown(s) \in {Shown(d) : d \in M}
  OBVIOUS
<1>3. /\ SettledOf(M) \in {Shown(d) : d \in M}
      /\ \A d \in M : \A l \in Layers : SettledOf(M)[l] <= Shown(d)[l]
  BY <1>2 DEF SettledOf
<1>4. PICK c \in M : SettledOf(M) = Shown(c)
  BY <1>3
<1>5. \A l \in Layers : Shown(c)[l] = Shown(s)[l]
  BY <1>1, <1>3, <1>4
<1>6. Shown(c) = Shown(s)
  BY <1>1, <1>5
<1> QED BY <1>4, <1>6

LEMMA SettledNow ==
    ASSUME PubInv
    PROVE  /\ Settled = SettledOf(maybe)
           /\ \E s \in maybe : /\ SettledOf(maybe) = Shown(s)
                               /\ \A d \in maybe : d.head = s.head \/ d.head = dir.head
                               /\ \A l \in Layers : Shown(s)[l] <= Shown(dir)[l]
                               /\ \A d \in maybe : \A l \in Layers : Shown(s)[l] <= Shown(d)[l]
<1>1. Settled = SettledOf(maybe)
  BY DEF Settled, SettledOf
<1>2. PICK s \in maybe : /\ \A d \in maybe : d.head = s.head \/ d.head = dir.head
                         /\ \A l \in Layers : Shown(s)[l] <= Shown(dir)[l]
  BY DEF PubInv, HeadsSettle
<1>3. maybe \subseteq Directories
  BY DEF PubInv, TypeOK
<1>4. ASSUME NEW d \in maybe, NEW l \in Layers
      PROVE  Shown(s)[l] <= Shown(d)[l]
  <2>1. Shown(s)[l] \in Int
    BY <1>3, DirectoryParts DEF Shown, Manifest, Entry, Runs
  <2>2. d.head = s.head => Shown(d) = Shown(s)
    BY DEF Shown
  <2>3. d.head = dir.head => Shown(d) = Shown(dir)
    BY DEF Shown
  <2> QED BY <1>2, <2>1, <2>2, <2>3
<1>5. SettledOf(maybe) = Shown(s)
  BY <1>3, <1>4, SettledIsLeast
<1> QED BY <1>1, <1>2, <1>4, <1>5

\* A step that leaves the head alone is no step of the abstract publication, or
\* settles it.
LEMMA HeadStays ==
    ASSUME PubInv, TypeOK', dir'.head = dir.head,
           maybe' = maybe \/ maybe' = maybe \cup {dir'} \/ maybe' = {dir'}
    PROVE  Shown(dir') = Shown(dir) /\ (Settled' = Settled \/ Settled' = Shown(dir))
<1>1. Shown(dir') = Shown(dir)
  BY DEF Shown
<1>2. Settled' = SettledOf(maybe')
  BY DEF Settled, SettledOf
<1>3. maybe' \subseteq Directories
  BY DEF TypeOK
<1>4. CASE maybe' = maybe
  BY <1>1, <1>2, <1>4, SettledNow
<1>5. CASE maybe' = maybe \cup {dir'}
  <2>1. PICK s \in maybe : /\ SettledOf(maybe) = Shown(s)
                           /\ \A l \in Layers : Shown(s)[l] <= Shown(dir)[l]
                           /\ \A d \in maybe : \A l \in Layers : Shown(s)[l] <= Shown(d)[l]
    BY SettledNow
  <2>2. \A d \in maybe' : \A l \in Layers : Shown(s)[l] <= Shown(d)[l]
    BY <1>1, <1>5, <2>1
  <2>3. SettledOf(maybe') = Shown(s)
    BY <1>3, <1>5, <2>2, SettledIsLeast
  <2> QED BY <1>1, <1>2, <2>1, <2>3, SettledNow
<1>6. CASE maybe' = {dir'}
  <2>1. \A l \in Layers : Shown(dir')[l] \in Int
    BY <1>3, <1>6, DirectoryParts DEF Shown, Manifest, Entry, Runs
  <2>2. SettledOf(maybe') = Shown(dir')
    BY <1>3, <1>6, <2>1, SettledIsLeast
  <2> QED BY <1>1, <1>2, <2>2
<1> QED BY <1>4, <1>5, <1>6

LEMMA OnlyFlipMoves ==
    ASSUME PubInv, [Next]_vars
    PROVE  \/ pack # None /\ Flip
           \/ HostCrash
           \/ /\ dir'.head = dir.head
              /\ maybe' = maybe \/ maybe' = maybe \cup {dir'} \/ maybe' = {dir'}
<1> USE DEF Rest, Unreported, Goto, Put, Sync
<1>0. dir \in Directories
  BY DEF PubInv, TypeOK
<1>d. /\ \A f, n, a, c : [dir EXCEPT !.files[n] = a, !.temps[n] = c].head = dir.head
      /\ \A n, a : [dir EXCEPT !.temps[n] = a].head = dir.head
      /\ \A n, a : [dir EXCEPT !.temps[n].durable = a].head = dir.head
      /\ \A f : [dir EXCEPT !.temps = f].head = dir.head /\ [dir EXCEPT !.files = f].head = dir.head
      /\ \A b, S : [dir EXCEPT !.marks[b] = S].head = dir.head
      /\ \A e, m : [dir EXCEPT !.pins[e] = m].head = dir.head
  BY <1>0 DEF Directories
<1>1. CASE \E b \in Builds, S \in SUBSET Layers, partial \in BOOLEAN, y \in Years : Start(b, S, partial, y)
  BY <1>1 DEF Start
<1>2. CASE pack # None /\ Packing
  <2>1. CASE Recover
    <3>1. CASE RecoverFile
      <4>1. PICK n, a : dir' = [dir EXCEPT !.files[n] = a, !.temps[n] = None]
        BY <3>1 DEF RecoverFile, Debris
      <4> QED BY <1>d, <3>1, <4>1 DEF RecoverFile
    <3>2. CASE Unmark
      <4>1. PICK b : b = FirstMark
        OBVIOUS
      <4> QED BY <1>d, <3>2, <4>1 DEF Unmark
    <3> QED BY <2>1, <3>1, <3>2 DEF Recover
  <2>2. CASE RecoverSync \/ Cleaned \/ BeginSync \/ PublishSync \/ FlipSync \/ RollbackSync \/ CompleteSync
    BY <2>2 DEF RecoverSync, Cleaned, BeginSync, PublishSync, FlipSync, RollbackSync, CompleteSync
  <2>3. CASE RecoverDone
    BY <1>d, <2>3 DEF RecoverDone
  <2>4. CASE Preflight
    BY <2>4 DEF Preflight, Bail
  <2>5. CASE Stage
    <3>1. PICK n, a, f : /\ n = <<FirstOf(Unstaged), pack.build>> /\ f = Dropped
                         /\ a = [run |-> pack.run, durable |-> FALSE]
      OBVIOUS
    <3>2. dir' = [dir EXCEPT !.temps = f] \/ dir' = [dir EXCEPT !.temps[n] = a]
      BY <2>5, <3>1 DEF Stage
    <3>3. dir'.head = dir.head
      <4>1. CASE dir' = [dir EXCEPT !.temps = f]
        BY <1>0, <4>1 DEF Directories
      <4>2. CASE dir' = [dir EXCEPT !.temps[n] = a]
        BY <1>0, <4>2 DEF Directories
      <4> QED BY <3>2, <4>1, <4>2
    <3> QED BY <2>5, <3>3 DEF Stage
  <2>6. CASE StageSync
    BY <1>d, <2>6 DEF StageSync, Staged
  <2>7. CASE Begin \/ Complete
    <3>1. \E S : dir' = [dir EXCEPT !.marks[pack.build] = S]
      BY <2>7 DEF Begin, Complete
    <3>2. dir'.head = dir.head
      BY <1>d, <3>1
    <3> QED BY <2>7, <3>2 DEF Begin, Complete
  <2>8. CASE Publish
    BY <1>d, <2>8 DEF Publish
  <2> QED BY <1>2, <2>1, <2>2, <2>3, <2>4, <2>5, <2>6, <2>7, <2>8 DEF Packing
<1>3. CASE pack # None /\ (Fail \/ Kill)
  BY <1>d, <1>3 DEF Fail, FailPublishing, Kill
<1>4. CASE HostCrash
  BY <1>4
<1>5. CASE \E e \in Envs : Pin(e)
  BY <1>d, <1>5 DEF Pin
<1>6. CASE Sweep
  BY <1>d, <1>6 DEF Sweep
<1>7. CASE (\E t \in Tabs : Refresh(t) \/ Close(t)) \/ Tick
  BY <1>7 DEF Refresh, Close, Tick
<1>8. CASE UNCHANGED vars
  BY <1>8 DEF vars
<1> QED BY <1>1, <1>2, <1>3, <1>4, <1>5, <1>6, <1>7, <1>8 DEF Next

\* The flip is the one step that changes what the head shows, for all the layers
\* of the run at once; the head it replaces stays the one to fall back to.
LEMMA FlipCommits ==
    ASSUME PubInv, pack # None, Flip, TypeOK'
    PROVE  /\ \E l \in Layers :
                  /\ \A k \in Layers : Shown(dir)[k] < Shown(dir')[l]
                  /\ \A k \in Layers : Shown(dir')[k] \in {Shown(dir)[k], Shown(dir')[l]}
           /\ Shown(dir') \in [Layers -> 0 .. MaxPacks]
           /\ Settled' = Settled
<1>0. TypeOK /\ dir \in Directories /\ dir' \in Directories /\ pack.run \in Nat
  BY PackParts DEF PubInv, TypeOK, Runs
<1>1. PICK m \in Manifest : m = Merged
  BY <1>0, MergedIsManifest DEF Flip
<1>2. PICK e \in Directories : e = dir'
  BY <1>0
<1>3. e.head = m /\ maybe' = maybe \cup {e} /\ pack.pc = "publish" /\ m # None
  BY <1>0, <1>1, <1>2, PublicationAssumption DEF Flip, Put, Directories, PublicationAssumption
<1>4. PICK l \in pack.layers : l \in Layers
  BY <1>0, PackParts DEF PubInv, PackInv, RunIsNew
<1>5. \A k \in Layers : Shown(e)[k] = m[k].run
  BY <1>3 DEF Shown
<1>6. Shown(e)[l] = pack.run
  BY <1>1, <1>4, <1>5, MergedEntries
<1>7. ASSUME NEW k \in Layers
      PROVE  Shown(dir)[k] \in Nat /\ Shown(dir)[k] < pack.run
  <2>1. dir.head # None => dir.head[k].run \in Nat /\ dir.head[k].run < pack.run
    BY <1>0, <1>3, DirectoryParts DEF Manifest, Entry, Runs, PubInv, PackInv, RunIsNew, BeforeFlip
  <2>2. pack.run > 0
    BY <1>0, PackParts DEF Runs
  <2> QED BY <2>1, <2>2 DEF Shown
<1>8. ASSUME NEW k \in Layers
      PROVE  Shown(e)[k] \in {Shown(dir)[k], pack.run}
  BY <1>1, <1>5, MergedEntries DEF Shown
<1>9. Shown(e) \in [Layers -> 0 .. MaxPacks]
  BY <1>3, <1>5 DEF Shown, Manifest, Entry, Runs
<1>10. Settled' = Settled
  <2>1. PICK s \in maybe : s = dir
    BY DEF PubInv
  <2>2. SameHeads
    BY <1>3 DEF PubInv, PackInv, HeadInPlace
  <2>3. \A d \in maybe : Shown(d) = Shown(s)
    BY <2>1, <2>2 DEF SameHeads, Shown
  <2>4. \A k \in Layers : Shown(s)[k] <= Shown(e)[k]
    BY <1>0, <1>7, <1>8, <2>1
  <2>5. \A d \in maybe' : \A k \in Layers : Shown(s)[k] <= Shown(d)[k]
    BY <1>3, <1>7, <2>1, <2>3, <2>4
  <2>6. maybe' \subseteq Directories
    BY DEF TypeOK
  <2>7. SettledOf(maybe') = Shown(s)
    BY <1>3, <2>5, <2>6, SettledIsLeast
  <2>8. SettledOf(maybe) = Shown(s)
    BY <2>3, SettledNow
  <2>9. Settled' = SettledOf(maybe')
    BY DEF Settled, SettledOf
  <2> QED BY <2>7, <2>8, <2>9, SettledNow
<1> QED BY <1>0, <1>2, <1>4, <1>6, <1>7, <1>8, <1>9, <1>10

\* A crash falls back to the head before the last flip, or leaves it.
LEMMA CrashLoses ==
    ASSUME PubInv, HostCrash, TypeOK'
    PROVE  Settled' = Shown(dir') /\ Shown(dir') \in {Settled, Shown(dir)}
<1>1. PICK e \in maybe : dir' = e /\ maybe' = {e}
  BY DEF HostCrash
<1>2. e \in Directories
  BY DEF PubInv, TypeOK
<1>3. \A l \in Layers : Shown(e)[l] \in Int
  BY <1>2, DirectoryParts DEF Shown, Manifest, Entry, Runs
<1>4. SettledOf(maybe') = Shown(e)
  BY <1>1, <1>2, <1>3, SettledIsLeast
<1>5. Settled' = Shown(e)
  BY <1>4 DEF Settled, SettledOf
<1>6. PICK s \in maybe : SettledOf(maybe) = Shown(s) /\ (e.head = s.head \/ e.head = dir.head)
  BY SettledNow
<1>7. Shown(e) = Shown(s) \/ Shown(e) = Shown(dir)
  BY <1>6 DEF Shown
<1> QED BY <1>1, <1>5, <1>6, <1>7, SettledNow

\* Every step of the packer, of the tools beside it and of the host is a step of
\* the abstract publication or none at all: the layers of a run appear all at
\* once, nothing else changes what the head shows, and a crash undoes no more
\* than the last flip (write_manifest, atomic_write_json).
THEOREM PackerPublishes == Spec => PublicationSpec
<1>1. Init => PUB!Init
  <2> SUFFICES ASSUME Init
               PROVE  PUB!Init
    OBVIOUS
  <2>1. PubInv /\ maybe = {dir} /\ dir.head = None
    BY InitKeeps DEF Init
  <2>2. PICK s \in maybe : SettledOf(maybe) = Shown(s)
    BY <2>1, SettledNow
  <2>3. Settled = Shown(dir)
    BY <2>1, <2>2, SettledNow
  <2>4. Shown(dir) = [l \in Layers |-> 0]
    BY <2>1 DEF Shown
  <2> QED BY <2>3, <2>4 DEF PUB!Init
<1>2. ASSUME PubInv, TypeOK', [Next]_vars
      PROVE  [PUB!Next]_(PUB!vars)
  <2>1. CASE pack # None /\ Flip
    BY <1>2, <2>1, FlipCommits DEF PUB!Next, PUB!Commit, PUB!Runs
  <2>2. CASE HostCrash
    BY <1>2, <2>2, CrashLoses DEF PUB!Next, PUB!Lose, PUB!Settle
  <2>3. CASE dir'.head = dir.head /\ (maybe' = maybe \/ maybe' = maybe \cup {dir'} \/ maybe' = {dir'})
    BY <1>2, <2>3, HeadStays DEF PUB!Next, PUB!Settle, PUB!vars
  <2> QED BY <1>2, <2>1, <2>2, <2>3, OnlyFlipMoves
<1>3. PubInv => TypeOK
  BY DEF PubInv
<1> QED BY <1>1, <1>2, <1>3, PubInvHolds, PTL DEF Spec, PublicationSpec, PUB!Spec
=============================================================================
