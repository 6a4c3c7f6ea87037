------------------------------ MODULE Readiness ------------------------------
(***************************************************************************)
(* Whether the server calls itself ready (runtime-readiness.ts): the       *)
(* validated pin of the tile archives, shared by the readiness check and   *)
(* the manifest routes through a cache and through loads in flight, and    *)
(* the check itself, which puts two caches of its own on top: one for the  *)
(* files, one for the native engine.                                       *)
(*                                                                         *)
(* A pin is replaced by a rename, which gives the replaced file another    *)
(* ctime: the identity of an open pin is its number and whether it is      *)
(* still the current one.  Time is a clock of coarse ticks; what carries a *)
(* time keeps its age, or what is left of it.                              *)
(***************************************************************************)
EXTENDS Naturals, FiniteSets

CONSTANTS
    Routes,         \* manifest requests in progress
    Checker,        \* the readiness check, as a reader of the manifest
    Monitors,       \* readiness requests in progress
    FileParts,      \* the components that are files: engine, frontend, prepared-data
    ProbeParts,     \* those without which no worker is started
    PinCache,       \* PMTILES_MANIFEST_CACHE_MS, in ticks
    FsCache,        \* filesystemCacheMs
    EngineCache,    \* engineSuccessCacheMs
    EngineRetry,    \* engineRetryMs
    MaxPins,        \* bound: pins
    MaxEvents,      \* bound: publications and breaks together
    MaxSpan         \* bound: ticks a check takes

ASSUME ReadinessAssumption ==
    /\ Checker \notin Routes
    /\ IsFiniteSet(Routes)
    /\ {"pmtiles", "worker"} \cap FileParts = {}
    /\ ProbeParts \subseteq FileParts
    /\ {PinCache, FsCache, EngineCache, EngineRetry, MaxPins} \subseteq Nat \ {0}
    /\ {MaxEvents, MaxSpan} \subseteq Nat

Readers == Routes \cup {Checker}
PinKeys == (1..MaxPins) \X BOOLEAN
AllParts == FileParts \cup {"pmtiles", "worker"}
CappedAt(n, cap) == IF n > cap THEN cap ELSE n

\* Ages are told apart up to the first that is too old for a "ready".
AgeMax(c) ==
    CASE c = "pmtiles" -> FsCache + PinCache - 1 + MaxSpan
      [] c = "worker"  -> EngineCache
      [] OTHER         -> FsCache + MaxSpan

VARIABLES
    rdPin,      \* the pin that is current, or 0
    rdLast,     \* pins published so far
    rdGood,     \* the pins that are well formed and have their archives
    rdUp,       \* the other parts that are in order
    rdBreaks,   \* times something broke, or a probe failed
    rdRead,     \* each reader of the manifest
    rdLoads,    \* pmtilesManifestLoads: the stage of each load
    rdCache,    \* pmtilesManifestCache: [key, age]
    rdHandles,  \* descriptors open on pins
    rdCheck,    \* inFlight: the readiness check, and its last verdict
    rdAsk,      \* the monitors that wait for it
    rdFs,       \* age of filesystemCache; FsCache when there is none
    rdEngine,   \* ticks until engineReadyUntil
    rdRetry,    \* ticks until engineRetryAt
    rdOkAge     \* history: ticks since each part was last in order

rdWorld == <<rdPin, rdLast, rdGood, rdUp, rdBreaks>>
rdClocks == <<rdFs, rdEngine, rdRetry, rdOkAge>>
rdVars == <<rdWorld, rdRead, rdLoads, rdCache, rdHandles, rdCheck, rdAsk, rdClocks>>

PinInOrder == rdPin \in rdGood
FailedLoad == \E k \in PinKeys : rdLoads[k] = "failed"

\* What a reader does, and what happened since it began: the pins that were
\* current, and whether one was not in order.
ReaderState(pc, got, key, again, seen, spoiled) ==
    [pc |-> pc, got |-> got, key |-> key, again |-> again, seen |-> seen, spoiled |-> spoiled]
NoKey == <<0, FALSE>>
Resting(got, key) == ReaderState("idle", got, key, FALSE, {}, FALSE)
Begun == ReaderState("open", "none", NoKey, FALSE, {rdPin}, ~PinInOrder \/ FailedLoad)

NoCheck(failed) == [pc |-> "idle", left |-> {}, failed |-> failed, span |-> 0, spoiled |-> {}]

RdInit ==
    /\ rdPin \in {0, 1}
    /\ rdLast = 1
    /\ rdGood = {rdPin} \ {0}
    /\ rdUp = FileParts \cup {"worker"}
    /\ rdBreaks = 0
    /\ rdRead = [r \in Readers |-> Resting("none", NoKey)]
    /\ rdLoads = [k \in PinKeys |-> "none"]
    /\ rdCache = [key |-> NoKey, age |-> PinCache]
    /\ rdHandles = 0
    /\ rdCheck = NoCheck({})
    /\ rdAsk = {}
    /\ rdFs = FsCache
    /\ rdEngine = 0
    /\ rdRetry = 0
    /\ rdOkAge = [c \in AllParts |-> IF c = "pmtiles" /\ rdPin = 0 THEN AgeMax(c) ELSE 0]

-----------------------------------------------------------------------------
(* What happens around the server.                                         *)

MayHappen == rdLast - 1 + rdBreaks < MaxEvents

\* Marks what went out of order for everybody who is looking.
Spoil(part) ==
    /\ rdCheck' = IF rdCheck.pc = "idle" THEN rdCheck
                  ELSE [rdCheck EXCEPT !.spoiled = @ \cup {part}]
    /\ rdRead' = IF part # "pmtiles" THEN rdRead
                 ELSE [r \in Readers |-> IF rdRead[r].pc = "idle" THEN rdRead[r]
                                         ELSE [rdRead[r] EXCEPT !.spoiled = TRUE]]

\* A new pin, good or not.
PublishPin ==
    /\ rdLast < MaxPins
    /\ MayHappen
    /\ rdLast' = rdLast + 1
    /\ rdPin' = rdLast + 1
    /\ \/ rdGood' = rdGood \cup {rdLast + 1} /\ rdBreaks' = rdBreaks
       \/ rdGood' = rdGood /\ rdBreaks' = rdBreaks + 1
    /\ rdRead' = [r \in Readers |-> IF rdRead[r].pc = "idle" THEN rdRead[r]
                     ELSE [rdRead[r] EXCEPT !.seen = @ \cup {rdLast + 1},
                                            !.spoiled = @ \/ rdLast + 1 \notin rdGood']]
    /\ rdOkAge' = IF rdPin' \in rdGood' THEN [rdOkAge EXCEPT !["pmtiles"] = 0] ELSE rdOkAge
    /\ UNCHANGED <<rdUp, rdLoads, rdCache, rdHandles, rdCheck, rdAsk, rdFs, rdEngine, rdRetry>>

\* An archive of the pin goes, or comes back.
PinBreaks ==
    /\ PinInOrder
    /\ MayHappen
    /\ rdBreaks' = rdBreaks + 1
    /\ rdGood' = rdGood \ {rdPin}
    /\ Spoil("pmtiles")
    /\ UNCHANGED <<rdPin, rdLast, rdUp, rdLoads, rdCache, rdHandles, rdAsk, rdClocks>>

PinHeals ==
    /\ rdPin # 0
    /\ ~PinInOrder
    /\ rdGood' = rdGood \cup {rdPin}
    /\ rdOkAge' = [rdOkAge EXCEPT !["pmtiles"] = 0]
    /\ UNCHANGED <<rdPin, rdLast, rdUp, rdBreaks, rdRead, rdLoads, rdCache, rdHandles, rdCheck,
                   rdAsk, rdFs, rdEngine, rdRetry>>

PartBreaks(c) ==
    /\ c \in rdUp
    /\ MayHappen
    /\ rdBreaks' = rdBreaks + 1
    /\ rdUp' = rdUp \ {c}
    /\ Spoil(c)
    /\ UNCHANGED <<rdPin, rdLast, rdGood, rdLoads, rdCache, rdHandles, rdAsk, rdClocks>>

PartHeals(c) ==
    /\ c \notin rdUp
    /\ rdUp' = rdUp \cup {c}
    /\ rdOkAge' = [rdOkAge EXCEPT ![c] = 0]
    /\ UNCHANGED <<rdPin, rdLast, rdGood, rdBreaks, rdRead, rdLoads, rdCache, rdHandles, rdCheck,
                   rdAsk, rdFs, rdEngine, rdRetry>>

-----------------------------------------------------------------------------
(* readCachedValidatedPmtilesManifest.                                     *)

AskManifest(r) ==
    /\ rdRead[r].pc = "idle"
    /\ rdRead' = [rdRead EXCEPT ![r] = Begun]
    /\ UNCHANGED <<rdWorld, rdLoads, rdCache, rdHandles, rdCheck, rdAsk, rdClocks>>

\* openManifestPinNoFollow: the open and the stat are two awaits.
OpenPin(r) ==
    /\ rdRead[r].pc = "open"
    /\ IF rdPin = 0
       THEN rdRead' = [rdRead EXCEPT ![r] = Resting("missing", NoKey)] /\ UNCHANGED rdHandles
       ELSE /\ rdRead' = [rdRead EXCEPT ![r].pc = "stat", ![r].key = <<rdPin, FALSE>>]
            /\ rdHandles' = rdHandles + 1
    /\ UNCHANGED <<rdWorld, rdLoads, rdCache, rdCheck, rdAsk, rdClocks>>

\* fileIdentity of an open pin
PinIdentity(v) == <<v, v = rdPin>>

\* Mutant: the cached manifest goes by its age alone.
CacheHitByAge(v) == rdCache.age < PinCache

CacheHit(v) == rdCache.key = PinIdentity(v) /\ rdCache.age < PinCache

\* Mutant: a reader that joins a load forgets the descriptor it opened.
HandlesLeak(k) == rdHandles

HandlesOfJoin(k) == rdHandles - 1

\* The identity is known, and decides in one step: the cache, a load in
\* flight, or a load of its own.
StatPin(r) ==
    LET v == rdRead[r].key[1]
        k == PinIdentity(v)
    IN  /\ rdRead[r].pc = "stat"
        /\ \/ /\ CacheHit(v)
              /\ rdRead' = [rdRead EXCEPT ![r] = Resting("manifest", rdCache.key)]
              /\ rdHandles' = rdHandles - 1
              /\ UNCHANGED rdLoads
           \/ /\ ~CacheHit(v)
              /\ rdLoads[k] # "none"
              /\ rdRead' = [rdRead EXCEPT ![r].pc = "load", ![r].key = k]
              /\ rdHandles' = HandlesOfJoin(k)
              /\ UNCHANGED rdLoads
           \/ /\ ~CacheHit(v)
              /\ rdLoads[k] = "none"
              /\ rdRead' = [rdRead EXCEPT ![r].pc = "load", ![r].key = k]
              /\ rdLoads' = [rdLoads EXCEPT ![k] = "validate"]
              /\ UNCHANGED rdHandles
        /\ UNCHANGED <<rdWorld, rdCache, rdCheck, rdAsk, rdClocks>>

\* validatePmtilesManifest: the content of the pin and the sizes of its archives.
ValidatePin(k) ==
    /\ rdLoads[k] = "validate"
    /\ rdLoads' = [rdLoads EXCEPT ![k] = IF k[1] \in rdGood THEN "stat" ELSE "failed"]
    /\ UNCHANGED <<rdWorld, rdRead, rdCache, rdHandles, rdCheck, rdAsk, rdClocks>>

\* The identity after the validation must be the one before it.
StatAgain(k) ==
    /\ rdLoads[k] = "stat"
    /\ IF PinIdentity(k[1]) = k
       THEN /\ rdLoads' = [rdLoads EXCEPT ![k] = "done"]
            /\ rdCache' = [key |-> k, age |-> 0]
       ELSE rdLoads' = [rdLoads EXCEPT ![k] = "changed"] /\ UNCHANGED rdCache
    /\ UNCHANGED <<rdWorld, rdRead, rdHandles, rdCheck, rdAsk, rdClocks>>

\* Mutant: a pin that changed during its validation is an error at once.
AfterLoadOnce(reader, stage) ==
    IF stage = "done" THEN Resting("manifest", reader.key) ELSE Resting("error", NoKey)

\* A reader whose load saw the pin change opens it once more.
AfterLoad(reader, stage) ==
    CASE stage = "done"                       -> Resting("manifest", reader.key)
      [] stage = "changed" /\ ~reader.again   -> [reader EXCEPT !.pc = "open", !.key = NoKey, !.again = TRUE]
      [] OTHER                                -> Resting("error", NoKey)

\* The descriptor is closed, and everybody who awaits the load goes on.
LoadEnds(k) ==
    /\ rdLoads[k] \in {"done", "changed", "failed"}
    /\ rdLoads' = [rdLoads EXCEPT ![k] = "none"]
    /\ rdHandles' = rdHandles - 1
    /\ rdRead' = [r \in Readers |-> IF rdRead[r].pc = "load" /\ rdRead[r].key = k
                                   THEN AfterLoad(rdRead[r], rdLoads[k]) ELSE rdRead[r]]
    /\ UNCHANGED <<rdWorld, rdCache, rdCheck, rdAsk, rdClocks>>

-----------------------------------------------------------------------------
(* createReadinessCheck.                                                   *)

Checked(pc) == [pc |-> pc, left |-> IF pc = "files" THEN FileParts \cup {"pmtiles"} ELSE {},
                failed |-> {}, span |-> 0, spoiled |-> (FileParts \cup {"worker"}) \ rdUp]

\* A monitor joins the check in flight, or starts one: from the files, or from
\* their cached result.
MonitorAsks(m) ==
    /\ m \notin rdAsk
    /\ rdAsk' = rdAsk \cup {m}
    /\ \/ rdCheck.pc # "idle" /\ UNCHANGED <<rdCheck, rdRead>>
       \/ /\ rdCheck.pc = "idle"
          /\ rdFs < FsCache
          /\ rdCheck' = Checked("engine")
          /\ UNCHANGED rdRead
       \/ /\ rdCheck.pc = "idle"
          /\ rdFs = FsCache
          /\ rdCheck' = Checked("files")
          /\ rdRead' = [rdRead EXCEPT ![Checker] = Begun]
    /\ UNCHANGED <<rdWorld, rdLoads, rdCache, rdHandles, rdClocks>>

PartSettles(c, passed) ==
    /\ c \in rdCheck.left
    /\ rdCheck' = [rdCheck EXCEPT !.left = @ \ {c}, !.failed = IF passed THEN @ ELSE @ \cup {c}]

CheckPart(c) ==
    /\ PartSettles(c, c \in rdUp)
    /\ UNCHANGED <<rdWorld, rdRead, rdLoads, rdCache, rdHandles, rdAsk, rdClocks>>

CheckPmtiles ==
    /\ rdRead[Checker].pc = "idle"
    /\ PartSettles("pmtiles", rdRead[Checker].got = "manifest")
    /\ rdRead' = [rdRead EXCEPT ![Checker] = Resting("none", NoKey)]
    /\ UNCHANGED <<rdWorld, rdLoads, rdCache, rdHandles, rdAsk, rdClocks>>

\* Mutant: every result is cached.
FsAgeAlways == CappedAt(rdCheck.span, FsCache)

\* Mutant: the age of the cached result counts from its end.
FsAgeFromEnd == IF rdCheck.failed = {} THEN 0 ELSE FsCache

\* Only a success is cached, and its age counts from the start of the check.
FsAge == IF rdCheck.failed = {} THEN CappedAt(rdCheck.span, FsCache) ELSE FsCache

FilesChecked ==
    /\ rdCheck.pc = "files"
    /\ rdCheck.left = {}
    /\ rdCheck' = [rdCheck EXCEPT !.pc = "engine"]
    /\ rdFs' = FsAge
    /\ UNCHANGED <<rdWorld, rdRead, rdLoads, rdCache, rdHandles, rdAsk, rdEngine, rdRetry, rdOkAge>>

\* Mutant: the check in flight is forgotten only when it is good.
VerdictWhenReady(failed) ==
    /\ rdCheck' = IF failed = {} THEN NoCheck(failed) ELSE [rdCheck EXCEPT !.pc = "probe"]
    /\ rdAsk' = {}

RdVerdict(failed) ==
    /\ rdCheck' = NoCheck(failed)
    /\ rdAsk' = {}

\* Without a probe: the files of the engine are bad, the last success counts
\* still, or the last failure does.
EngineKnown ==
    /\ rdCheck.pc = "engine"
    /\ \/ rdCheck.failed \cap ProbeParts # {} /\ RdVerdict(rdCheck.failed)
       \/ rdCheck.failed \cap ProbeParts = {} /\ rdEngine > 0 /\ RdVerdict(rdCheck.failed)
       \/ /\ rdCheck.failed \cap ProbeParts = {}
          /\ rdEngine = 0
          /\ rdRetry > 0
          /\ RdVerdict(rdCheck.failed \cup {"engine"})
    /\ UNCHANGED <<rdWorld, rdRead, rdLoads, rdCache, rdHandles, rdClocks>>

StartProbe ==
    /\ rdCheck.pc = "engine"
    /\ rdCheck.failed \cap ProbeParts = {}
    /\ rdEngine = 0
    /\ rdRetry = 0
    /\ rdCheck' = [rdCheck EXCEPT !.pc = "probe"]
    /\ UNCHANGED <<rdWorld, rdRead, rdLoads, rdCache, rdHandles, rdAsk, rdClocks>>

ProbeAnswers ==
    /\ rdCheck.pc = "probe"
    /\ "worker" \in rdUp
    /\ rdEngine' = EngineCache
    /\ RdVerdict(rdCheck.failed)
    /\ UNCHANGED <<rdWorld, rdRead, rdLoads, rdCache, rdHandles, rdFs, rdRetry, rdOkAge>>

\* The supervisor refuses it or gives up on it, because of the worker or of the
\* load; the bound is on the failures of a worker that is up.
ProbeFails ==
    /\ rdCheck.pc = "probe"
    /\ "worker" \notin rdUp \/ MayHappen
    /\ rdBreaks' = IF "worker" \in rdUp THEN rdBreaks + 1 ELSE rdBreaks
    /\ rdEngine' = 0
    /\ rdRetry' = EngineRetry
    /\ RdVerdict(rdCheck.failed \cup {"engine"})
    /\ UNCHANGED <<rdPin, rdLast, rdGood, rdUp, rdRead, rdLoads, rdCache, rdHandles, rdFs, rdOkAge>>

-----------------------------------------------------------------------------
OneLess(n) == IF n = 0 THEN 0 ELSE n - 1
RdInOrder(c) == IF c = "pmtiles" THEN PinInOrder ELSE c \in rdUp

\* A load that has validated ends within the tick.  What was answered before it
\* is forgotten.
RdTick ==
    /\ \A k \in PinKeys : rdLoads[k] \in {"none", "validate"}
    /\ rdCheck.pc # "idle" => rdCheck.span < MaxSpan
    /\ rdCheck' = IF rdCheck.pc = "idle" THEN NoCheck({}) ELSE [rdCheck EXCEPT !.span = @ + 1]
    /\ rdRead' = [r \in Readers |-> IF rdRead[r].pc = "idle" /\ r \in Routes
                                   THEN Resting("none", NoKey) ELSE rdRead[r]]
    /\ rdCache' = [rdCache EXCEPT !.age = CappedAt(@ + 1, PinCache)]
    /\ rdFs' = CappedAt(rdFs + 1, FsCache)
    /\ rdEngine' = OneLess(rdEngine)
    /\ rdRetry' = OneLess(rdRetry)
    /\ rdOkAge' = [c \in AllParts |-> IF RdInOrder(c) THEN 0 ELSE CappedAt(rdOkAge[c] + 1, AgeMax(c))]
    /\ UNCHANGED <<rdWorld, rdLoads, rdHandles, rdAsk>>

RdWorldNext ==
    \/ PublishPin
    \/ PinBreaks
    \/ PinHeals
    \/ \E c \in FileParts \cup {"worker"} : PartBreaks(c) \/ PartHeals(c)

ReaderNext(r) == OpenPin(r) \/ StatPin(r)
LoadNext(k) == ValidatePin(k) \/ StatAgain(k) \/ LoadEnds(k)
CheckNext ==
    \/ \E c \in FileParts : CheckPart(c)
    \/ CheckPmtiles
    \/ FilesChecked
    \/ EngineKnown
    \/ StartProbe
    \/ ProbeAnswers
    \/ ProbeFails

\* What the file system does for those who wait for it.
FilesAnswer == (\E r \in Readers : ReaderNext(r)) \/ (\E k \in PinKeys : LoadNext(k))

RdNext ==
    \/ RdWorldNext
    \/ RdTick
    \/ \E r \in Routes : AskManifest(r)
    \/ FilesAnswer
    \/ \E m \in Monitors : MonitorAsks(m)
    \/ CheckNext

RdSpec == RdInit /\ [][RdNext]_rdVars

-----------------------------------------------------------------------------

\* The state is well formed.
RdTypeOK ==
    /\ rdPin \in 0..MaxPins /\ rdLast \in rdPin..MaxPins
    /\ rdGood \subseteq 1..rdLast
    /\ rdUp \subseteq FileParts \cup {"worker"}
    /\ rdBreaks \in 0..(MaxEvents + 1)
    /\ \A r \in Readers :
          /\ rdRead[r].pc \in {"idle", "open", "stat", "load"}
          /\ rdRead[r].got \in {"none", "missing", "error", "manifest"}
          /\ rdRead[r].key \in PinKeys \cup {NoKey}
          /\ rdRead[r].seen \subseteq 0..MaxPins
          /\ rdRead[r].pc = "load" => rdLoads[rdRead[r].key] # "none"
    /\ rdLoads \in [PinKeys -> {"none", "validate", "stat", "done", "changed", "failed"}]
    /\ rdCache \in [key : PinKeys \cup {NoKey}, age : 0..PinCache]
    /\ rdCheck.pc \in {"idle", "files", "engine", "probe"}
    /\ rdCheck.failed \cup rdCheck.left \subseteq FileParts \cup {"pmtiles", "engine"}
    /\ rdCheck.span \in 0..MaxSpan
    /\ rdAsk \subseteq Monitors
    /\ rdAsk # {} <=> rdCheck.pc # "idle"
    /\ rdFs \in 0..FsCache /\ rdEngine \in 0..EngineCache /\ rdRetry \in 0..EngineRetry
    /\ \A c \in AllParts : rdOkAge[c] \in 0..AgeMax(c)

\* A descriptor of a pin is open only for a reader between its two awaits or for
\* a load in flight, however requests, retries and failures fall together.
HandlesAreClosed ==
    rdHandles = Cardinality({r \in Readers : rdRead[r].pc = "stat"})
                + Cardinality({k \in PinKeys : rdLoads[k] # "none"})

\* What a request gets for a manifest was the pin at some time of the request;
\* it fails only for a pin that was out of order meanwhile, or that changed
\* twice: one publication never fails a request (the retry in
\* readCachedValidatedPmtilesManifest).
RdAnswered(r) == rdRead[r].pc # "idle" /\ rdRead'[r].pc = "idle"
MisreadPin(r) ==
    /\ RdAnswered(r)
    /\ \/ rdRead'[r].got = "manifest" /\ rdRead'[r].key[1] \notin rdRead[r].seen
       \/ rdRead'[r].got = "missing" /\ 0 \notin rdRead[r].seen
       \/ rdRead'[r].got = "error" /\ ~rdRead[r].spoiled /\ Cardinality(rdRead[r].seen) < 3

\* "Ready" says of every part that it was in order recently: within what the
\* caches above it may keep of it, and the time the check itself took.
RdConcluded == rdCheck.pc # "idle" /\ rdCheck'.pc = "idle"
ReadyTooLate ==
    /\ RdConcluded
    /\ rdCheck'.failed = {}
    /\ \/ \E c \in FileParts : rdOkAge[c] > FsCache - 1 + rdCheck.span
       \/ rdOkAge["pmtiles"] > FsCache - 1 + PinCache - 1 + rdCheck.span
       \/ rdOkAge["worker"] > EngineCache - 1

\* "Not ready" names only files that were out of order during this very check,
\* and the engine only within the retry window of a failed probe.
BlamedTooLate ==
    /\ RdConcluded
    /\ \E c \in rdCheck'.failed \cap FileParts :
          c \notin rdCheck.spoiled /\ (c = "engine" => rdRetry' = 0)

\* No stack of caches, shared loads and joined checks gives an answer that was
\* not true of a recent moment.
ReadinessIsHonest ==
    [][(\A r \in Readers : ~MisreadPin(r)) /\ ~ReadyTooLate /\ ~BlamedTooLate]_rdVars

\* Every readiness check ends, and with it every monitor that joined it is
\* answered, however its reader, the loads it shares and the probe end.
ChecksEnd == rdCheck.pc # "idle" ~> rdCheck.pc = "idle"

=============================================================================
