----------------------------- MODULE StaySearch -----------------------------
(***************************************************************************)
(* The accommodation proxy of the server (routes/stay.ts): a short-lived   *)
(* cache of buckets, one upstream search per bucket at a time, a sliding   *)
(* window over the calls of all of them, flat lists refetched as clusters  *)
(* when they are cut, and stale copies for a spent budget or a dead        *)
(* upstream.  Time is a clock of coarse ticks; everything that carries a   *)
(* time keeps its age.                                                     *)
(***************************************************************************)
EXTENDS Naturals, Sequences, FiniteSets

CONSTANTS
    Buckets,        \* cache keys: a snapped box with its filters
    FlatBuckets,    \* those within FLAT_SPAN_DEG
    Clients,        \* requests in progress
    Ttl,            \* CACHE_TTL_MS, in ticks
    StaleMax,       \* STALE_MAX_MS
    Window,         \* the 60 s of takeToken
    PerMin,         \* UPSTREAM_PER_MIN
    PagesMax,       \* PAGES_MAX
    CacheMax,       \* CACHE_MAX
    NoFlight        \* a bucket nobody searches for

ASSUME StayAssumption ==
    /\ FlatBuckets \subseteq Buckets
    /\ {Ttl, StaleMax, Window, PerMin, PagesMax, CacheMax} \subseteq Nat \ {0}
    /\ Ttl < StaleMax
    /\ "none" \notin Buckets

VARIABLES
    ssCache,        \* cache, in insertion order: [key, age, cut]
    ssFlight,       \* inflight: what the search of a bucket is doing
    ssCalls,        \* upstreamCalls: the ages of the counted calls
    ssSent,         \* history: the ages of the calls that were really sent
    ssAsk,          \* what each client waits for: none, or [key, stale]
    ssReply         \* the answers of the last step, to each client

ssVars == <<ssCache, ssFlight, ssCalls, ssSent, ssAsk, ssReply>>

Waiting(key, stale) == [key |-> key, stale |-> stale]
NotAsking == Waiting("none", FALSE)
Reply(key, kind) == [key |-> key, kind |-> kind]
Unanswered == [c \in Clients |-> Reply("none", "none")]
Flight(clustered, page, refetch) == [clustered |-> clustered, page |-> page, refetch |-> refetch]

SsInit ==
    /\ ssCache = <<>>
    /\ ssFlight = [k \in Buckets |-> NoFlight]
    /\ ssCalls = <<>>
    /\ ssSent = <<>>
    /\ ssAsk = [c \in Clients |-> NotAsking]
    /\ ssReply = Unanswered

Copies(k) == {i \in DOMAIN ssCache : ssCache[i].key = k}
Younger(k, age) == \E i \in Copies(k) : ssCache[i].age < age

-----------------------------------------------------------------------------
(* takeToken.  Live drops the calls that left the window.                  *)

\* Mutant: the count starts anew when the oldest call leaves the window.
LiveFixedWindow == IF \E i \in DOMAIN ssCalls : ssCalls[i] >= Window THEN <<>> ELSE ssCalls

\* The oldest calls are shifted off as long as they are out of the window.
Shifted == {i \in DOMAIN ssCalls : \A j \in 1..i : ssCalls[j] >= Window}
Live == SubSeq(ssCalls, Cardinality(Shifted) + 1, Len(ssCalls))

TakeToken == Len(Live) < PerMin /\ ssCalls' = Append(Live, 0) /\ ssSent' = Append(ssSent, 0)
NoToken == Len(Live) = PerMin /\ ssCalls' = Live /\ UNCHANGED ssSent

-----------------------------------------------------------------------------
(* The end of a search: what it caches, and what those who wait get.       *)

\* cache.delete: a key is there once.
Others(k) ==
    IF Copies(k) = {} THEN ssCache
    ELSE LET n == CHOOSE i \in Copies(k) : TRUE
         IN  SubSeq(ssCache, 1, n - 1) \o SubSeq(ssCache, n + 1, Len(ssCache))

\* Mutant: the oldest entry goes one insertion too late.
StoreOnePast(k, cut) ==
    LET all == Append(Others(k), [key |-> k, age |-> 0, cut |-> cut])
    IN  SubSeq(all, IF Len(all) > CacheMax + 1 THEN Len(all) - CacheMax ELSE 1, Len(all))

\* The bucket becomes the newest entry, and the oldest ones give way.
Store(k, cut) ==
    LET all == Append(Others(k), [key |-> k, age |-> 0, cut |-> cut])
    IN  SubSeq(all, IF Len(all) > CacheMax THEN Len(all) - CacheMax + 1 ELSE 1, Len(all))

StaleOrError(c) == IF ssAsk[c].stale THEN "stale" ELSE "error"

\* word is "failed" for a search that ended with an error.
Answer(k, word) ==
    LET waits == {c \in Clients : ssAsk[c].key = k} IN
    /\ ssAsk' = [c \in Clients |-> IF c \in waits THEN NotAsking ELSE ssAsk[c]]
    /\ ssReply' = [c \in Clients |-> IF c \in waits THEN Reply(k, IF word = "failed" THEN StaleOrError(c) ELSE word)
                                     ELSE Unanswered[c]]

\* Mutant: the entry goes before it is known whether the set may replace it.
FinishDropsFirst(k, cacheable, cut) ==
    /\ ssCache' = IF cacheable THEN Store(k, cut) ELSE Others(k)
    /\ ssFlight' = [ssFlight EXCEPT ![k] = NoFlight]
    /\ Answer(k, IF cacheable THEN "full" ELSE "partial")

\* cut: whether the window or a biased ranking cut the set the search ends with.
Finish(k, cacheable, cut) ==
    /\ ssCache' = IF cacheable THEN Store(k, cut) ELSE ssCache
    /\ ssFlight' = [ssFlight EXCEPT ![k] = NoFlight]
    /\ Answer(k, IF cacheable THEN "full" ELSE "partial")

\* Mutant: a failed search leaves its promise in inflight.
SearchKeepsFlight(k) ==
    /\ ssFlight' = [ssFlight EXCEPT ![k].page = 0]
    /\ Answer(k, "failed")
    /\ UNCHANGED <<ssCache, ssCalls, ssSent>>

SearchFails(k) ==
    /\ ssFlight' = [ssFlight EXCEPT ![k] = NoFlight]
    /\ Answer(k, "failed")
    /\ UNCHANGED <<ssCache, ssCalls, ssSent>>

-----------------------------------------------------------------------------
(* The request.                                                            *)

\* Mutant: only the client that starts a search remembers the stale copy.
StaleForStarter(k) == ssFlight[k] = NoFlight /\ Younger(k, StaleMax)

StaleCopy(k) == Younger(k, StaleMax)

Hit(c, k) ==
    /\ Younger(k, Ttl)
    /\ ssReply' = [Unanswered EXCEPT ![c] = Reply(k, "full")]
    /\ UNCHANGED <<ssAsk, ssCache, ssFlight, ssCalls, ssSent>>

Join(c, k) ==
    /\ ~Younger(k, Ttl) /\ ssFlight[k] # NoFlight
    /\ ssAsk' = [ssAsk EXCEPT ![c] = Waiting(k, StaleCopy(k))]
    /\ ssReply' = Unanswered
    /\ UNCHANGED <<ssCache, ssFlight, ssCalls, ssSent>>

\* The first page is paid for, and asked for, at once.
Search(c, k) ==
    /\ ~Younger(k, Ttl) /\ ssFlight[k] = NoFlight
    /\ TakeToken
    /\ ssAsk' = [ssAsk EXCEPT ![c] = Waiting(k, StaleCopy(k))]
    /\ ssReply' = Unanswered
    /\ ssFlight' = [ssFlight EXCEPT ![k] = Flight(k \notin FlatBuckets, 1, FALSE)]
    /\ UNCHANGED ssCache

OutOfBudget(c, k) ==
    /\ ~Younger(k, Ttl) /\ ssFlight[k] = NoFlight
    /\ NoToken
    /\ ssReply' = [Unanswered EXCEPT ![c] = Reply(k, IF StaleCopy(k) THEN "stale" ELSE "error")]
    /\ UNCHANGED <<ssAsk, ssCache, ssFlight>>

Ask(c) ==
    /\ ssAsk[c] = NotAsking
    /\ \E k \in Buckets : Hit(c, k) \/ Join(c, k) \/ Search(c, k) \/ OutOfBudget(c, k)

-----------------------------------------------------------------------------
(* One page of a search.  The upstream says: more, last; over: a flat list *)
(* of more than the budget; short: fewer results than its total; nothing.  *)

\* Mutant: cacheable is decided by the first set alone.
CacheableAfterFlat(set, starved) == TRUE

\* What is left of cacheable once a flat list was refetched as clusters.
RefetchCacheable(set, starved) == set # "nothing" /\ ~starved

\* A flat list that is cut is asked for anew, one result per cell.
Refetch(k) ==
    \/ TakeToken /\ ssFlight' = [ssFlight EXCEPT ![k] = Flight(TRUE, 1, TRUE)]
       /\ ssReply' = Unanswered
       /\ UNCHANGED <<ssCache, ssAsk>>
    \/ NoToken /\ Finish(k, RefetchCacheable("nothing", TRUE), TRUE)

\* The next page, or the end of the set for want of a token.
NextPage(k) ==
    \/ /\ TakeToken
       /\ ssFlight' = [ssFlight EXCEPT ![k].page = @ + 1]
       /\ ssReply' = Unanswered
       /\ UNCHANGED <<ssCache, ssAsk>>
    \/ /\ NoToken
       /\ Finish(k, ssFlight[k].refetch /\ RefetchCacheable("some", TRUE), TRUE)

EndOfSet(k, set) ==
    /\ Finish(k, ssFlight[k].refetch => RefetchCacheable(set, FALSE), ssFlight[k].refetch /\ set = "nothing")
    /\ UNCHANGED <<ssCalls, ssSent>>

PageArrived(k) ==
    /\ ssFlight[k] # NoFlight
    /\ LET f == ssFlight[k]
           last == f.page = PagesMax
       IN  \/ ~f.clustered /\ Refetch(k)                        \* over, short, or more after the last
           \/ ~last /\ NextPage(k)                              \* more
           \/ last /\ f.clustered /\ EndOfSet(k, "some")        \* more, after the last page
           \/ EndOfSet(k, "some")                               \* last
           \/ f.page = 1 /\ EndOfSet(k, "nothing")
           \/ SearchFails(k)                                           \* an error status, or the 12 s

Age(age, cap) == IF age < cap THEN age + 1 ELSE age

SsTick ==
    /\ ssCache' = [i \in DOMAIN ssCache |-> [ssCache[i] EXCEPT !.age = Age(@, StaleMax)]]
    /\ ssCalls' = [i \in DOMAIN ssCalls |-> Age(ssCalls[i], Window)]
    /\ ssSent' = LET aged == [i \in DOMAIN ssSent |-> ssSent[i] + 1]
                     over == {i \in DOMAIN aged : aged[i] >= Window}
                 IN  SubSeq(aged, Cardinality(over) + 1, Len(aged))
    /\ ssReply' = Unanswered
    /\ UNCHANGED <<ssFlight, ssAsk>>

SsNext ==
    \/ \E c \in Clients : Ask(c)
    \/ \E k \in Buckets : PageArrived(k)
    \/ SsTick

SsSpec == SsInit /\ [][SsNext]_ssVars

\* Every page is answered, at the latest by the 12 s that abort it.
SsFairness == \A k \in Buckets : WF_ssVars(PageArrived(k))

SsFairSpec == SsSpec /\ SsFairness

-----------------------------------------------------------------------------
SsTypeOK ==
    /\ \A i \in DOMAIN ssCache : ssCache[i] \in [key : Buckets, age : 0 .. StaleMax, cut : BOOLEAN]
    /\ Len(ssCache) <= CacheMax
    /\ \A i, j \in DOMAIN ssCache : ssCache[i].key = ssCache[j].key => i = j
    /\ \A k \in Buckets : \/ ssFlight[k] = NoFlight
                          \/ ssFlight[k] \in [clustered : BOOLEAN, page : 1 .. PagesMax, refetch : BOOLEAN]
    /\ Len(ssCalls) <= PerMin

\* The upstream never sees more calls within any window than the cap, however
\* searches, their pages and their refetches share the window ("no burst").
WindowIsKept == Len(ssSent) <= PerMin

\* Nothing that the window cut, and no biased cut of a flat list, becomes what
\* a bucket answers for a whole life time.
NoCutIsCached == \A i \in DOMAIN ssCache : ~ssCache[i].cut

\* The window protects the upstream, and what it cuts is not mistaken for the
\* answer of the upstream.
SearchIsHonest == WindowIsKept /\ NoCutIsCached

\* A client is told of an error only when there is no copy it could have had:
\* neither a spent window nor a failed search, also one it merely joined,
\* hides a copy that is young enough.
NoErrorOverCopy ==
    [][\A c \in Clients, k \in Buckets :
         ssReply'[c] = Reply(k, "error") => ~Younger(k, StaleMax)]_ssVars

\* A copy leaves the cache only for a newer entry of its bucket, or as the
\* oldest of a full cache: no failed or partial search costs a copy.
CopiesAreKept ==
    [][\A k \in Buckets : (Copies(k) # {} /\ ~\E i \in DOMAIN ssCache' : ssCache'[i].key = k)
         => Len(ssCache) = CacheMax /\ Len(ssCache') = CacheMax /\ 1 \in Copies(k)]_ssVars

\* A copy lives, and is served, until it is replaced, evicted or too old.
CopiesServe == NoErrorOverCopy /\ CopiesAreKept

\* Every search ends, and leaves its bucket free for the next one.
SearchesEnd == \A k \in Buckets : (ssFlight[k] # NoFlight) ~> (ssFlight[k] = NoFlight)
=============================================================================
