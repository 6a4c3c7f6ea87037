---------------------------- MODULE ServerProofs ----------------------------
(***************************************************************************)
(* What publishes, serves and loads the map, for any numbers of its parts: *)
(* the releases and their links, the stay proxy, the browser's tile        *)
(* loader, and what the composition of them keeps with the packs and the   *)
(* server's caches, whose proofs are modules of their own.                 *)
(***************************************************************************)
EXTENDS MCServer, CacheProofs, PackPublicationProofs

-----------------------------------------------------------------------------
(* Releases: every link resolves, a rollback goes to what was active, dist *)
(* stays, and a running server keeps its release until a second activation *)
(* or a rollback begins.                                                   *)


\* Who holds which link when.
Pointers ==
    /\ link.dist \in active \cup {NoRelease}
    /\ link.previous \in active \cup {NoRelease}
    /\ saved \in active \cup {NoRelease}
    /\ script = "published" => building \in present /\ \A l \in Links : link[l] # building
    /\ script = "activating" => /\ link.next # NoRelease
                                /\ link.previous = link.dist
                                /\ saved \in present \cup {NoRelease}
    /\ script = "pruning" \/ doomed = {}
    /\ \A l \in Links : link[l] \notin doomed

\* A server that no second activation concerns runs what dist or
\* dist.previous names; before the first one ends it is dist.
ServerPointers ==
    \A s \in Servers : server[s] # NoRelease =>
        /\ since[s] < 2 => server[s] \in {link.dist, link.previous}
        /\ since[s] = 0 => script # "activating"
        /\ since[s] = 0 \/ (since[s] = 1 /\ script = "activating") => server[s] = link.dist

RlInv == RlTypeOK /\ LinksResolve /\ Pointers /\ ServerPointers

LEMMA RlInitInv == RlInit => RlInv
  BY ReleaseAssumption DEF RlInit, RlInv, RlTypeOK, LinksResolve, LinksValid, Pointers, ServerPointers, Links

LEMMA RlStepInv == RlInv /\ [RlNext]_rlVars => RlInv'
  <1> SUFFICES ASSUME RlInv, [RlNext]_rlVars PROVE RlInv'
    OBVIOUS
  <1> USE ReleaseAssumption DEF RlInv
  <1>1. ASSUME NEW r \in Releases, PublishRelease(r) PROVE RlInv'
    BY <1>1 DEF PublishRelease, RlTypeOK, LinksResolve, LinksValid, Pointers, ServerPointers, Links, linkVars, serverVars
  <1>2. CASE Prepare
    BY <1>2 DEF Prepare, RlTypeOK, LinksResolve, LinksValid, Pointers, ServerPointers, Links, serverVars
  <1>3. CASE PrepareFails
    BY <1>3 DEF PrepareFails, RlTypeOK, LinksResolve, LinksValid, Pointers, ServerPointers, Links, linkVars, serverVars
  <1>4. CASE PruneStarts
    BY <1>4 DEF PruneStarts, RlTypeOK, LinksResolve, LinksValid, Linked, Pointers, ServerPointers, Links, linkVars, serverVars
  <1>5. ASSUME NEW r \in Releases, PruneRelease(r) PROVE RlInv'
    BY <1>5 DEF PruneRelease, RlTypeOK, LinksResolve, LinksValid, Pointers, ServerPointers, Links, linkVars, serverVars
  <1>6. CASE PruneEnds
    BY <1>6 DEF PruneEnds, RlTypeOK, LinksResolve, LinksValid, Pointers, ServerPointers, Links, linkVars, serverVars
  <1>7. CASE SavePrevious
    BY <1>7 DEF SavePrevious, RlTypeOK, LinksResolve, LinksValid, Pointers, ServerPointers, Links, Ages, Least
  <1>8. CASE Activate
    <2>1. /\ link' \in [Links -> built \cup {NoRelease}]
          /\ link'["dist"] = link["next"] /\ link'["next"] = NoRelease /\ link'["previous"] = link["dist"]
      BY <1>8 DEF Activate, RlTypeOK, Pointers, Links
    <2>2. link["next"] \in built /\ active' = active \cup {link["next"]} /\ active' \subseteq built
      BY <1>8 DEF Activate, RlTypeOK, Pointers, Links
    <2>3. server' \in [Servers -> active' \cup {NoRelease}]
      BY <1>8, <2>2 DEF Activate, RlTypeOK, serverVars
    <2>4. RlTypeOK'
      BY <1>8, <2>1, <2>2, <2>3 DEF Activate, RlTypeOK, serverVars
    <2>5. LinksResolve'
      BY <1>8, <2>1 DEF Activate, LinksResolve, LinksValid, Links
    <2>6. Pointers'
      BY <1>8, <2>1 DEF Activate, RlTypeOK, Pointers, Links
    <2>7. ServerPointers'
      BY <1>8, <2>1 DEF Activate, RlTypeOK, Pointers, ServerPointers, serverVars
    <2> QED
      BY <2>4, <2>5, <2>6, <2>7
  <1>9. ASSUME NEW recovered \in BOOLEAN, ActivateFails(recovered) PROVE RlInv'
    BY <1>9 DEF ActivateFails, RlTypeOK, LinksResolve, LinksValid, Pointers, ServerPointers, Links, serverVars
  <1>10. CASE Rollback
    <2>1. /\ link' \in [Links -> built \cup {NoRelease}]
          /\ link'["dist"] = link["previous"] /\ link'["next"] = link["next"] /\ link'["previous"] = NoRelease
      BY <1>10 DEF Rollback, RlTypeOK, Links
    <2>2. since' = [s \in Servers |-> IF server[s] = NoRelease THEN 0 ELSE 2]
      <3>1. \A s \in Servers : since[s] + 2 \in 2 .. 4
        BY DEF RlTypeOK
      <3> QED
        BY <1>10, <3>1 DEF Rollback, Ages, Least
    <2>3. RlTypeOK' /\ LinksResolve'
      BY <1>10, <2>1, <2>2 DEF Rollback, RlTypeOK, LinksResolve, LinksValid, Links
    <2>4. Pointers'
      BY <1>10, <2>1 DEF Rollback, RlTypeOK, Pointers, Links
    <2>5. ServerPointers'
      BY <1>10, <2>2 DEF Rollback, ServerPointers
    <2> QED
      BY <2>3, <2>4, <2>5
  <1>11. CASE Crash
    BY <1>11 DEF Crash, RlTypeOK, LinksResolve, LinksValid, Pointers, ServerPointers, Links, linkVars, serverVars
  <1>12. ASSUME NEW s \in Servers, ServerStarts(s) PROVE RlInv'
    BY <1>12 DEF ServerStarts, RlTypeOK, LinksResolve, LinksValid, Pointers, ServerPointers, Links, linkVars
  <1>13. ASSUME NEW s \in Servers, ServerStops(s) PROVE RlInv'
    BY <1>13 DEF ServerStops, RlTypeOK, LinksResolve, LinksValid, Pointers, ServerPointers, Links, linkVars
  <1>14. CASE UNCHANGED rlVars
    BY <1>14 DEF rlVars, linkVars, serverVars, RlTypeOK, LinksResolve, LinksValid, Pointers, ServerPointers, Links
  <1> QED
    BY <1>1, <1>2, <1>3, <1>4, <1>5, <1>6, <1>7, <1>8, <1>9, <1>10, <1>11, <1>12, <1>13, <1>14
    DEF RlNext, Build, Switch

\* The type invariant holds in every reachable state, of any instance.
THEOREM ReleaseTypesHold == RlSpec => []RlTypeOK
  <1>1. RlInv => RlTypeOK
    BY DEF RlInv
  <1> QED
    BY <1>1, RlInitInv, RlStepInv, PTL DEF RlSpec

\* No kill, prune or failed build ever leaves a link that dangles
\* (release-layout.mjs, build.mjs).
THEOREM LinksAlwaysResolve == RlSpec => []LinksResolve
  <1>1. RlInv => LinksResolve
    BY DEF RlInv
  <1> QED
    BY <1>1, RlInitInv, RlStepInv, PTL DEF RlSpec

\* A rollback only goes to a release that has been active
\* (activatePreparedRelease, rollbackRelease).
THEOREM RollbackIsToActive == RlSpec => []PreviousWasActive
  <1>1. RlInv => PreviousWasActive
    BY DEF RlInv, Pointers, PreviousWasActive
  <1> QED
    BY <1>1, RlInitInv, RlStepInv, PTL DEF RlSpec

\* Builds, prunes and kills never take the release of a running server that
\* no second activation and no rollback concerns (build.mjs).
THEOREM ServersKeepTheirRelease == RlSpec => []ServerKeepsRelease
  <1>1. RlInv => ServerKeepsRelease
    <2> SUFFICES ASSUME RlInv, NEW s \in Servers, server[s] # NoRelease, since[s] < 2
                 PROVE  server[s] \in present
      BY DEF ServerKeepsRelease
    <2>1. server[s] \in {link.dist, link.previous}
      BY DEF RlInv, ServerPointers
    <2> QED
      BY <2>1 DEF RlInv, LinksResolve, LinksValid, Links
  <1> QED
    BY <1>1, RlInitInv, RlStepInv, PTL DEF RlSpec

\* What the builds promise together (ReleasesAreKept of the run server).
THEOREM ReleasesAlwaysKept == RlSpec => []ReleasesAreKept
  <1> QED
    BY LinksAlwaysResolve, RollbackIsToActive, ServersKeepTheirRelease, PTL DEF ReleasesAreKept

\* Once a release is active, dist names one for ever: there is no step at
\* which it is absent (activatePreparedRelease, rollbackRelease).
THEOREM DistAlwaysStays == RlSpec => DistStays
  <1>1. RlInv /\ [RlNext]_rlVars => [link.dist # NoRelease => link'.dist # NoRelease]_rlVars
    <2> SUFFICES ASSUME RlInv, RlNext, link.dist # NoRelease PROVE link'.dist # NoRelease
      BY DEF rlVars
    <2>1. link \in [Links -> built \cup {NoRelease}] /\ "dist" \in Links
      BY DEF RlInv, RlTypeOK, Links
    <2>2. CASE Prepare
      BY <2>1, <2>2 DEF Prepare
    <2>3. CASE SavePrevious
      BY <2>1, <2>3 DEF SavePrevious
    <2>4. CASE Activate
      BY <2>1, <2>4 DEF Activate, RlInv, Pointers, Links
    <2>5. ASSUME NEW recovered \in BOOLEAN, ActivateFails(recovered) PROVE link'.dist # NoRelease
      BY <2>1, <2>5 DEF ActivateFails
    <2>6. CASE Rollback
      BY <2>1, <2>6 DEF Rollback
    <2>7. ASSUME link' = link PROVE link'.dist # NoRelease
      BY <2>7
    <2> QED
      BY <2>2, <2>3, <2>4, <2>5, <2>6, <2>7
      DEF RlNext, Build, Switch, PublishRelease, PruneRelease, PrepareFails, PruneStarts, PruneEnds, Crash,
          ServerStarts, ServerStops, linkVars
  <1> QED
    BY <1>1, RlInitInv, RlStepInv, PTL DEF RlSpec, DistStays

-----------------------------------------------------------------------------
(* The stay proxy: what sequences do.                                      *)

\* A set of positions that is closed downwards is an initial segment.
LEMMA InitialSegment ==
    ASSUME NEW L \in Nat, NEW S, S \subseteq 1 .. L, \A i \in S : 1 .. i \subseteq S
    PROVE  \E n \in 0 .. L : S = 1 .. n /\ Cardinality(S) = n
<1> DEFINE T == {i \in 1 .. L + 1 : i \notin S}
<1>1. T \subseteq Nat /\ L + 1 \in T
  OBVIOUS
<1>2. PICK m \in T : \A j \in T : m <= j
  BY <1>1, LeastNatural
<1>3. m \in 1 .. L + 1 /\ m \notin S
  BY <1>2
<1>4. \A i \in 1 .. m - 1 : i \in S
  BY <1>2, <1>3
<1>5. \A i \in S : i < m
  BY <1>3
<1>6. S = 1 .. m - 1
  <2>1. ASSUME NEW i \in S PROVE i \in 1 .. m - 1
    <3>1. i \in 1 .. L /\ i < m
      BY <1>5, <2>1
    <3> QED BY <1>3, <3>1
  <2> QED BY <1>4, <2>1
<1>7. Cardinality(1 .. m - 1) = m - 1
  BY <1>3, FS_Interval
<1> QED BY <1>3, <1>6, <1>7

-----------------------------------------------------------------------------
(* The stay proxy: its inductive invariant.  The calls that were sent in   *)
(* the window are those the proxy still counts, without the oldest, which  *)
(* it has not shifted off yet; and whoever waits for a search that could   *)
(* fail remembers the copy there is.                                       *)

Entries == [key : Buckets, age : 0 .. StaleMax, cut : BOOLEAN]
Flights == [clustered : BOOLEAN, page : 1 .. PagesMax, refetch : BOOLEAN]

KeysOnce == \A i, j \in DOMAIN ssCache : ssCache[i].key = ssCache[j].key => i = j
CacheInv == ssCache \in Seq(Entries) /\ Len(ssCache) <= CacheMax /\ KeysOnce /\ NoCutIsCached

SentAreCounted ==
    \E n \in 0 .. Len(ssCalls) :
        /\ Len(ssSent) = Len(ssCalls) - n
        /\ \A i \in 1 .. n : ssCalls[i] >= Window
        /\ \A i \in 1 .. Len(ssSent) : ssSent[i] = ssCalls[i + n]

WindowInv ==
    /\ ssCalls \in Seq(0 .. Window) /\ Len(ssCalls) <= PerMin
    /\ ssSent \in Seq(0 .. Window - 1)
    /\ \A i, j \in 1 .. Len(ssSent) : i <= j => ssSent[i] >= ssSent[j]
    /\ SentAreCounted

CopiesPromised ==
    \A c \in Clients, k \in Buckets : ssAsk[c].key = k /\ Younger(k, StaleMax) => ssAsk[c].stale

AskInv ==
    /\ ssFlight \in [Buckets -> Flights \cup {NoFlight}]
    /\ ssAsk \in [Clients -> [key : Buckets, stale : BOOLEAN] \cup {NotAsking}]
    /\ CopiesPromised

SsInv == CacheInv /\ WindowInv /\ AskInv

LEMMA StayBounds ==
    /\ {Ttl, StaleMax, Window, PerMin, PagesMax, CacheMax} \subseteq Nat
    /\ Ttl >= 1 /\ StaleMax >= 1 /\ Window >= 1 /\ PerMin >= 1 /\ PagesMax >= 1 /\ CacheMax >= 1
    /\ "none" \notin Buckets
BY StayAssumption DEF StayAssumption

\* What takeToken still counts is what was sent in the window.
LEMMA LiveIsSent == ASSUME WindowInv PROVE Live = ssSent
<1> USE DEF WindowInv
<1>1. PICK n \in 0 .. Len(ssCalls) : /\ Len(ssSent) = Len(ssCalls) - n
                                     /\ \A i \in 1 .. n : ssCalls[i] >= Window
                                     /\ \A i \in 1 .. Len(ssSent) : ssSent[i] = ssCalls[i + n]
  BY DEF SentAreCounted
<1>2. Len(ssCalls) \in Nat /\ Window \in Nat /\ DOMAIN ssCalls = 1 .. Len(ssCalls) /\ n \in Nat
  BY <1>1, StayBounds
<1>3. ASSUME NEW i \in n + 1 .. Len(ssCalls) PROVE i \notin Shifted
  <2>1. 1 \in 1 .. Len(ssSent) /\ n + 1 \in 1 .. i /\ 1 + n = n + 1
    BY <1>1, <1>2, <1>3
  <2>2. ssCalls[n + 1] = ssSent[1] /\ ssSent[1] \in 0 .. Window - 1
    <3>1. ssSent[1] = ssCalls[1 + n]
      BY <1>1, <2>1
    <3>2. ssSent[1] \in 0 .. Window - 1
      BY <2>1, ElementOfSeq
    <3> QED BY <2>1, <3>1, <3>2
  <2>3. ~(ssCalls[n + 1] >= Window)
    BY <1>2, <2>2
  <2> QED BY <2>1, <2>3 DEF Shifted
<1>4. ASSUME NEW i \in 1 .. n PROVE i \in Shifted
  BY <1>1, <1>2, <1>4 DEF Shifted
<1>5. Shifted = 1 .. n
  <2>1. ASSUME NEW i \in Shifted PROVE i \in 1 .. n
    <3>1. i \in 1 .. Len(ssCalls) /\ i \notin n + 1 .. Len(ssCalls)
      BY <1>2, <1>3, <2>1 DEF Shifted
    <3> QED BY <1>2, <3>1
  <2> QED BY <1>4, <2>1
<1>6. Cardinality(Shifted) = n
  BY <1>2, <1>5, FS_Interval
<1>7. /\ Live \in Seq(0 .. Window)
      /\ Len(Live) = Len(ssCalls) - n
      /\ \A i \in 1 .. Len(ssCalls) - n : Live[i] = ssCalls[i + n]
  BY <1>1, <1>6, WithoutFirst DEF Live
<1>8. ssSent \in Seq(0 .. Window)
  <2>1. 0 .. Window - 1 \subseteq 0 .. Window
    BY <1>2
  <2> QED BY <2>1, WiderSeq
<1>9. Len(Live) = Len(ssSent) /\ \A i \in 1 .. Len(Live) : Live[i] = ssSent[i]
  BY <1>1, <1>7
<1> QED BY <1>7, <1>8, <1>9, SeqEqual

LEMMA TokensKeepWindow == ASSUME WindowInv, TakeToken \/ NoToken PROVE WindowInv'
<1>0. Live = ssSent /\ PerMin \in Nat /\ Window \in Nat /\ Window >= 1
  BY LiveIsSent, StayBounds
<1>1. /\ ssSent \in Seq(0 .. Window - 1) /\ Len(ssSent) \in Nat
      /\ \A i, j \in 1 .. Len(ssSent) : i <= j => ssSent[i] >= ssSent[j]
  BY DEF WindowInv
<1>2. \A s \in Seq(0 .. Window - 1) : s \in Seq(0 .. Window)
  <2>1. 0 .. Window - 1 \subseteq 0 .. Window
    BY <1>0
  <2> QED BY <2>1, WiderSeq
<1>3. ASSUME ssCalls' = ssSent', ssSent' \in Seq(0 .. Window - 1), Len(ssSent') <= PerMin,
             \A i, j \in 1 .. Len(ssSent') : i <= j => ssSent'[i] >= ssSent'[j]
      PROVE  WindowInv'
  <2>1. SentAreCounted'
    <3>1. 0 \in 0 .. Len(ssCalls') /\ Len(ssSent') = Len(ssCalls') - 0
      BY <1>3
    <3>2. \A i \in 1 .. Len(ssSent') : ssSent'[i] = ssCalls'[i + 0]
      BY <1>3
    <3>3. \A i \in 1 .. 0 : ssCalls'[i] >= Window
      OBVIOUS
    <3> QED BY <3>1, <3>2, <3>3 DEF SentAreCounted
  <2> QED BY <1>2, <1>3, <2>1 DEF WindowInv
<1>4. CASE TakeToken
  <2>1. ssCalls' = Append(ssSent, 0) /\ ssSent' = Append(ssSent, 0) /\ Len(ssSent) < PerMin
    BY <1>0, <1>4 DEF TakeToken
  <2>2. 0 \in 0 .. Window - 1
    BY <1>0
  <2>3. ssSent' \in Seq(0 .. Window - 1) /\ Len(ssSent') = Len(ssSent) + 1
        /\ (\A i \in 1 .. Len(ssSent) : ssSent'[i] = ssSent[i]) /\ ssSent'[Len(ssSent) + 1] = 0
    BY <1>1, <2>1, <2>2, AppendProperties
  <2>4. ASSUME NEW i \in 1 .. Len(ssSent'), NEW j \in 1 .. Len(ssSent'), i <= j PROVE ssSent'[i] >= ssSent'[j]
    <3>1. ssSent'[i] \in 0 .. Window - 1
      BY <2>3, ElementOfSeq
    <3>2. CASE j = Len(ssSent) + 1
      BY <1>0, <2>3, <3>1, <3>2
    <3>3. CASE j # Len(ssSent) + 1
      <4>1. i \in 1 .. Len(ssSent) /\ j \in 1 .. Len(ssSent)
        BY <1>1, <2>3, <2>4, <3>3
      <4> QED BY <1>1, <2>3, <2>4, <4>1
    <3> QED BY <3>2, <3>3
  <2>5. Len(ssSent') <= PerMin
    BY <1>0, <1>1, <2>1, <2>3
  <2> QED BY <1>3, <2>1, <2>3, <2>4, <2>5
<1>5. CASE NoToken
  <2>1. ssCalls' = ssSent /\ ssSent' = ssSent /\ Len(ssSent) = PerMin
    BY <1>0, <1>5 DEF NoToken
  <2> QED BY <1>0, <1>1, <1>3, <2>1
<1> QED BY <1>4, <1>5

LEMMA TickKeepsWindow == ASSUME WindowInv, SsTick PROVE WindowInv'
<1>0. Window \in Nat /\ Window >= 1 /\ PerMin \in Nat
  BY StayBounds
<1>1. /\ ssCalls \in Seq(0 .. Window) /\ Len(ssCalls) <= PerMin
      /\ ssSent \in Seq(0 .. Window - 1)
      /\ \A i, j \in 1 .. Len(ssSent) : i <= j => ssSent[i] >= ssSent[j]
  BY DEF WindowInv
<1>n. PICK n \in 0 .. Len(ssCalls) : /\ Len(ssSent) = Len(ssCalls) - n
                                     /\ \A i \in 1 .. n : ssCalls[i] >= Window
                                     /\ \A i \in 1 .. Len(ssSent) : ssSent[i] = ssCalls[i + n]
  BY DEF WindowInv, SentAreCounted
<1>l. PICK l \in Nat : l = Len(ssSent)
  BY <1>1
<1>t. n \in Nat /\ Len(ssCalls) = l + n
  BY <1>1, <1>n, <1>l
<1> DEFINE aged == [i \in 1 .. l |-> ssSent[i] + 1]
           over == {i \in 1 .. l : aged[i] >= Window}
<1>2. \A i \in 1 .. l : ssSent[i] \in 0 .. Window - 1
  BY <1>1, <1>l, ElementOfSeq
<1>3. aged \in Seq(0 .. Window) /\ Len(aged) = l /\ \A i \in 1 .. l : aged[i] = ssSent[i] + 1
  <2>1. \A i \in 1 .. l : ssSent[i] + 1 \in 0 .. Window
    BY <1>0, <1>2
  <2> QED BY <2>1
<1>4. ssSent' = SubSeq(aged, Cardinality(over) + 1, Len(aged))
  <2>1. DOMAIN ssSent = 1 .. l /\ DOMAIN aged = 1 .. l
    BY <1>1, <1>l
  <2> QED BY <2>1 DEF SsTick
<1>5. PICK m \in 0 .. l : over = 1 .. m /\ Cardinality(over) = m
  <2>1. ASSUME NEW i \in over, NEW j \in 1 .. i PROVE j \in over
    <3>1. i \in 1 .. l /\ j \in 1 .. l /\ j <= i /\ aged[i] >= Window
      BY <1>l, <2>1
    <3>2. ssSent[j] >= ssSent[i] /\ ssSent[i] \in 0 .. Window - 1 /\ ssSent[j] \in 0 .. Window - 1
      BY <1>1, <1>2, <1>l, <3>1
    <3>3. aged[j] >= aged[i] /\ aged[j] \in Nat /\ aged[i] \in Nat
      BY <1>0, <1>3, <3>1, <3>2
    <3>4. aged[j] >= Window
      BY <1>0, <3>1, <3>3
    <3> QED BY <3>1, <3>4
  <2> HIDE DEF aged
  <2>2. over \subseteq 1 .. l /\ \A i \in over : 1 .. i \subseteq over
    BY <2>1
  <2> HIDE DEF over
  <2> QED BY <1>l, <2>2, InitialSegment
<1>6. \A i \in m + 1 .. l : ssSent[i] + 1 < Window
  <2>1. ASSUME NEW i \in m + 1 .. l PROVE ~(ssSent[i] + 1 >= Window)
    <3>1. i \in 1 .. l /\ i \notin over
      <4>1. i \in 1 .. l /\ i \notin 1 .. m
        BY <2>1
      <4> HIDE DEF over
      <4> QED BY <1>5, <4>1
    <3>2. ~(aged[i] >= Window)
      BY <3>1
    <3> QED BY <1>3, <3>1, <3>2
  <2> QED BY <1>0, <1>2, <2>1, <1>5
<1>7. \A i \in 1 .. m : ssSent[i] + 1 >= Window
  BY <1>3, <1>5
<1> HIDE DEF aged, over
<1>8. /\ ssSent' \in Seq(0 .. Window) /\ Len(ssSent') = l - m
      /\ \A i \in 1 .. l - m : ssSent'[i] = ssSent[i + m] + 1
  <2>1. /\ ssSent' \in Seq(0 .. Window) /\ Len(ssSent') = l - m
        /\ \A i \in 1 .. l - m : ssSent'[i] = aged[i + m]
    <3>1. m \in 0 .. Len(aged) /\ aged \in Seq(0 .. Window)
      BY <1>3, <1>5
    <3>2. /\ SubSeq(aged, m + 1, Len(aged)) \in Seq(0 .. Window)
          /\ Len(SubSeq(aged, m + 1, Len(aged))) = Len(aged) - m
          /\ \A i \in 1 .. Len(aged) - m : SubSeq(aged, m + 1, Len(aged))[i] = aged[i + m]
      BY <3>1, WithoutFirst
    <3>3. ssSent' = SubSeq(aged, m + 1, Len(aged)) /\ Len(aged) = l
      BY <1>3, <1>4, <1>5
    <3> QED BY <3>2, <3>3
  <2>2. \A i \in 1 .. l - m : i + m \in 1 .. l
    BY <1>5
  <2> QED BY <1>3, <2>1, <2>2
<1>9. ssSent' \in Seq(0 .. Window - 1)
  <2>1. \A i \in 1 .. l - m : ssSent'[i] \in 0 .. Window - 1
    <3>1. ASSUME NEW i \in 1 .. l - m PROVE ssSent'[i] \in 0 .. Window - 1
      <4>1. i + m \in m + 1 .. l /\ i + m \in 1 .. l
        BY <1>5
      <4>2. ssSent[i + m] + 1 < Window /\ ssSent[i + m] \in 0 .. Window - 1
        BY <1>2, <1>6, <4>1
      <4> QED BY <1>0, <1>8, <4>2
    <3> QED BY <3>1
  <2> QED BY <1>8, <2>1, SeqOf
<1>10. ASSUME NEW i \in 1 .. Len(ssSent'), NEW j \in 1 .. Len(ssSent'), i <= j PROVE ssSent'[i] >= ssSent'[j]
  <2>1. i \in 1 .. l - m /\ j \in 1 .. l - m /\ i + m \in 1 .. l /\ j + m \in 1 .. l /\ i + m <= j + m
    BY <1>5, <1>8, <1>10
  <2>2. ssSent[i + m] >= ssSent[j + m] /\ ssSent[i + m] \in Nat /\ ssSent[j + m] \in Nat
    BY <1>1, <1>2, <1>l, <2>1
  <2> QED BY <1>8, <2>1, <2>2
<1>11. /\ ssCalls' \in Seq(0 .. Window) /\ Len(ssCalls') = l + n
       /\ \A i \in 1 .. l + n : ssCalls'[i] = Age(ssCalls[i], Window)
  <2>1. ssCalls' = [i \in 1 .. l + n |-> Age(ssCalls[i], Window)]
    BY <1>1, <1>t DEF SsTick
  <2>2. \A i \in 1 .. l + n : Age(ssCalls[i], Window) \in 0 .. Window
    <3>1. \A i \in 1 .. l + n : ssCalls[i] \in 0 .. Window
      BY <1>1, <1>t, ElementOfSeq
    <3> QED BY <1>0, <3>1 DEF Age
  <2>3. l + n \in Nat
    BY <1>t
  <2> QED BY <2>1, <2>2, <2>3
<1>12. SentAreCounted'
  <2>1. n + m \in 0 .. Len(ssCalls') /\ Len(ssSent') = Len(ssCalls') - (n + m)
    BY <1>5, <1>8, <1>11, <1>t
  <2>2. ASSUME NEW i \in 1 .. n + m PROVE ssCalls'[i] >= Window
    <3>0. i \in 1 .. l + n /\ ssCalls[i] \in 0 .. Window
      <4>1. i \in 1 .. l + n
        BY <1>5, <1>t
      <4> QED BY <1>1, <1>t, <4>1, ElementOfSeq
    <3>1. CASE i <= n
      <4>1. ssCalls[i] >= Window
        BY <1>n, <1>t, <3>1
      <4> QED BY <1>0, <1>11, <3>0, <4>1 DEF Age
    <3>2. CASE ~(i <= n)
      <4>1. i - n \in 1 .. m /\ i - n \in 1 .. l /\ (i - n) + n = i
        BY <1>5, <1>t, <3>2
      <4>2. ssSent[i - n] = ssCalls[i] /\ ssSent[i - n] + 1 >= Window
        BY <1>7, <1>l, <1>n, <4>1
      <4> QED BY <1>0, <1>11, <3>0, <4>2 DEF Age
    <3> QED BY <3>1, <3>2
  <2>3. ASSUME NEW i \in 1 .. Len(ssSent') PROVE ssSent'[i] = ssCalls'[i + (n + m)]
    <3>1. i \in 1 .. l - m /\ i + m \in 1 .. l /\ i + m \in m + 1 .. l /\ (i + m) + n = i + (n + m)
          /\ i + (n + m) \in 1 .. l + n
      BY <1>5, <1>8, <1>t, <2>3
    <3>2. ssSent'[i] = ssSent[i + m] + 1 /\ ssSent[i + m] + 1 < Window /\ ssSent[i + m] \in 0 .. Window - 1
      BY <1>2, <1>6, <1>8, <3>1
    <3>3. ssSent[i + m] = ssCalls[i + (n + m)]
      BY <1>l, <1>n, <3>1
    <3>4. ssCalls'[i + (n + m)] = Age(ssCalls[i + (n + m)], Window)
      BY <1>11, <3>1
    <3> QED BY <1>0, <3>2, <3>3, <3>4 DEF Age
  <2> QED BY <2>1, <2>2, <2>3 DEF SentAreCounted
<1> QED BY <1>1, <1>9, <1>10, <1>11, <1>12, <1>t DEF WindowInv

\* Deleting a key takes out its one entry.
LEMMA OthersAre ==
    ASSUME CacheInv, NEW k
    PROVE  /\ Others(k) \in Seq(Entries)
           /\ Copies(k) = {} => Others(k) = ssCache
           /\ Copies(k) # {} => Len(Others(k)) = Len(ssCache) - 1
           /\ \A i \in 1 .. Len(Others(k)) :
                  \E j \in 1 .. Len(ssCache) : Others(k)[i] = ssCache[j] /\ ssCache[j].key # k
           /\ \A j \in 1 .. Len(ssCache) :
                  ssCache[j].key # k => \E i \in 1 .. Len(Others(k)) : Others(k)[i] = ssCache[j]
           /\ \A i, j \in 1 .. Len(Others(k)) : Others(k)[i].key = Others(k)[j].key => i = j
<1>0. /\ ssCache \in Seq(Entries) /\ DOMAIN ssCache = 1 .. Len(ssCache) /\ Len(ssCache) \in Nat
      /\ \A i, j \in 1 .. Len(ssCache) : ssCache[i].key = ssCache[j].key => i = j
  BY DEF CacheInv, KeysOnce
<1>1. CASE Copies(k) = {}
  <2>1. Others(k) = ssCache /\ \A j \in 1 .. Len(ssCache) : ssCache[j].key # k
    BY <1>0, <1>1 DEF Others, Copies
  <2> QED BY <1>0, <1>1, <2>1
<1>2. CASE Copies(k) # {}
  <2>1. PICK n : n = CHOOSE i \in Copies(k) : TRUE
    OBVIOUS
  <2>2. n \in 1 .. Len(ssCache) /\ ssCache[n].key = k
    BY <1>0, <1>2, <2>1 DEF Copies
  <2>3. PICK t : t = Others(k)
    OBVIOUS
  <2>4. t = SubSeq(ssCache, 1, n - 1) \o SubSeq(ssCache, n + 1, Len(ssCache))
    BY <1>2, <2>1, <2>3 DEF Others
  <2>5. /\ t \in Seq(Entries) /\ Len(t) = Len(ssCache) - 1
        /\ \A i \in 1 .. Len(t) : t[i] = IF i < n THEN ssCache[i] ELSE ssCache[i + 1]
    <3>1. ssCache \in Seq(Entries) /\ n \in 1 .. Len(ssCache)
      BY <1>0, <2>2
    <3> HIDE DEF Entries
    <3> QED BY <2>4, <3>1, WithoutOne
  <2>l. PICK l \in Nat : l = Len(ssCache)
    BY <1>0
  <2>6. ASSUME NEW i \in 1 .. Len(t) PROVE \E j \in 1 .. Len(ssCache) : t[i] = ssCache[j] /\ ssCache[j].key # k
    <3>1. CASE i < n
      <4>1. i \in 1 .. l /\ i # n /\ t[i] = ssCache[i]
        BY <2>2, <2>5, <2>6, <2>l, <3>1
      <4> QED BY <1>0, <2>2, <2>l, <4>1
    <3>2. CASE ~(i < n)
      <4>1. i + 1 \in 1 .. l /\ i + 1 # n /\ t[i] = ssCache[i + 1]
        BY <2>2, <2>5, <2>6, <2>l, <3>2
      <4> QED BY <1>0, <2>2, <2>l, <4>1
    <3> QED BY <3>1, <3>2
  <2>7. ASSUME NEW j \in 1 .. Len(ssCache), ssCache[j].key # k PROVE \E i \in 1 .. Len(t) : t[i] = ssCache[j]
    <3>0. j # n /\ j \in 1 .. l /\ n \in 1 .. l
      BY <2>2, <2>7, <2>l
    <3>1. CASE j < n
      <4>1. j \in 1 .. l - 1 /\ j \in 1 .. Len(t) /\ t[j] = ssCache[j]
        BY <2>5, <2>l, <3>0, <3>1
      <4> QED BY <4>1
    <3>2. CASE j > n
      <4>1. j - 1 \in 1 .. l - 1 /\ ~(j - 1 < n) /\ (j - 1) + 1 = j
        BY <3>0, <3>2
      <4>2. t[j - 1] = ssCache[j] /\ j - 1 \in 1 .. Len(t)
        BY <2>5, <2>l, <4>1
      <4> QED BY <4>2
    <3> QED BY <3>0, <3>1, <3>2
  <2>8. ASSUME NEW i \in 1 .. Len(t), NEW j \in 1 .. Len(t), t[i].key = t[j].key PROVE i = j
    <3>1. PICK a \in 1 .. l : t[i] = ssCache[a] /\ a = IF i < n THEN i ELSE i + 1
      BY <2>2, <2>5, <2>8, <2>l
    <3>2. PICK b \in 1 .. l : t[j] = ssCache[b] /\ b = IF j < n THEN j ELSE j + 1
      BY <2>2, <2>5, <2>8, <2>l
    <3>3. a = b
      BY <1>0, <2>8, <2>l, <3>1, <3>2
    <3> QED BY <2>2, <2>5, <2>8, <2>l, <3>1, <3>2, <3>3
  <2> QED BY <1>2, <2>3, <2>5, <2>6, <2>7, <2>8
<1> QED BY <1>1, <1>2

\* What an insertion keeps, and when it costs the oldest entry.
LEMMA StoreIs ==
    ASSUME CacheInv, NEW k \in Buckets, NEW cut \in BOOLEAN
    PROVE  /\ Store(k, cut) \in Seq(Entries) /\ Len(Store(k, cut)) <= CacheMax
           /\ \A i \in 1 .. Len(Store(k, cut)) :
                  \/ Store(k, cut)[i] = [key |-> k, age |-> 0, cut |-> cut]
                  \/ \E j \in 1 .. Len(ssCache) : Store(k, cut)[i] = ssCache[j] /\ ssCache[j].key # k
           /\ \A i, j \in 1 .. Len(Store(k, cut)) : Store(k, cut)[i].key = Store(k, cut)[j].key => i = j
           /\ \E i \in 1 .. Len(Store(k, cut)) : Store(k, cut)[i].key = k
           /\ \A j \in 1 .. Len(ssCache) :
                  \/ ssCache[j].key = k
                  \/ \E i \in 1 .. Len(Store(k, cut)) : Store(k, cut)[i] = ssCache[j]
                  \/ j = 1 /\ Len(ssCache) = CacheMax /\ Len(Store(k, cut)) = CacheMax
<1> DEFINE e == [key |-> k, age |-> 0, cut |-> cut]
<1>0. CacheMax \in Nat /\ CacheMax >= 1 /\ StaleMax \in Nat /\ e \in Entries /\ e.key = k
  BY StayBounds DEF Entries
<1> HIDE DEF e
<1>1. PICK o : o = Others(k)
  OBVIOUS
<1>c. PICK n \in Nat : n = Len(ssCache) /\ n <= CacheMax
  BY DEF CacheInv
<1>2. /\ o \in Seq(Entries)
      /\ Copies(k) = {} => o = ssCache
      /\ Copies(k) # {} => Len(o) = n - 1
      /\ \A i \in 1 .. Len(o) : \E j \in 1 .. n : o[i] = ssCache[j] /\ ssCache[j].key # k
      /\ \A j \in 1 .. n : ssCache[j].key # k => \E i \in 1 .. Len(o) : o[i] = ssCache[j]
      /\ \A i, j \in 1 .. Len(o) : o[i].key = o[j].key => i = j
  <2>1. /\ o \in Seq(Entries)
        /\ Copies(k) = {} => o = ssCache
        /\ Copies(k) # {} => Len(o) = Len(ssCache) - 1
        /\ \A i \in 1 .. Len(o) : \E j \in 1 .. Len(ssCache) : o[i] = ssCache[j] /\ ssCache[j].key # k
        /\ \A j \in 1 .. Len(ssCache) : ssCache[j].key # k => \E i \in 1 .. Len(o) : o[i] = ssCache[j]
        /\ \A i, j \in 1 .. Len(o) : o[i].key = o[j].key => i = j
    <3>1. /\ Others(k) \in Seq(Entries)
          /\ Copies(k) = {} => Others(k) = ssCache
          /\ Copies(k) # {} => Len(Others(k)) = Len(ssCache) - 1
          /\ \A i \in 1 .. Len(Others(k)) :
                 \E j \in 1 .. Len(ssCache) : Others(k)[i] = ssCache[j] /\ ssCache[j].key # k
          /\ \A j \in 1 .. Len(ssCache) :
                 ssCache[j].key # k => \E i \in 1 .. Len(Others(k)) : Others(k)[i] = ssCache[j]
          /\ \A i, j \in 1 .. Len(Others(k)) : Others(k)[i].key = Others(k)[j].key => i = j
      BY OthersAre
    <3> QED BY <1>1, <3>1
  <2> QED BY <1>c, <2>1
<1>l. PICK l \in Nat : l = Len(o) /\ l <= n /\ (l = n => o = ssCache)
  BY <1>2, <1>c
<1>3. PICK all : all = Append(o, e)
  OBVIOUS
<1>4. /\ all \in Seq(Entries) /\ Len(all) = l + 1
      /\ (\A i \in 1 .. l : all[i] = o[i]) /\ all[l + 1] = e
  BY <1>0, <1>2, <1>3, <1>l, AppendProperties
<1>d. PICK d \in {0, 1} : d = IF l + 1 > CacheMax THEN 1 ELSE 0
  OBVIOUS
<1>5. d = 1 => l = CacheMax /\ n = CacheMax /\ o = ssCache
  BY <1>0, <1>c, <1>d, <1>l
<1>6. PICK s : s = Store(k, cut)
  OBVIOUS
<1>7. s = SubSeq(all, d + 1, Len(all))
  <2>1. s = SubSeq(all, IF Len(all) > CacheMax THEN Len(all) - CacheMax + 1 ELSE 1, Len(all))
    BY <1>1, <1>3, <1>6 DEF Store, e
  <2>2. Len(all) = l + 1
    BY <1>4
  <2>3. CASE l + 1 > CacheMax
    <3>1. d = 1 /\ l = CacheMax
      BY <1>5, <1>d, <2>3
    <3>2. Len(all) > CacheMax /\ Len(all) - CacheMax + 1 = d + 1
      BY <1>0, <2>2, <2>3, <3>1
    <3> QED BY <2>1, <3>2
  <2>4. CASE ~(l + 1 > CacheMax)
    <3>1. d + 1 = 1 /\ ~(Len(all) > CacheMax)
      BY <1>d, <2>2, <2>4
    <3> QED BY <2>1, <3>1
  <2> QED BY <2>3, <2>4
<1>8. /\ s \in Seq(Entries) /\ Len(s) = l + 1 - d
      /\ \A i \in 1 .. l + 1 - d : s[i] = all[i + d]
  <2>1. d \in 0 .. Len(all)
    BY <1>4
  <2>2. /\ SubSeq(all, d + 1, Len(all)) \in Seq(Entries)
        /\ Len(SubSeq(all, d + 1, Len(all))) = Len(all) - d
        /\ \A i \in 1 .. Len(all) - d : SubSeq(all, d + 1, Len(all))[i] = all[i + d]
    BY <1>4, <2>1, WithoutFirst
  <2> QED BY <1>4, <1>7, <2>2
<1>9. Len(s) <= CacheMax /\ (d = 1 => Len(s) = CacheMax)
  BY <1>0, <1>5, <1>8, <1>d
<1>10. ASSUME NEW i \in 1 .. l + 1
       PROVE  all[i] = e \/ \E j \in 1 .. n : all[i] = ssCache[j] /\ ssCache[j].key # k
  <2>1. CASE i = l + 1
    BY <1>4, <2>1
  <2>2. CASE i # l + 1
    <3>1. i \in 1 .. l
      BY <2>2
    <3> QED BY <1>2, <1>4, <1>l, <3>1
  <2> QED BY <2>1, <2>2
<1>11. ASSUME NEW i \in 1 .. l + 1, NEW j \in 1 .. l + 1, all[i].key = all[j].key PROVE i = j
  <2>1. \A a \in 1 .. l : o[a].key # k
    BY <1>2, <1>l
  <2>2. CASE i \in 1 .. l /\ j \in 1 .. l
    BY <1>2, <1>4, <1>11, <1>l, <2>2
  <2>3. CASE i = l + 1 /\ j = l + 1
    BY <2>3
  <2>4. CASE (i = l + 1 /\ j \in 1 .. l) \/ (j = l + 1 /\ i \in 1 .. l)
    BY <1>0, <1>4, <1>11, <2>1, <2>4
  <2> QED BY <2>2, <2>3, <2>4
<1>12. \A i \in 1 .. l + 1 - d : i + d \in 1 .. l + 1
  BY <1>d
<1>13. ASSUME NEW i \in 1 .. Len(s)
       PROVE  s[i] = e \/ \E j \in 1 .. Len(ssCache) : s[i] = ssCache[j] /\ ssCache[j].key # k
  BY <1>8, <1>10, <1>12, <1>13, <1>c
<1>14. ASSUME NEW i \in 1 .. Len(s), NEW j \in 1 .. Len(s), s[i].key = s[j].key PROVE i = j
  <2>1. i + d = j + d
    <3>1. i \in 1 .. l + 1 - d /\ j \in 1 .. l + 1 - d
      BY <1>8
    <3>2. all[i + d].key = all[j + d].key
      BY <1>8, <1>14, <3>1
    <3> QED BY <1>11, <1>12, <3>1, <3>2
  <2> QED BY <1>8, <1>d, <2>1
<1>15. \E i \in 1 .. Len(s) : s[i].key = k
  <2>1. l + 1 - d \in 1 .. Len(s) /\ (l + 1 - d) + d = l + 1
    BY <1>0, <1>5, <1>8, <1>d
  <2>2. s[l + 1 - d] = e
    BY <1>4, <1>8, <2>1
  <2> QED BY <1>0, <2>1, <2>2
<1>16. ASSUME NEW j \in 1 .. Len(ssCache), ssCache[j].key # k
       PROVE  \/ \E i \in 1 .. Len(s) : s[i] = ssCache[j]
              \/ j = 1 /\ Len(ssCache) = CacheMax /\ Len(s) = CacheMax
  <2>1. CASE d = 1 /\ j = 1
    BY <1>5, <1>9, <1>c, <2>1
  <2>2. CASE d = 1 /\ j # 1
    <3>1. j - 1 \in 1 .. l + 1 - d /\ (j - 1) + d = j /\ j \in 1 .. l
      BY <1>5, <1>c, <1>16, <2>2
    <3>2. s[j - 1] = ssCache[j]
      BY <1>4, <1>5, <1>8, <2>2, <3>1
    <3> QED BY <1>8, <3>1, <3>2
  <2>3. CASE d = 0
    <3>1. PICK i \in 1 .. l : o[i] = ssCache[j]
      BY <1>2, <1>16, <1>c, <1>l
    <3>2. i \in 1 .. l + 1 - d /\ i + d = i /\ s[i] = all[i + d]
      BY <1>8, <2>3
    <3>3. s[i] = ssCache[j]
      BY <1>4, <3>1, <3>2
    <3> QED BY <1>8, <3>2, <3>3
  <2> QED BY <1>d, <2>1, <2>2, <2>3
<1>17. s[1] = s[1] /\ e = [key |-> k, age |-> 0, cut |-> cut]
  BY DEF e
<1> QED BY <1>6, <1>8, <1>9, <1>13, <1>14, <1>15, <1>16, <1>17

NoErrorStep ==
    \A c \in Clients, k \in Buckets : ssReply'[c] = Reply(k, "error") => ~Younger(k, StaleMax)
KeptStep ==
    \A k \in Buckets : (Copies(k) # {} /\ ~\E i \in DOMAIN ssCache' : ssCache'[i].key = k)
        => Len(ssCache) = CacheMax /\ Len(ssCache') = CacheMax /\ 1 \in Copies(k)

\* Everybody who waits for the bucket is answered, and told of an error only
\* without a copy.
LEMMA AnswerTells ==
    ASSUME SsInv, NEW k \in Buckets, NEW word \in {"full", "partial", "failed"}, Answer(k, word)
    PROVE  /\ ssAsk' \in [Clients -> [key : Buckets, stale : BOOLEAN] \cup {NotAsking}]
           /\ \A c \in Clients : ssAsk'[c].key \in Buckets => ssAsk'[c] = ssAsk[c] /\ ssAsk[c].key # k
           /\ NoErrorStep
<1>0. /\ ssAsk \in [Clients -> [key : Buckets, stale : BOOLEAN] \cup {NotAsking}]
      /\ CopiesPromised /\ "none" \notin Buckets /\ NotAsking.key = "none"
  BY StayBounds DEF SsInv, AskInv, NotAsking, Waiting
<1>1. ssAsk' = [c \in Clients |-> IF ssAsk[c].key = k THEN NotAsking ELSE ssAsk[c]]
  BY DEF Answer
<1>2. ssAsk' \in [Clients -> [key : Buckets, stale : BOOLEAN] \cup {NotAsking}]
  BY <1>0, <1>1
<1>3. \A c \in Clients : ssAsk'[c].key \in Buckets => ssAsk'[c] = ssAsk[c] /\ ssAsk[c].key # k
  BY <1>0, <1>1
<1>4. ASSUME NEW c \in Clients, NEW j \in Buckets, ssReply'[c] = Reply(j, "error") PROVE ~Younger(j, StaleMax)
  <2>1. ssReply'[c] = IF ssAsk[c].key = k THEN Reply(k, IF word = "failed" THEN StaleOrError(c) ELSE word)
                      ELSE Reply("none", "none")
    BY DEF Answer, Unanswered
  <2>2. ssAsk[c].key = k /\ j = k /\ word = "failed" /\ StaleOrError(c) = "error"
    BY <1>4, <2>1 DEF Reply
  <2>3. ~ssAsk[c].stale
    BY <2>2 DEF StaleOrError
  <2> QED BY <1>0, <2>2, <2>3 DEF CopiesPromised
<1> QED BY <1>2, <1>3, <1>4 DEF NoErrorStep

LEMMA SameCache ==
    ASSUME CacheInv, UNCHANGED ssCache
    PROVE  CacheInv' /\ KeptStep /\ \A k : Younger(k, StaleMax)' <=> Younger(k, StaleMax)
BY DEF CacheInv, KeysOnce, NoCutIsCached, KeptStep, Copies, Younger

LEMMA FinishKeeps ==
    ASSUME SsInv, NEW k \in Buckets, NEW ok \in BOOLEAN, NEW cut \in BOOLEAN, ok => ~cut, Finish(k, ok, cut)
    PROVE  CacheInv' /\ AskInv' /\ NoErrorStep /\ KeptStep
<1>1. PICK word \in {"full", "partial", "failed"} : Answer(k, word)
  BY DEF Finish
<1>2. /\ ssAsk' \in [Clients -> [key : Buckets, stale : BOOLEAN] \cup {NotAsking}]
      /\ \A c \in Clients : ssAsk'[c].key \in Buckets => ssAsk'[c] = ssAsk[c] /\ ssAsk[c].key # k
      /\ NoErrorStep
  BY <1>1, AnswerTells
<1>3. ssFlight' \in [Buckets -> Flights \cup {NoFlight}]
  BY DEF Finish, SsInv, AskInv
<1>4. /\ CacheInv' /\ KeptStep
      /\ \A j \in Buckets : j # k /\ Younger(j, StaleMax)' => Younger(j, StaleMax)
  <2>1. CASE ~ok
    BY <2>1, SameCache DEF Finish, SsInv
  <2>2. CASE ok
    <3>1. ssCache' = Store(k, cut) /\ cut = FALSE
      BY <2>2 DEF Finish
    <3>2. /\ ssCache' \in Seq(Entries) /\ Len(ssCache') <= CacheMax
          /\ \A i \in 1 .. Len(ssCache') :
                 \/ ssCache'[i] = [key |-> k, age |-> 0, cut |-> cut]
                 \/ \E j \in 1 .. Len(ssCache) : ssCache'[i] = ssCache[j] /\ ssCache[j].key # k
          /\ \A i, j \in 1 .. Len(ssCache') : ssCache'[i].key = ssCache'[j].key => i = j
          /\ \E i \in 1 .. Len(ssCache') : ssCache'[i].key = k
          /\ \A j \in 1 .. Len(ssCache) :
                 \/ ssCache[j].key = k
                 \/ \E i \in 1 .. Len(ssCache') : ssCache'[i] = ssCache[j]
                 \/ j = 1 /\ Len(ssCache) = CacheMax /\ Len(ssCache') = CacheMax
      <4>1. CacheInv
        BY DEF SsInv
      <4> QED BY <3>1, <4>1, StoreIs
    <3>3. DOMAIN ssCache' = 1 .. Len(ssCache') /\ DOMAIN ssCache = 1 .. Len(ssCache)
      BY <3>2 DEF SsInv, CacheInv
    <3>4. NoCutIsCached'
      <4> SUFFICES ASSUME NEW i \in 1 .. Len(ssCache') PROVE ~ssCache'[i].cut
        BY <3>3 DEF NoCutIsCached
      <4>0. \A j \in 1 .. Len(ssCache) : ~ssCache[j].cut
        BY <3>3 DEF NoCutIsCached, SsInv, CacheInv
      <4>1. CASE ssCache'[i] = [key |-> k, age |-> 0, cut |-> cut]
        BY <3>1, <4>1
      <4>2. CASE \E j \in 1 .. Len(ssCache) : ssCache'[i] = ssCache[j] /\ ssCache[j].key # k
        BY <4>0, <4>2
      <4> QED BY <3>2, <4>1, <4>2
    <3>5. KeysOnce'
      BY <3>2, <3>3 DEF KeysOnce
    <3>6. KeptStep
      <4> SUFFICES ASSUME NEW j \in Buckets, NEW i \in Copies(j),
                          ~\E m \in DOMAIN ssCache' : ssCache'[m].key = j
                   PROVE  Len(ssCache) = CacheMax /\ Len(ssCache') = CacheMax /\ 1 \in Copies(j)
        BY DEF KeptStep
      <4>1. i \in 1 .. Len(ssCache) /\ ssCache[i].key = j
        BY <3>3 DEF Copies
      <4>2. j # k
        BY <3>2, <3>3
      <4>3. i = 1 /\ Len(ssCache) = CacheMax /\ Len(ssCache') = CacheMax
        BY <3>2, <3>3, <4>1, <4>2
      <4> QED BY <4>3
    <3>7. ASSUME NEW j \in Buckets, j # k, Younger(j, StaleMax)' PROVE Younger(j, StaleMax)
      <4>1. PICK i \in 1 .. Len(ssCache') : ssCache'[i].key = j /\ ssCache'[i].age < StaleMax
        BY <3>3, <3>7 DEF Younger, Copies
      <4>2. PICK m \in 1 .. Len(ssCache) : ssCache'[i] = ssCache[m]
        BY <3>2, <3>7, <4>1
      <4> QED BY <3>3, <4>1, <4>2 DEF Younger, Copies
    <3> QED BY <3>2, <3>4, <3>5, <3>6, <3>7 DEF CacheInv
  <2> QED BY <2>1, <2>2
<1>5. CopiesPromised'
  <2> SUFFICES ASSUME NEW c \in Clients, NEW j \in Buckets, ssAsk'[c].key = j, Younger(j, StaleMax)'
               PROVE  ssAsk'[c].stale
    BY DEF CopiesPromised
  <2>1. ssAsk'[c] = ssAsk[c] /\ j # k
    BY <1>2
  <2> QED BY <1>4, <2>1 DEF SsInv, AskInv, CopiesPromised
<1> QED BY <1>2, <1>3, <1>4, <1>5 DEF AskInv

LEMMA AskKeeps ==
    ASSUME SsInv, NEW c \in Clients, Ask(c)
    PROVE  SsInv' /\ NoErrorStep /\ KeptStep
<1>0. /\ ssFlight \in [Buckets -> Flights \cup {NoFlight}]
      /\ ssAsk \in [Clients -> [key : Buckets, stale : BOOLEAN] \cup {NotAsking}]
      /\ CopiesPromised /\ WindowInv /\ CacheInv
  BY DEF SsInv, AskInv
<1>1. PICK k \in Buckets : Hit(c, k) \/ Join(c, k) \/ Search(c, k) \/ OutOfBudget(c, k)
  BY DEF Ask
<1>2. UNCHANGED ssCache
  BY <1>1 DEF Hit, Join, Search, OutOfBudget
<1>3. CacheInv' /\ KeptStep /\ \A j : Younger(j, StaleMax)' <=> Younger(j, StaleMax)
  BY <1>0, <1>2, SameCache
<1>4. WindowInv'
  <2>1. CASE UNCHANGED <<ssCalls, ssSent>>
    BY <1>0, <2>1 DEF WindowInv, SentAreCounted
  <2>2. CASE TakeToken \/ NoToken
    BY <1>0, <2>2, TokensKeepWindow
  <2> QED BY <1>1, <2>1, <2>2 DEF Hit, Join, Search, OutOfBudget
<1>5. ssFlight' \in [Buckets -> Flights \cup {NoFlight}]
  <2>1. Flight(k \notin FlatBuckets, 1, FALSE) \in Flights
    BY StayBounds DEF Flight, Flights
  <2> QED BY <1>0, <1>1, <2>1 DEF Hit, Join, Search, OutOfBudget
<1>6. ssAsk' \in [Clients -> [key : Buckets, stale : BOOLEAN] \cup {NotAsking}] /\ CopiesPromised'
  <2>1. CASE UNCHANGED ssAsk
    BY <1>0, <1>3, <2>1 DEF CopiesPromised
  <2>2. CASE ssAsk' = [ssAsk EXCEPT ![c] = Waiting(k, StaleCopy(k))]
    <3>1. StaleCopy(k) \in BOOLEAN /\ Waiting(k, StaleCopy(k)) \in [key : Buckets, stale : BOOLEAN]
      BY DEF StaleCopy, Younger, Waiting
    <3>2. ssAsk'[c].key = k /\ (Younger(k, StaleMax) => ssAsk'[c].stale)
          /\ \A d \in Clients \ {c} : ssAsk'[d] = ssAsk[d]
      BY <1>0, <2>2 DEF StaleCopy, Waiting
    <3>3. ssAsk' \in [Clients -> [key : Buckets, stale : BOOLEAN] \cup {NotAsking}]
      BY <1>0, <2>2, <3>1
    <3> QED BY <1>0, <1>3, <3>2, <3>3 DEF CopiesPromised
  <2> QED BY <1>1, <2>1, <2>2 DEF Hit, Join, Search, OutOfBudget
<1>7. NoErrorStep
  <2> SUFFICES ASSUME NEW d \in Clients, NEW j \in Buckets, ssReply'[d] = Reply(j, "error")
               PROVE  ~Younger(j, StaleMax)
    BY DEF NoErrorStep
  <2>1. ASSUME NEW word \in {"full", "stale"}, ssReply' = [Unanswered EXCEPT ![c] = Reply(k, word)] PROVE FALSE
    BY <2>1 DEF Unanswered, Reply
  <2>2. ssReply' # Unanswered
    BY DEF Unanswered, Reply
  <2>3. OutOfBudget(c, k) /\ ~StaleCopy(k)
    BY <1>1, <2>1, <2>2 DEF Hit, Join, Search, OutOfBudget
  <2>4. ssReply' = [Unanswered EXCEPT ![c] = Reply(k, "error")]
    BY <2>3 DEF OutOfBudget
  <2>5. j = k
    BY <2>4 DEF Unanswered, Reply
  <2> QED BY <2>3, <2>5 DEF StaleCopy
<1> QED BY <1>3, <1>4, <1>5, <1>6, <1>7 DEF SsInv, AskInv

LEMMA PageKeeps ==
    ASSUME SsInv, NEW k \in Buckets, PageArrived(k)
    PROVE  SsInv' /\ NoErrorStep /\ KeptStep
<1>0. /\ ssFlight \in [Buckets -> Flights \cup {NoFlight}]
      /\ CopiesPromised /\ WindowInv /\ CacheInv
  BY DEF SsInv, AskInv
<1>1. ssFlight[k] \in Flights /\ 1 \in 1 .. PagesMax
  BY <1>0, StayBounds DEF PageArrived
<1> DEFINE last == ssFlight[k].page = PagesMax
<1>2. \/ Refetch(k)
      \/ ~last /\ NextPage(k)
      \/ \E set \in {"some", "nothing"} : EndOfSet(k, set)
      \/ SearchFails(k)
  BY DEF PageArrived
\* The search goes on: it took a token.
<1>3. ASSUME TakeToken, ssReply' = Unanswered, UNCHANGED <<ssCache, ssAsk>>,
             ssFlight' \in [Buckets -> Flights \cup {NoFlight}]
      PROVE  SsInv' /\ NoErrorStep /\ KeptStep
  <2>1. WindowInv'
    BY <1>0, <1>3, TokensKeepWindow
  <2>2. CacheInv' /\ KeptStep /\ \A j : Younger(j, StaleMax)' <=> Younger(j, StaleMax)
    BY <1>0, <1>3, SameCache
  <2>3. AskInv'
    BY <1>3, <2>2 DEF SsInv, AskInv, CopiesPromised
  <2>4. NoErrorStep
    BY <1>3 DEF NoErrorStep, Unanswered, Reply
  <2> QED BY <2>1, <2>2, <2>3, <2>4 DEF SsInv
\* The search ends with a set.
<1>4. ASSUME NEW ok \in BOOLEAN, NEW cut \in BOOLEAN, ok => ~cut, Finish(k, ok, cut),
             NoToken \/ UNCHANGED <<ssCalls, ssSent>>
      PROVE  SsInv' /\ NoErrorStep /\ KeptStep
  <2>1. WindowInv'
    <3>1. CASE NoToken
      BY <1>0, <3>1, TokensKeepWindow
    <3>2. CASE UNCHANGED <<ssCalls, ssSent>>
      BY <1>0, <3>2 DEF WindowInv, SentAreCounted
    <3> QED BY <1>4, <3>1, <3>2
  <2> QED BY <1>4, <2>1, FinishKeeps DEF SsInv
<1>5. CASE Refetch(k)
  <2>1. CASE TakeToken /\ ssFlight' = [ssFlight EXCEPT ![k] = Flight(TRUE, 1, TRUE)]
             /\ ssReply' = Unanswered /\ UNCHANGED <<ssCache, ssAsk>>
    <3>1. Flight(TRUE, 1, TRUE) \in Flights
      BY <1>1 DEF Flight, Flights
    <3>2. ssFlight' \in [Buckets -> Flights \cup {NoFlight}]
      BY <1>0, <2>1, <3>1
    <3> QED BY <1>3, <2>1, <3>2
  <2>2. CASE NoToken /\ Finish(k, RefetchCacheable("nothing", TRUE), TRUE)
    <3>1. RefetchCacheable("nothing", TRUE) = FALSE
      BY DEF RefetchCacheable
    <3>2. Finish(k, FALSE, TRUE)
      BY <2>2, <3>1
    <3> QED BY <1>4, <2>2, <3>2
  <2> QED BY <1>5, <2>1, <2>2 DEF Refetch
<1>6. CASE ~last /\ NextPage(k)
  <2>1. CASE TakeToken /\ ssFlight' = [ssFlight EXCEPT ![k].page = @ + 1]
             /\ ssReply' = Unanswered /\ UNCHANGED <<ssCache, ssAsk>>
    <3>1. [ssFlight[k] EXCEPT !.page = @ + 1] \in Flights
      <4>1. ssFlight[k].page + 1 \in 1 .. PagesMax
        BY <1>1, <1>6, StayBounds DEF Flights
      <4> QED BY <1>1, <4>1 DEF Flights
    <3>2. ssFlight' \in [Buckets -> Flights \cup {NoFlight}]
      <4>1. ssFlight' = [ssFlight EXCEPT ![k] = [ssFlight[k] EXCEPT !.page = @ + 1]]
        BY <2>1
      <4> QED BY <1>0, <3>1, <4>1
    <3> QED BY <1>3, <2>1, <3>2
  <2>2. CASE NoToken /\ Finish(k, ssFlight[k].refetch /\ RefetchCacheable("some", TRUE), TRUE)
    <3>1. (ssFlight[k].refetch /\ RefetchCacheable("some", TRUE)) = FALSE
      BY DEF RefetchCacheable
    <3>2. Finish(k, FALSE, TRUE)
      BY <2>2, <3>1
    <3> QED BY <1>4, <2>2, <3>2
  <2> QED BY <1>6, <2>1, <2>2 DEF NextPage
<1>7. CASE \E set \in {"some", "nothing"} : EndOfSet(k, set)
  <2> PICK set \in {"some", "nothing"} : EndOfSet(k, set)
    BY <1>7
  <2> DEFINE ok == ssFlight[k].refetch => RefetchCacheable(set, FALSE)
             cut == ssFlight[k].refetch /\ set = "nothing"
  <2>1. ok \in BOOLEAN /\ cut \in BOOLEAN /\ (ok => ~cut)
    BY DEF RefetchCacheable
  <2>2. Finish(k, ok, cut) /\ UNCHANGED <<ssCalls, ssSent>>
    BY DEF EndOfSet
  <2> HIDE DEF ok, cut
  <2> QED BY <1>4, <2>1, <2>2
<1>8. CASE SearchFails(k)
  <2>1. Answer(k, "failed") /\ UNCHANGED <<ssCache, ssCalls, ssSent>>
        /\ ssFlight' = [ssFlight EXCEPT ![k] = NoFlight]
    BY <1>8 DEF SearchFails
  <2>2. /\ ssAsk' \in [Clients -> [key : Buckets, stale : BOOLEAN] \cup {NotAsking}]
        /\ \A c \in Clients : ssAsk'[c].key \in Buckets => ssAsk'[c] = ssAsk[c] /\ ssAsk[c].key # k
        /\ NoErrorStep
    BY <2>1, AnswerTells
  <2>3. CacheInv' /\ KeptStep /\ \A j : Younger(j, StaleMax)' <=> Younger(j, StaleMax)
    BY <1>0, <2>1, SameCache
  <2>4. WindowInv'
    BY <1>0, <2>1 DEF WindowInv, SentAreCounted
  <2>5. ssFlight' \in [Buckets -> Flights \cup {NoFlight}]
    BY <1>0, <2>1
  <2>6. CopiesPromised'
    BY <1>0, <2>2, <2>3 DEF CopiesPromised
  <2> QED BY <2>2, <2>3, <2>4, <2>5, <2>6 DEF SsInv, AskInv
<1> QED BY <1>2, <1>5, <1>6, <1>7, <1>8

LEMMA TickKeeps ==
    ASSUME SsInv, SsTick
    PROVE  SsInv' /\ NoErrorStep /\ KeptStep
<1>0. WindowInv /\ CacheInv /\ AskInv /\ StaleMax \in Nat
  BY StayBounds DEF SsInv
<1>1. WindowInv'
  BY <1>0, TickKeepsWindow
<1>2. ssCache \in Seq(Entries) /\ Len(ssCache) \in Nat /\ DOMAIN ssCache = 1 .. Len(ssCache)
  BY <1>0 DEF CacheInv
<1>3. ASSUME NEW i \in 1 .. Len(ssCache)
      PROVE  [ssCache[i] EXCEPT !.age = Age(@, StaleMax)] \in Entries
  <2>1. ssCache[i] \in Entries
    BY <1>2, ElementOfSeq
  <2>2. Age(ssCache[i].age, StaleMax) \in 0 .. StaleMax
    BY <1>0, <2>1 DEF Age, Entries
  <2> QED BY <2>1, <2>2 DEF Entries
<1>4. /\ ssCache' \in Seq(Entries) /\ Len(ssCache') = Len(ssCache)
      /\ \A i \in 1 .. Len(ssCache) : ssCache'[i] = [ssCache[i] EXCEPT !.age = Age(@, StaleMax)]
  <2>1. ssCache' = [i \in 1 .. Len(ssCache) |-> [ssCache[i] EXCEPT !.age = Age(@, StaleMax)]]
    BY <1>2 DEF SsTick
  <2>2. PICK n \in Nat : n = Len(ssCache)
    BY <1>2
  <2> QED BY <1>3, <2>1, <2>2
<1>5. ASSUME NEW i \in 1 .. Len(ssCache)
      PROVE  /\ ssCache'[i].key = ssCache[i].key /\ ssCache'[i].cut = ssCache[i].cut
             /\ ssCache'[i].age < StaleMax => ssCache[i].age < StaleMax
  <2>1. ssCache[i] \in Entries
    BY <1>2, ElementOfSeq
  <2>2. ssCache'[i].age = Age(ssCache[i].age, StaleMax)
    BY <1>4, <2>1 DEF Entries
  <2> QED BY <1>0, <1>4, <2>1, <2>2 DEF Entries, Age
<1>6. DOMAIN ssCache' = 1 .. Len(ssCache)
  BY <1>4
<1>7. CacheInv'
  <2>1. KeysOnce'
    BY <1>0, <1>2, <1>5, <1>6 DEF CacheInv, KeysOnce
  <2>2. NoCutIsCached'
    BY <1>0, <1>2, <1>5, <1>6 DEF CacheInv, NoCutIsCached
  <2> QED BY <1>0, <1>4, <2>1, <2>2 DEF CacheInv
<1>8. ASSUME NEW k, Younger(k, StaleMax)' PROVE Younger(k, StaleMax)
  <2>1. PICK i \in 1 .. Len(ssCache) : ssCache'[i].key = k /\ ssCache'[i].age < StaleMax
    BY <1>6, <1>8 DEF Younger, Copies
  <2> QED BY <1>2, <1>5, <2>1 DEF Younger, Copies
<1>9. AskInv'
  <2>1. UNCHANGED <<ssFlight, ssAsk>>
    BY DEF SsTick
  <2> QED BY <1>0, <1>8, <2>1 DEF AskInv, CopiesPromised
<1>10. NoErrorStep
  BY DEF NoErrorStep, SsTick, Unanswered, Reply
<1>11. KeptStep
  BY <1>2, <1>5, <1>6 DEF KeptStep, Copies
<1> QED BY <1>1, <1>7, <1>9, <1>10, <1>11 DEF SsInv

LEMMA SsInitInv == SsInit => SsInv
<1> SUFFICES ASSUME SsInit PROVE SsInv
  OBVIOUS
<1> USE StayBounds DEF SsInit
<1>1. CacheInv
  BY DEF CacheInv, KeysOnce, NoCutIsCached
<1>2. WindowInv
  <2>1. SentAreCounted
    BY DEF SentAreCounted
  <2> QED BY <2>1 DEF WindowInv
<1>3. AskInv
  BY DEF AskInv, CopiesPromised, NotAsking, Waiting
<1> QED BY <1>1, <1>2, <1>3 DEF SsInv

LEMMA SsStepInv == SsInv /\ [SsNext]_ssVars => SsInv' /\ (UNCHANGED ssVars \/ (NoErrorStep /\ KeptStep))
<1> SUFFICES ASSUME SsInv, [SsNext]_ssVars PROVE SsInv' /\ (UNCHANGED ssVars \/ (NoErrorStep /\ KeptStep))
  OBVIOUS
<1>1. CASE \E c \in Clients : Ask(c)
  BY <1>1, AskKeeps
<1>2. CASE \E k \in Buckets : PageArrived(k)
  BY <1>2, PageKeeps
<1>3. CASE SsTick
  BY <1>3, TickKeeps
<1>4. CASE UNCHANGED ssVars
  <2>1. UNCHANGED <<ssCache, ssFlight, ssCalls, ssSent, ssAsk, ssReply>>
    BY <1>4 DEF ssVars
  <2>2. CacheInv'
    BY <2>1, SameCache DEF SsInv
  <2>3. WindowInv'
    BY <2>1 DEF SsInv, WindowInv, SentAreCounted
  <2>4. AskInv'
    BY <2>1 DEF SsInv, AskInv, CopiesPromised, Younger, Copies
  <2> QED BY <1>4, <2>2, <2>3, <2>4 DEF SsInv
<1> QED BY <1>1, <1>2, <1>3, <1>4 DEF SsNext

LEMMA SsAlways == SsSpec => []SsInv
<1>1. SsInv /\ [SsNext]_ssVars => SsInv'
  BY SsStepInv
<1> QED BY <1>1, SsInitInv, PTL DEF SsSpec

LEMMA SsInvTypes == SsInv => SsTypeOK
<1> SUFFICES ASSUME SsInv PROVE SsTypeOK
  OBVIOUS
<1>1. ssCache \in Seq(Entries) /\ DOMAIN ssCache = 1 .. Len(ssCache)
  BY DEF SsInv, CacheInv
<1>2. \A i \in DOMAIN ssCache : ssCache[i] \in Entries
  BY <1>1, ElementOfSeq
<1>3. \A k \in Buckets : ssFlight[k] = NoFlight \/ ssFlight[k] \in Flights
  BY DEF SsInv, AskInv
<1>4. Len(ssCache) <= CacheMax /\ KeysOnce /\ Len(ssCalls) <= PerMin
  BY DEF SsInv, CacheInv, WindowInv
<1> QED BY <1>2, <1>3, <1>4 DEF SsTypeOK, Entries, Flights, KeysOnce

\* The types of the stay proxy's state: a bounded cache with one entry per
\* bucket, a bounded list of counted calls (routes/stay.ts: cache, inflight
\* and upstreamCalls).
THEOREM StayTypesHold == SsSpec => []SsTypeOK
BY SsAlways, SsInvTypes, PTL

\* The upstream never sees more calls within any window than the cap, however
\* many searches, pages and refetches share it, and what the window cut is
\* never cached (routes/stay.ts: takeToken, fetchBucket).
THEOREM SearchAlwaysHonest == SsSpec => []SearchIsHonest
<1>1. SsInv => SearchIsHonest
  <2> SUFFICES ASSUME SsInv PROVE SearchIsHonest
    OBVIOUS
  <2>1. ssCalls \in Seq(0 .. Window) /\ Len(ssCalls) <= PerMin /\ SentAreCounted /\ NoCutIsCached
    BY DEF SsInv, WindowInv, CacheInv
  <2>2. PICK n \in 0 .. Len(ssCalls) : Len(ssSent) = Len(ssCalls) - n
    BY <2>1 DEF SentAreCounted
  <2>3. Len(ssCalls) \in Nat /\ PerMin \in Nat
    BY <2>1, StayBounds
  <2>4. Len(ssSent) <= PerMin
    BY <2>1, <2>2, <2>3
  <2> QED BY <2>1, <2>4 DEF SearchIsHonest, WindowIsKept
<1> QED BY <1>1, SsAlways, PTL

\* A copy lives until it is replaced, evicted or too old, and nobody is told
\* of an error who could have had it, also those who merely joined a search
\* that failed later (routes/stay.ts: the stale fallback of the route).
THEOREM CopiesAlwaysServe == SsSpec => CopiesServe
<1>1. SsInv /\ [SsNext]_ssVars => [NoErrorStep]_ssVars /\ [KeptStep]_ssVars
  BY SsStepInv
<1>2. SsSpec => [][NoErrorStep]_ssVars /\ [][KeptStep]_ssVars
  <2>1. SsSpec => [][SsNext]_ssVars
    BY DEF SsSpec
  <2> QED BY <1>1, <2>1, SsAlways, PTL
<1> QED BY <1>2 DEF CopiesServe, NoErrorOverCopy, CopiesAreKept, NoErrorStep, KeptStep

-----------------------------------------------------------------------------
(* The tile loader: its inductive invariant.  The composes in flight ask   *)
(* for ever more, and for no less than what is shown; the newest layer is  *)
(* shown, asked for, about to be asked for, or its compose was rejected.   *)

Unresolved == PtWaits \cup {"resolve"}

QueueAscends == \A i, j \in 1 .. Len(ptQueue) : i <= j => ptQueue[i] <= ptQueue[j]
QueueIsAhead == \A i \in 1 .. Len(ptQueue) : ptCount <= ptQueue[i] /\ ptLast <= ptQueue[i]
ShownIsCounted ==
    /\ ptCount = 0 => ptImage \in {Preview, Clear}
    /\ ptCount # 0 => ptImage = Landed(ptCount)
NewestIsAsked ==
    \/ ptFrame \/ ptCount = Len(ptGrids) \/ ptLast = Len(ptGrids)
    \/ ptQueue # <<>> /\ ptQueue[Len(ptQueue)] = Len(ptGrids)
EmptyIsClear == AllSettled /\ ptGrids = <<>> => ptFrame \/ ptImage = Clear

BeforeInv ==
    /\ ptPhase \in Unresolved \cup PtComposing => ptImage = NoImage /\ ptLast = 0
    /\ ptPhase \in Unresolved => ptQueue = <<>>
    /\ ptPhase \in PtComposing => ptQueue # <<>>
    /\ ptPhase = "composePart" => ptQueue = <<ptCount>>
LoadedInv ==
    ptPhase = "loaded" /\ ~ptAborted =>
        QueueAscends /\ QueueIsAhead /\ ShownIsCounted /\ NewestIsAsked /\ EmptyIsClear
TailInv == ptPhase \in {"composePart", "loaded"} /\ ~AllSettled => ptTail

PtInv == PtTypeOK /\ ptLast \in 0 .. Len(ptGrids) /\ BeforeInv /\ LoadedInv /\ TailInv

\* The phases are told apart.
LEMMA PhasesDiffer ==
    /\ Unresolved \cap PtComposing = {} /\ Unresolved \cap PtEnded = {} /\ PtComposing \cap PtEnded = {}
    /\ \A phase \in {"loaded", "plain"} : phase \notin Unresolved \cup PtComposing \cup PtEnded
    /\ PtWaits \subseteq Unresolved /\ "resolve" \in Unresolved /\ "resolve" \notin PtWaits
    /\ PtComposing = {"composeAll", "composePart"}
    /\ \A phase \in Unresolved \cup PtComposing \cup PtEnded \cup {"loaded", "plain"} :
           phase \in PtWaits \cup PtComposing \cup PtEnded \cup {"resolve", "loaded", "plain"}
BY DEF Unresolved, PtWaits, PtComposing, PtEnded

\* What is composed is a set of layers, and no other image.
LEMMA LandedLayers ==
    ASSUME PtTypeOK, NEW n \in 0 .. Len(ptGrids)
    PROVE  Landed(n) \subseteq TileLayers /\ Composite(Landed(n))
<1>1. Landed(n) \subseteq TileLayers
  BY ElementOfSeq DEF PtTypeOK, Landed
<1>2. Landed(n) \notin {NoImage, Preview, Clear}
  <2>1. Landed(n) \in SUBSET TileLayers
    BY <1>1
  <2> QED BY <2>1, TileAssumption DEF TileAssumption
<1> QED BY <1>1, <1>2 DEF Composite

LEMMA PlainImages ==
    \A image \in {NoImage, Preview, Clear} : ~Composite(image)
BY DEF Composite

\* A step that changes nothing of what the invariant ties together.
LEMMA QuietKeeps ==
    ASSUME PtInv, UNCHANGED <<ptLayer, ptGrids, ptTail, ptImage, ptCount, ptFrame, ptQueue, ptLast>>,
           \/ ptPhase' = ptPhase
           \/ ptPhase \in PtWaits /\ ptPhase' \in Unresolved
           \/ ptPhase' \in PtEnded,
           ptAborted => ptAborted',
           ptTimer' \subseteq PtTimers,
           ptPreview' \in {"none", "fetching", "composing", "ready", "dropped"}
    PROVE  PtInv' /\ ~ImageShrinks
<1>1. /\ ptLayer' = ptLayer /\ ptGrids' = ptGrids /\ ptTail' = ptTail /\ ptImage' = ptImage
      /\ ptCount' = ptCount /\ ptFrame' = ptFrame /\ ptQueue' = ptQueue /\ ptLast' = ptLast
  OBVIOUS
<1>2. ptPhase' \in PtWaits \cup PtComposing \cup PtEnded \cup {"resolve", "loaded", "plain"}
  BY PhasesDiffer DEF PtInv, PtTypeOK
<1>3. PtTypeOK'
  BY <1>1, <1>2 DEF PtInv, PtTypeOK
<1>4. ptPhase' \in PtComposing \cup {"loaded", "composePart"} => ptPhase' = ptPhase
  BY PhasesDiffer
<1>5. ptPhase' \in Unresolved => ptPhase \in Unresolved
  BY PhasesDiffer
<1>6. BeforeInv'
  BY <1>1, <1>4, <1>5, PhasesDiffer DEF PtInv, BeforeInv
<1>7. LoadedInv'
  BY <1>1, <1>4 DEF PtInv, LoadedInv, QueueAscends, QueueIsAhead, ShownIsCounted, NewestIsAsked, EmptyIsClear,
     AllSettled, Landed
<1>8. TailInv'
  BY <1>1, <1>4 DEF PtInv, TailInv, AllSettled
<1>9. ~ImageShrinks
  BY <1>1 DEF ImageShrinks
<1> QED BY <1>1, <1>3, <1>6, <1>7, <1>8, <1>9 DEF PtInv

\* A layer that settles.
LEMMA SettleKeeps ==
    ASSUME PtInv, NEW l \in TileLayers, NEW how \in {"grid", "empty", "error", "cut"}, SettleLayer(l, how)
    PROVE  PtInv' /\ ~ImageShrinks
<1>0. /\ PtTypeOK /\ ptLast \in 0 .. Len(ptGrids) /\ BeforeInv /\ LoadedInv /\ TailInv
      /\ ptGrids \in Seq(TileLayers) /\ Len(ptGrids) \in Nat
      /\ ptQueue \in Seq(1 .. Len(ptGrids)) /\ ptCount \in 0 .. Len(ptGrids)
      /\ ptLayer \in [TileLayers -> {"flying", "grid", "empty", "error", "cut"}]
  BY DEF PtInv, PtTypeOK
<1>1. /\ ptPhase' = ptPhase /\ ptPreview' = ptPreview /\ ptTimer' = ptTimer /\ ptAborted' = ptAborted
      /\ ptImage' = ptImage /\ ptCount' = ptCount /\ ptQueue' = ptQueue /\ ptLast' = ptLast
      /\ ptLayer' = [ptLayer EXCEPT ![l] = how]
      /\ ptGrids' = IF how = "grid" THEN Append(ptGrids, l) ELSE ptGrids
      /\ ptFrame' = (ptFrame \/ ptPhase = "loaded")
      /\ ptTail' = (ptTail /\ \E k \in TileLayers \ {l} : ptLayer[k] = "flying")
      /\ ptLayer[l] = "flying"
  BY DEF SettleLayer
<1>2. /\ ptGrids' \in Seq(TileLayers) /\ Len(ptGrids) <= Len(ptGrids') /\ Len(ptGrids') \in Nat
      /\ \A i \in 1 .. Len(ptGrids) : ptGrids'[i] = ptGrids[i]
  <2>1. CASE how = "grid"
    <3>1. /\ Append(ptGrids, l) \in Seq(TileLayers) /\ Len(Append(ptGrids, l)) = Len(ptGrids) + 1
          /\ \A i \in 1 .. Len(ptGrids) : Append(ptGrids, l)[i] = ptGrids[i]
      BY <1>0, AppendProperties
    <3> QED BY <1>0, <1>1, <2>1, <3>1
  <2>2. CASE how # "grid"
    BY <1>0, <1>1, <2>2
  <2> QED BY <2>1, <2>2
<1>3. ptQueue' \in Seq(1 .. Len(ptGrids')) /\ ptCount' \in 0 .. Len(ptGrids')
  <2>1. 1 .. Len(ptGrids) \subseteq 1 .. Len(ptGrids')
    BY <1>0, <1>2
  <2>2. ptQueue \in Seq(1 .. Len(ptGrids'))
    <3>1. PICK m \in Nat : m = Len(ptGrids')
      BY <1>2
    <3> QED BY <1>0, <2>1, <3>1, WiderSeq
  <2> QED BY <1>0, <1>1, <1>2, <2>2
<1>4. ptLayer' \in [TileLayers -> {"flying", "grid", "empty", "error", "cut"}]
  BY <1>0, <1>1
<1>5. PtTypeOK'
  BY <1>1, <1>0, <1>2, <1>3, <1>4 DEF PtTypeOK
<1>6. BeforeInv'
  BY <1>0, <1>1 DEF BeforeInv
<1>7. TailInv'
  <2> SUFFICES ASSUME ptPhase' \in {"composePart", "loaded"}, ~AllSettled' PROVE ptTail'
    BY DEF TailInv
  <2>1. PICK k \in TileLayers : ptLayer'[k] = "flying"
    BY DEF AllSettled
  <2>2. k # l /\ ptLayer[k] = "flying"
    BY <1>0, <1>1, <2>1
  <2> QED BY <1>0, <1>1, <2>2 DEF TailInv, AllSettled
<1>8. LoadedInv'
  <2> SUFFICES ASSUME ptPhase = "loaded", ~ptAborted
               PROVE  (QueueAscends /\ QueueIsAhead /\ ShownIsCounted /\ NewestIsAsked /\ EmptyIsClear)'
    BY <1>1 DEF LoadedInv
  <2>1. ShownIsCounted'
    <3>1. ASSUME ptCount # 0 PROVE ptImage' = {ptGrids'[i] : i \in 1 .. ptCount}
      <4>1. \A i \in 1 .. ptCount : ptGrids'[i] = ptGrids[i]
        <5>1. PICK n \in Nat : n = Len(ptGrids) /\ ptCount <= n /\ ptCount \in Nat
          BY <1>0
        <5>2. \A i \in 1 .. ptCount : i \in 1 .. n
          BY <5>1
        <5> QED BY <1>2, <5>1, <5>2
      <4>2. ptImage = {ptGrids[i] : i \in 1 .. ptCount}
        BY <1>0, <3>1 DEF LoadedInv, ShownIsCounted, Landed
      <4>3. {ptGrids[i] : i \in 1 .. ptCount} = {ptGrids'[i] : i \in 1 .. ptCount}
        BY <4>1
      <4> QED BY <1>1, <4>2, <4>3
    <3>2. ptCount = 0 => ptImage' \in {Preview, Clear}
      BY <1>0, <1>1 DEF LoadedInv, ShownIsCounted
    <3> QED BY <1>1, <3>1, <3>2 DEF ShownIsCounted, Landed
  <2>2. (QueueAscends /\ QueueIsAhead)'
    BY <1>0, <1>1 DEF LoadedInv, QueueAscends, QueueIsAhead
  <2>3. (NewestIsAsked /\ EmptyIsClear)'
    BY <1>1 DEF NewestIsAsked, EmptyIsClear
  <2> QED BY <2>1, <2>2, <2>3
<1>9. ~ImageShrinks
  BY <1>1 DEF ImageShrinks
<1>10. ptLast' \in 0 .. Len(ptGrids')
  BY <1>0, <1>1, <1>2
<1> QED BY <1>5, <1>6, <1>7, <1>8, <1>9, <1>10 DEF PtInv

\* The call moves on through its waits.
LEMMA MoveKeeps ==
    ASSUME PtInv, NEW phase \in Unresolved, ptPhase \in PtWaits, MoveTo(phase),
           ptPreview' \in {ptPreview, "dropped"}
    PROVE  PtInv' /\ ~ImageShrinks
<1>1. /\ UNCHANGED <<ptLayer, ptGrids, ptTail, ptImage, ptCount, ptFrame, ptQueue, ptLast>>
      /\ ptPhase' = phase /\ ptAborted' = ptAborted /\ ptTimer' \subseteq PtTimers
  BY DEF MoveTo, PtInv, PtTypeOK
<1>2. ptPreview' \in {"none", "fetching", "composing", "ready", "dropped"}
  BY DEF PtInv, PtTypeOK
<1> QED BY <1>1, <1>2, QuietKeeps

\* A tile under deck's sharper ancestor moves on only after the hold.
LEMMA WaitsKeep ==
    ASSUME PtInv, EndRace \/ EndHold \/ EndSlow \/ EndDrop \/ EndHoldPartial
    PROVE  PtInv' /\ ~ImageShrinks /\ ~Downgrades
<1>1. ptPhase \in PtWaits /\ \E phase \in Unresolved : MoveTo(phase)
  BY DEF EndRace, EndHold, EndSlow, EndDrop, EndHoldPartial, PtWaits, Unresolved
<1>2. ptPreview' \in {ptPreview, "dropped"}
  BY DEF EndRace, EndHold, EndSlow, EndDrop, EndHoldPartial
<1>3. PtInv' /\ ~ImageShrinks
  BY <1>1, <1>2, MoveKeeps
<1>4. ASSUME ~AllSettled, ptFallback, "hold" \notin ptTimer PROVE ptPhase' # "resolve"
  BY <1>4 DEF EndRace, EndHold, EndSlow, EndDrop, EndHoldPartial, MoveTo, PreviewWins
<1> QED BY <1>3, <1>4 DEF Downgrades

LEMMA ResolveKeeps ==
    ASSUME PtInv, ResolveTile
    PROVE  PtInv' /\ ~ImageShrinks
<1>0. /\ PtTypeOK /\ ptLast \in 0 .. Len(ptGrids) /\ BeforeInv
      /\ ptGrids \in Seq(TileLayers) /\ Len(ptGrids) \in Nat
      /\ ptPhase = "resolve" /\ ptImage = NoImage /\ ptLast = 0 /\ ptQueue = <<>>
  BY PhasesDiffer DEF PtInv, PtTypeOK, BeforeInv, ResolveTile
<1>1. /\ ptLayer' = ptLayer /\ ptGrids' = ptGrids /\ ptPreview' = ptPreview /\ ptTimer' = ptTimer
      /\ ptAborted' = ptAborted /\ ptLast' = ptLast
  BY DEF ResolveTile
<1>2. ~ImageShrinks
  BY <1>0 DEF ImageShrinks, Composite
<1>3. CASE ptAborted
  <2>1. ptPhase' = "aborted" /\ UNCHANGED <<ptTail, ptImage, ptCount, ptFrame, ptQueue, ptCut>>
    BY <1>3 DEF ResolveTile
  <2>2. ptPhase' \in PtEnded
    BY <2>1 DEF PtEnded
  <2>3. /\ ptTimer' \subseteq PtTimers
        /\ ptPreview' \in {"none", "fetching", "composing", "ready", "dropped"}
    BY <1>0, <1>1 DEF PtTypeOK
  <2> QED BY <1>1, <2>1, <2>2, <2>3, QuietKeeps
<1>q. ptGrids # <<>> => Len(ptGrids) \in 1 .. Len(ptGrids) /\ <<Len(ptGrids)>> \in Seq(1 .. Len(ptGrids))
  <2>1. ptGrids # <<>> => Len(ptGrids) >= 1
    BY <1>0
  <2>2. PICK n \in Nat : n = Len(ptGrids)
    BY <1>0
  <2>3. n >= 1 => n \in 1 .. n /\ <<n>> \in Seq(1 .. n)
    OBVIOUS
  <2> QED BY <2>1, <2>2, <2>3
<1>e. <<>> \in Seq(1 .. Len(ptGrids))
  OBVIOUS
<1>4. CASE ~ptAborted /\ ResolveComplete
  <2>1. /\ ptTail' = ptTail /\ ptImage' = ptImage /\ ptCount' = ptCount /\ ptFrame' = ptFrame
        /\ ptPhase' = IF ptGrids # <<>> THEN "composeAll" ELSE IF HardErrors = TileLayers THEN "failed" ELSE "empty"
        /\ ptQueue' = IF ptGrids # <<>> THEN <<Len(ptGrids)>> ELSE <<>>
    BY <1>4 DEF ResolveComplete
  <2>2. ptQueue' \in Seq(1 .. Len(ptGrids))
    BY <1>q, <1>e, <2>1
  <2>3. ptPhase' \in {"composeAll", "failed", "empty"}
    BY <2>1
  <2>4. PtTypeOK'
    BY <1>0, <1>1, <2>1, <2>2, <2>3 DEF PtTypeOK, PtComposing, PtEnded
  <2>5. BeforeInv'
    <3>1. ptPhase' = "composeAll" => ptQueue' # <<>>
      BY <2>1
    <3>2. ptPhase' \notin Unresolved /\ ptPhase' # "composePart"
      BY <2>3 DEF Unresolved, PtWaits
    <3>3. ptPhase' \in PtComposing => ptPhase' = "composeAll"
      BY <2>3 DEF PtComposing
    <3> QED BY <1>0, <1>1, <2>1, <3>1, <3>2, <3>3 DEF BeforeInv
  <2>6. (LoadedInv /\ TailInv)'
    BY <2>3 DEF LoadedInv, TailInv
  <2> QED BY <1>0, <1>1, <1>2, <2>4, <2>5, <2>6 DEF PtInv
<1>5. CASE ~ptAborted /\ ResolvePartial /\ ptGrids # <<>>
  <2>1. /\ ptTail' = TRUE /\ ptCount' = Len(ptGrids) /\ ptImage' = ptImage /\ ptFrame' = ptFrame
        /\ ptPhase' = "composePart" /\ ptQueue' = <<Len(ptGrids)>>
    BY <1>5 DEF ResolvePartial
  <2>2. PtTypeOK'
    BY <1>0, <1>1, <1>5, <1>q, <2>1 DEF PtTypeOK, PtComposing
  <2>3. BeforeInv'
    BY <1>0, <1>1, <2>1 DEF BeforeInv, Unresolved, PtWaits
  <2>4. (LoadedInv /\ TailInv)'
    BY <2>1 DEF LoadedInv, TailInv
  <2> QED BY <1>0, <1>1, <1>2, <2>2, <2>3, <2>4 DEF PtInv
<1>6. CASE ~ptAborted /\ ResolvePartial /\ ptGrids = <<>>
  <2>1. /\ ptTail' = TRUE /\ ptCount' = 0 /\ ptPhase' = "loaded" /\ ptQueue' = <<>>
        /\ ptImage' \in {Preview, Clear}
        /\ ~AllSettled /\ Len(ptGrids) = 0
        /\ ptFrame' \in BOOLEAN
    BY <1>0, <1>6 DEF ResolvePartial
  <2>2. PtTypeOK'
    BY <1>0, <1>1, <1>e, <2>1 DEF PtTypeOK
  <2>3. BeforeInv'
    BY <2>1, PhasesDiffer DEF BeforeInv
  <2>4. LoadedInv'
    <3>1. (QueueAscends /\ QueueIsAhead)'
      BY <2>1 DEF QueueAscends, QueueIsAhead
    <3>2. ShownIsCounted' /\ NewestIsAsked'
      BY <1>1, <2>1 DEF ShownIsCounted, NewestIsAsked
    <3>3. EmptyIsClear'
      BY <1>1, <2>1 DEF EmptyIsClear, AllSettled
    <3> QED BY <3>1, <3>2, <3>3 DEF LoadedInv
  <2>5. TailInv'
    BY <2>1 DEF TailInv
  <2> QED BY <1>0, <1>1, <1>2, <2>2, <2>3, <2>4, <2>5 DEF PtInv
<1> QED BY <1>3, <1>4, <1>5, <1>6 DEF ResolveTile

LEMMA FirstKeeps ==
    ASSUME PtInv, FirstComposed \/ FirstRejected
    PROVE  PtInv' /\ ~ImageShrinks
<1>0. /\ PtTypeOK /\ ptLast = 0 /\ BeforeInv /\ TailInv
      /\ ptPhase \in PtComposing /\ ptImage = NoImage /\ ptQueue # <<>>
      /\ ptQueue \in Seq(1 .. Len(ptGrids)) /\ ptCount \in 0 .. Len(ptGrids) /\ Len(ptGrids) \in Nat
      /\ ptPhase = "composePart" => ptQueue = <<ptCount>>
  BY DEF PtInv, PtTypeOK, BeforeInv, FirstComposed, FirstRejected
<1>1. /\ ptLayer' = ptLayer /\ ptGrids' = ptGrids /\ ptPreview' = ptPreview /\ ptTimer' = ptTimer
      /\ ptAborted' = ptAborted /\ ptLast' = ptLast /\ ptCount' = ptCount /\ ptTail' = ptTail
      /\ ptQueue' = <<>>
  BY DEF FirstComposed, FirstRejected
<1>2. ~ImageShrinks
  BY <1>0 DEF ImageShrinks, Composite
<1>e. <<>> \in Seq(1 .. Len(ptGrids))
  OBVIOUS
<1>h. Head(ptQueue) \in 1 .. Len(ptGrids)
  <2>1. 1 \in 1 .. Len(ptQueue) /\ Head(ptQueue) = ptQueue[1]
    BY <1>0
  <2> QED BY <1>0, <2>1, ElementOfSeq
<1>3. CASE ptPhase' \in PtEnded /\ ptImage' = ptImage
  <2>1. PtTypeOK'
    BY <1>0, <1>1, <1>e, <1>3 DEF PtTypeOK
  <2>2. (BeforeInv /\ LoadedInv /\ TailInv)'
    BY <1>3, PhasesDiffer DEF BeforeInv, LoadedInv, TailInv
  <2> QED BY <1>0, <1>1, <1>2, <2>1, <2>2 DEF PtInv
<1>4. CASE FirstComposed /\ ~ptAborted
  <2>1. /\ ptImage' = Landed(Head(ptQueue)) /\ ptFrame' = (ptPhase = "composePart")
        /\ ptPhase' = IF ptPhase = "composeAll" THEN "plain" ELSE "loaded"
    BY <1>4 DEF FirstComposed
  <2>2. PtTypeOK'
    <3>1. ptImage' \subseteq TileLayers
      BY <1>0, <1>h, <2>1, LandedLayers
    <3> QED BY <1>0, <1>1, <1>e, <2>1, <3>1 DEF PtTypeOK
  <2>3. BeforeInv'
    BY <2>1, PhasesDiffer DEF BeforeInv
  <2>4. ptPhase' = "loaded" => ptPhase = "composePart"
    BY <1>0, <2>1, PhasesDiffer
  <2>5. TailInv'
    BY <1>0, <1>1, <2>1, <2>4 DEF TailInv, AllSettled
  <2>6. ASSUME ptPhase' = "loaded"
        PROVE  (QueueAscends /\ QueueIsAhead /\ ShownIsCounted /\ NewestIsAsked /\ EmptyIsClear)'
    <3>1. ptFrame' /\ ptQueue = <<ptCount>> /\ Head(ptQueue) = ptCount
      <4>1. \A c : Head(<<c>>) = c
        OBVIOUS
      <4>2. ptPhase = "composePart" /\ ptQueue = <<ptCount>>
        BY <1>0, <2>4, <2>6
      <4> QED BY <2>1, <4>1, <4>2
    <3>2. (NewestIsAsked /\ EmptyIsClear)'
      BY <3>1 DEF NewestIsAsked, EmptyIsClear
    <3>3. (QueueAscends /\ QueueIsAhead)'
      BY <1>1 DEF QueueAscends, QueueIsAhead
    <3>4. ptImage' = Landed(ptCount) /\ ptCount # 0
      BY <1>h, <2>1, <3>1
    <3>5. ShownIsCounted'
      BY <1>1, <3>4 DEF ShownIsCounted, Landed
    <3> QED BY <3>2, <3>3, <3>5
  <2> QED BY <1>0, <1>1, <1>2, <2>2, <2>3, <2>5, <2>6 DEF PtInv, LoadedInv
<1>5. (ptPhase' \in PtEnded /\ ptImage' = ptImage) \/ (FirstComposed /\ ~ptAborted)
  BY DEF FirstComposed, FirstRejected, PtEnded
<1> QED BY <1>3, <1>4, <1>5

\* A frame of the tail.
LEMMA FrameKeeps ==
    ASSUME PtInv, RecomposeFrame
    PROVE  PtInv' /\ ~ImageShrinks
<1>0. /\ PtTypeOK /\ ptLast \in 0 .. Len(ptGrids) /\ LoadedInv /\ TailInv /\ ptPhase = "loaded"
      /\ ptQueue \in Seq(1 .. Len(ptGrids)) /\ ptCount \in 0 .. Len(ptGrids) /\ ptGrids \in Seq(TileLayers)
      /\ ptImage \in {NoImage, Preview, Clear} \/ ptImage \subseteq TileLayers
  BY DEF PtInv, PtTypeOK, RecomposeFrame
<1>1. /\ ptLayer' = ptLayer /\ ptGrids' = ptGrids /\ ptPreview' = ptPreview /\ ptTimer' = ptTimer
      /\ ptAborted' = ptAborted /\ ptLast' = ptLast /\ ptCount' = ptCount /\ ptTail' = ptTail
      /\ ptPhase' = ptPhase /\ ptFrame' = FALSE
  BY DEF RecomposeFrame
<1>n. PICK n \in Nat : n = Len(ptGrids)
  BY <1>0
<1>m. PICK m \in Nat : m = Len(ptQueue)
  BY <1>0
<1>b. BeforeInv' /\ TailInv'
  BY <1>0, <1>1, PhasesDiffer DEF BeforeInv, TailInv, AllSettled
<1>2. CASE ptAborted
  <2>1. ptQueue' = ptQueue /\ ptImage' = ptImage
    BY <1>2 DEF RecomposeFrame, FrameWork
  <2>2. PtTypeOK' /\ ~ImageShrinks
    BY <1>0, <1>1, <2>1 DEF PtTypeOK, ImageShrinks
  <2> QED BY <1>0, <1>1, <1>2, <1>b, <2>2 DEF PtInv, LoadedInv
<1>3. ASSUME ~ptAborted
      PROVE QueueAscends /\ QueueIsAhead /\ ShownIsCounted /\ NewestIsAsked /\ EmptyIsClear
  BY <1>0, <1>3 DEF LoadedInv
<1>4. CASE ~ptAborted /\ n = ptCount /\ AllSettled /\ ptGrids = <<>>
  <2>1. ptImage' = Clear /\ ptQueue' = ptQueue
    BY <1>4, <1>n DEF RecomposeFrame, FrameWork
  <2>2. ptCount = 0 /\ n = 0
    BY <1>4, <1>n
  <2>3. PtTypeOK'
    BY <1>0, <1>1, <2>1 DEF PtTypeOK
  <2>4. ~ImageShrinks
    BY <1>3, <1>4, <2>2, PlainImages DEF ImageShrinks, ShownIsCounted
  <2>5. (QueueAscends /\ QueueIsAhead)'
    BY <1>1, <1>3, <1>4, <2>1 DEF QueueAscends, QueueIsAhead
  <2>6. (ShownIsCounted /\ EmptyIsClear)'
    BY <1>1, <2>1, <2>2 DEF ShownIsCounted, EmptyIsClear
  <2>7. NewestIsAsked'
    BY <1>1, <1>4, <1>n DEF NewestIsAsked
  <2> QED BY <1>0, <1>1, <1>b, <2>3, <2>4, <2>5, <2>6, <2>7 DEF PtInv, LoadedInv
<1>5. CASE ~ptAborted /\ n = ptCount /\ ~(AllSettled /\ ptGrids = <<>>)
  <2>1. ptImage' = ptImage /\ ptQueue' = ptQueue
    BY <1>5, <1>n DEF RecomposeFrame, FrameWork
  <2>3. PtTypeOK' /\ ~ImageShrinks
    BY <1>0, <1>1, <2>1 DEF PtTypeOK, ImageShrinks
  <2>5. (QueueAscends /\ QueueIsAhead)'
    BY <1>1, <1>3, <1>5, <2>1 DEF QueueAscends, QueueIsAhead
  <2>6. ShownIsCounted'
    BY <1>1, <1>3, <1>5, <2>1 DEF ShownIsCounted, Landed
  <2>7. EmptyIsClear' /\ NewestIsAsked'
    BY <1>1, <1>5, <1>n DEF EmptyIsClear, AllSettled, NewestIsAsked
  <2> QED BY <1>0, <1>1, <1>b, <2>3, <2>5, <2>6, <2>7 DEF PtInv, LoadedInv
<1>6. CASE ~ptAborted /\ n # ptCount
  <2>1. ptQueue' = Append(ptQueue, n) /\ ptImage' = ptImage
    BY <1>6, <1>n DEF RecomposeFrame, FrameWork
  <2>2. n \in 1 .. n /\ ptCount < n /\ ptGrids # <<>>
    BY <1>0, <1>6, <1>n
  <2>3. /\ ptQueue' \in Seq(1 .. n) /\ Len(ptQueue') = m + 1
        /\ (\A i \in 1 .. m : ptQueue'[i] = ptQueue[i]) /\ ptQueue'[m + 1] = n
    BY <1>0, <1>m, <1>n, <2>1, <2>2, AppendProperties
  <2>4. \A i \in 1 .. m : ptQueue[i] \in 1 .. n
    BY <1>0, <1>m, <1>n, ElementOfSeq
  <2>5. PtTypeOK' /\ ~ImageShrinks
    BY <1>0, <1>1, <1>n, <2>1, <2>3 DEF PtTypeOK, ImageShrinks
  <2>6. QueueAscends'
    <3> SUFFICES ASSUME NEW i \in 1 .. m + 1, NEW j \in 1 .. m + 1, i <= j PROVE ptQueue'[i] <= ptQueue'[j]
      BY <2>3 DEF QueueAscends
    <3>1. CASE j = m + 1
      <4>1. ptQueue'[i] \in 1 .. n
        BY <2>3, <2>2, <2>4
      <4> QED BY <2>3, <3>1, <4>1
    <3>2. CASE j # m + 1
      <4>1. i \in 1 .. m /\ j \in 1 .. m
        BY <3>2
      <4> QED BY <1>3, <1>6, <1>m, <2>3, <4>1 DEF QueueAscends
    <3> QED BY <3>1, <3>2
  <2>7. QueueIsAhead'
    <3> SUFFICES ASSUME NEW i \in 1 .. m + 1 PROVE ptCount <= ptQueue'[i] /\ ptLast <= ptQueue'[i]
      BY <1>1, <2>3 DEF QueueIsAhead
    <3>1. CASE i \in 1 .. m
      BY <1>3, <1>6, <1>m, <2>3, <3>1 DEF QueueIsAhead
    <3>2. CASE i = m + 1
      BY <1>0, <1>n, <2>3, <2>2, <3>2
    <3> QED BY <3>1, <3>2
  <2>8. ShownIsCounted'
    BY <1>1, <1>3, <1>6, <2>1 DEF ShownIsCounted, Landed
  <2>9. NewestIsAsked' /\ EmptyIsClear'
    <3>1. ptQueue' # <<>>
      BY <1>m, <2>3
    <3>2. ptQueue'[Len(ptQueue')] = n
      BY <2>3
    <3> QED BY <1>1, <1>n, <2>2, <3>1, <3>2 DEF NewestIsAsked, EmptyIsClear
  <2> QED BY <1>0, <1>1, <1>b, <2>5, <2>6, <2>7, <2>8, <2>9 DEF PtInv, LoadedInv
<1> QED BY <1>2, <1>4, <1>5, <1>6

\* An answer of the worker, or its rejection: the oldest compose is gone.
LEMMA AnsweredQueue ==
    ASSUME PtTypeOK, ptQueue # <<>>, QueueAscends, QueueIsAhead,
           NEW q, q \in {WithoutNth(ptQueue, 1), Tail(ptQueue)}
    PROVE  /\ q \in Seq(1 .. Len(ptGrids)) /\ Len(q) = Len(ptQueue) - 1
           /\ \A i \in 1 .. Len(q) : q[i] = ptQueue[i + 1]
           /\ ptQueue[1] \in 1 .. Len(ptGrids) /\ Head(ptQueue) = ptQueue[1]
           /\ \A i, j \in 1 .. Len(q) : i <= j => q[i] <= q[j]
           /\ \A i \in 1 .. Len(q) : ptQueue[1] <= q[i] /\ ptCount <= q[i] /\ ptLast <= q[i]
           /\ Len(q) > 0 => q[Len(q)] = ptQueue[Len(ptQueue)]
           /\ Len(q) = 0 => Len(ptQueue) = 1
<1>0. ptQueue \in Seq(1 .. Len(ptGrids)) /\ Len(ptQueue) \in Nat /\ Len(ptQueue) >= 1
  BY DEF PtTypeOK
<1>m. PICK m \in Nat : m = Len(ptQueue) /\ m >= 1
  BY <1>0
<1>1. q \in Seq(1 .. Len(ptGrids)) /\ Len(q) = m - 1 /\ \A i \in 1 .. m - 1 : q[i] = ptQueue[i + 1]
  <2>1. CASE q = WithoutNth(ptQueue, 1)
    <3>1. q = SubSeq(ptQueue, 1, 1 - 1) \o SubSeq(ptQueue, 1 + 1, Len(ptQueue))
      BY <2>1 DEF WithoutNth
    <3>2. 1 \in 1 .. Len(ptQueue)
      BY <1>0
    <3>3. /\ q \in Seq(1 .. Len(ptGrids)) /\ Len(q) = Len(ptQueue) - 1
          /\ \A i \in 1 .. Len(q) : q[i] = IF i < 1 THEN ptQueue[i] ELSE ptQueue[i + 1]
      <4>1. PICK S : S = 1 .. Len(ptGrids)
        OBVIOUS
      <4>2. ptQueue \in Seq(S) /\ 1 \in 1 .. Len(ptQueue)
        BY <1>0, <3>2, <4>1
      <4>3. /\ q \in Seq(S) /\ Len(q) = Len(ptQueue) - 1
            /\ \A i \in 1 .. Len(q) : q[i] = IF i < 1 THEN ptQueue[i] ELSE ptQueue[i + 1]
        BY ONLY <3>1, <4>2, WithoutOne
      <4> QED BY <4>1, <4>3
    <3> QED BY <1>m, <3>3
  <2>2. CASE q = Tail(ptQueue)
    BY <1>0, <1>m, <2>2, HeadTailProperties
  <2> QED BY <2>1, <2>2
<1>2. ptQueue[1] \in 1 .. Len(ptGrids) /\ Head(ptQueue) = ptQueue[1]
  <2>1. 1 \in 1 .. Len(ptQueue) /\ Head(ptQueue) = ptQueue[1]
    BY <1>0
  <2> QED BY <1>0, <2>1, ElementOfSeq
<1>3. \A i \in 1 .. m - 1 : i + 1 \in 1 .. m /\ 1 \in 1 .. m /\ 1 <= i + 1
  BY <1>m
<1>4. ASSUME NEW i \in 1 .. m - 1, NEW j \in 1 .. m - 1, i <= j PROVE q[i] <= q[j]
  <2>1. i + 1 \in 1 .. Len(ptQueue) /\ j + 1 \in 1 .. Len(ptQueue) /\ i + 1 <= j + 1
    BY <1>4, <1>m
  <2>2. ptQueue[i + 1] <= ptQueue[j + 1]
    BY <2>1 DEF QueueAscends
  <2> QED BY <1>1, <2>2
<1>5. \A i \in 1 .. m - 1 : ptQueue[1] <= q[i] /\ ptCount <= q[i] /\ ptLast <= q[i]
  BY <1>1, <1>3, <1>m DEF QueueAscends, QueueIsAhead
<1>6. m - 1 > 0 => q[m - 1] = ptQueue[m]
  BY <1>1, <1>m
<1> QED BY <1>1, <1>2, <1>4, <1>5, <1>6, <1>m

LEMMA AnswerKeeps ==
    ASSUME PtInv, Recomposed \/ RecomposeRejected
    PROVE  PtInv' /\ ~ImageShrinks
<1>0. /\ PtTypeOK /\ ptLast \in 0 .. Len(ptGrids) /\ LoadedInv /\ TailInv /\ ptPhase = "loaded"
      /\ ptQueue # <<>> /\ ptQueue \in Seq(1 .. Len(ptGrids)) /\ Len(ptGrids) \in Nat
      /\ ptCount \in 0 .. Len(ptGrids)
  BY DEF PtInv, PtTypeOK, Recomposed, RecomposeRejected
<1>1. /\ ptLayer' = ptLayer /\ ptGrids' = ptGrids /\ ptPreview' = ptPreview /\ ptTimer' = ptTimer
      /\ ptAborted' = ptAborted /\ ptTail' = ptTail /\ ptPhase' = ptPhase /\ ptFrame' = ptFrame
  BY DEF Recomposed, RecomposeRejected
<1>n. PICK n \in Nat : n = Len(ptGrids)
  BY <1>0
<1>b. BeforeInv' /\ TailInv'
  BY <1>0, <1>1, PhasesDiffer DEF BeforeInv, TailInv, AllSettled
<1>q. PICK q : q = ptQueue' /\ q \in {WithoutNth(ptQueue, 1), Tail(ptQueue)}
  BY DEF Recomposed, RecomposeRejected, NextAnswered
<1>2. CASE ptAborted
  <2>1. ptQueue' \in Seq(1 .. Len(ptGrids)) /\ ptQueue[1] \in 1 .. Len(ptGrids) /\ Head(ptQueue) = ptQueue[1]
    <3>1. 1 \in 1 .. Len(ptQueue) /\ Head(ptQueue) = ptQueue[1]
      BY <1>0
    <3>2. ptQueue[1] \in 1 .. Len(ptGrids)
      BY <1>0, <3>1, ElementOfSeq
    <3>3. CASE q = WithoutNth(ptQueue, 1)
      <4>1. q = SubSeq(ptQueue, 1, 1 - 1) \o SubSeq(ptQueue, 1 + 1, Len(ptQueue))
        BY <3>3 DEF WithoutNth
      <4>2. q \in Seq(1 .. Len(ptGrids))
        <5>1. PICK S : S = 1 .. Len(ptGrids)
          OBVIOUS
        <5>2. ptQueue \in Seq(S) /\ 1 \in 1 .. Len(ptQueue)
          BY <1>0, <3>1, <5>1
        <5>3. q \in Seq(S)
          BY ONLY <4>1, <5>2, WithoutOne
        <5> QED BY <5>1, <5>3
      <4> QED BY <1>q, <3>1, <3>2, <4>2
    <3>4. CASE q = Tail(ptQueue)
      BY <1>0, <1>q, <3>1, <3>2, <3>4, HeadTailProperties
    <3> QED BY <1>q, <3>3, <3>4
  <2>2. ptCount' = ptCount /\ ptImage' = ptImage
    BY <1>2 DEF Recomposed, RecomposeRejected
  <2>3. ptLast' \in 0 .. Len(ptGrids')
    <3>1. ptLast' \in {ptLast, Head(ptQueue)}
      BY DEF Recomposed, RecomposeRejected
    <3> QED BY <1>0, <1>1, <2>1, <3>1
  <2>4. PtTypeOK' /\ ~ImageShrinks
    BY <1>0, <1>1, <2>1, <2>2 DEF PtTypeOK, ImageShrinks
  <2> QED BY <1>1, <1>2, <1>b, <2>3, <2>4 DEF PtInv, LoadedInv
<1>3. CASE ~ptAborted
  <2>0. QueueAscends /\ QueueIsAhead /\ ShownIsCounted /\ NewestIsAsked /\ EmptyIsClear
    BY <1>0, <1>3 DEF LoadedInv
  <2>1. /\ q \in Seq(1 .. Len(ptGrids)) /\ Len(q) = Len(ptQueue) - 1
        /\ \A i \in 1 .. Len(q) : q[i] = ptQueue[i + 1]
        /\ ptQueue[1] \in 1 .. Len(ptGrids) /\ Head(ptQueue) = ptQueue[1]
        /\ \A i, j \in 1 .. Len(q) : i <= j => q[i] <= q[j]
        /\ \A i \in 1 .. Len(q) : ptQueue[1] <= q[i] /\ ptCount <= q[i] /\ ptLast <= q[i]
        /\ Len(q) > 0 => q[Len(q)] = ptQueue[Len(ptQueue)]
        /\ Len(q) = 0 => Len(ptQueue) = 1
    BY <1>0, <1>q, <2>0, AnsweredQueue
  <2>2. PICK h \in 1 .. n : h = ptQueue[1] /\ h = Head(ptQueue)
    BY <1>n, <2>1
  <2>3. ptCount <= h /\ ptLast <= h
    <3>1. 1 \in 1 .. Len(ptQueue)
      BY <1>0
    <3> QED BY <2>0, <2>2, <3>1 DEF QueueIsAhead
  <2>a. QueueAscends'
    BY <1>q, <2>1 DEF QueueAscends
  <2>g. ptGrids # <<>>
    BY <1>0, <1>n, <2>2
  <2>e. EmptyIsClear'
    BY <1>1, <2>g DEF EmptyIsClear
  <2>l. ptQueue' # <<>> \/ ptQueue[Len(ptQueue)] = h
    <3>1. Len(q) = 0 => ptQueue[Len(ptQueue)] = h
      BY <2>1, <2>2
    <3> QED BY <1>q, <2>1, <3>1
  <2>m. ptQueue' # <<>> => ptQueue'[Len(ptQueue')] = ptQueue[Len(ptQueue)]
    BY <1>q, <2>1
  <2>4. CASE Recomposed
    <3>1. ptCount' = h /\ ptImage' = Landed(h) /\ ptLast' = ptLast
      BY <1>3, <2>2, <2>4 DEF Recomposed, NextAnswered
    <3>2. Landed(h) \subseteq TileLayers /\ Composite(Landed(h))
      BY <1>0, <1>n, LandedLayers
    <3>3. PtTypeOK'
      <4>1. h \in 0 .. Len(ptGrids)
        BY <1>n
      <4> QED BY <1>0, <1>1, <1>q, <2>1, <3>1, <3>2, <4>1 DEF PtTypeOK
    <3>4. ~ImageShrinks
      <4>1. CASE ptCount = 0
        BY <2>0, <4>1, PlainImages DEF ImageShrinks, ShownIsCounted
      <4>2. CASE ptCount # 0
        <5>1. Landed(ptCount) \subseteq Landed(h)
          BY <1>0, <2>3 DEF Landed
        <5> QED BY <2>0, <3>1, <3>2, <4>2, <5>1 DEF ImageShrinks, ShownIsCounted, Composite
      <4> QED BY <4>1, <4>2
    <3>5. QueueIsAhead'
      BY <1>q, <2>1, <2>2, <3>1 DEF QueueIsAhead
    <3>6. ShownIsCounted'
      BY <1>1, <3>1 DEF ShownIsCounted, Landed
    <3>7. NewestIsAsked'
      <4>1. CASE ptFrame
        BY <1>1, <4>1 DEF NewestIsAsked
      <4>2. CASE ptCount = Len(ptGrids)
        <5>1. h = n
          BY <1>n, <2>3, <4>2
        <5> QED BY <1>1, <1>n, <3>1, <5>1 DEF NewestIsAsked
      <4>3. CASE ptLast = Len(ptGrids)
        BY <1>1, <3>1, <4>3 DEF NewestIsAsked
      <4>4. CASE ptQueue[Len(ptQueue)] = Len(ptGrids)
        <5>1. CASE ptQueue' # <<>>
          BY <1>1, <2>m, <4>4, <5>1 DEF NewestIsAsked
        <5>2. CASE ptQueue' = <<>>
          <6>1. ptCount' = Len(ptGrids')
            BY <1>1, <2>l, <3>1, <4>4, <5>2
          <6> QED BY <6>1 DEF NewestIsAsked
        <5> QED BY <5>1, <5>2
      <4> QED BY <2>0, <4>1, <4>2, <4>3, <4>4 DEF NewestIsAsked
    <3> QED BY <1>0, <1>1, <1>b, <2>a, <2>e, <3>1, <3>3, <3>4, <3>5, <3>6, <3>7 DEF PtInv, LoadedInv
  <2>5. CASE RecomposeRejected
    <3>1. ptCount' = ptCount /\ ptImage' = ptImage /\ ptLast' = h
      BY <2>2, <2>5 DEF RecomposeRejected
    <3>3. PtTypeOK' /\ ~ImageShrinks
      BY <1>0, <1>1, <1>q, <2>1, <3>1 DEF PtTypeOK, ImageShrinks
    <3>5. QueueIsAhead'
      BY <1>q, <2>1, <2>2, <3>1 DEF QueueIsAhead
    <3>6. ShownIsCounted'
      BY <1>1, <2>0, <3>1 DEF ShownIsCounted, Landed
    <3>7. NewestIsAsked'
      <4>1. CASE ptFrame \/ ptCount = Len(ptGrids)
        BY <1>1, <3>1, <4>1 DEF NewestIsAsked
      <4>3. CASE ptLast = Len(ptGrids)
        <5>1. h = n
          BY <1>n, <2>3, <4>3
        <5> QED BY <1>1, <1>n, <3>1, <5>1 DEF NewestIsAsked
      <4>4. CASE ptQueue[Len(ptQueue)] = Len(ptGrids)
        <5>1. CASE ptQueue' # <<>>
          BY <1>1, <2>m, <4>4, <5>1 DEF NewestIsAsked
        <5>2. CASE ptQueue' = <<>>
          <6>1. ptLast' = Len(ptGrids')
            BY <1>1, <2>l, <3>1, <4>4, <5>2
          <6> QED BY <6>1 DEF NewestIsAsked
        <5> QED BY <5>1, <5>2
      <4> QED BY <2>0, <4>1, <4>3, <4>4 DEF NewestIsAsked
    <3>8. ptLast' \in 0 .. Len(ptGrids')
      BY <1>1, <1>n, <3>1
    <3> QED BY <1>b, <2>a, <2>e, <3>3, <3>5, <3>6, <3>7, <3>8 DEF PtInv, LoadedInv
  <2> QED BY <2>4, <2>5
<1> QED BY <1>2, <1>3

LEMMA PtInitInv == PtInit => PtInv
<1> SUFFICES ASSUME PtInit PROVE PtInv
  OBVIOUS
<1> USE DEF PtInit
<1>0. Len(ptGrids) = 0 /\ Len(ptQueue) = 0 /\ ptGrids \in Seq(TileLayers)
  OBVIOUS
<1>1. PtTypeOK
  <2>1. ptPhase \in PtWaits /\ ptQueue \in Seq(1 .. Len(ptGrids)) /\ ptCount \in 0 .. Len(ptGrids)
    BY <1>0 DEF PtWaits
  <2> QED BY <1>0, <2>1 DEF PtTypeOK
<1>2. BeforeInv
  BY PhasesDiffer DEF BeforeInv
<1>3. LoadedInv /\ TailInv
  BY DEF LoadedInv, TailInv
<1>4. ptLast \in 0 .. Len(ptGrids)
  BY <1>0
<1> QED BY <1>1, <1>2, <1>3, <1>4 DEF PtInv

LEMMA PtStepInv ==
    PtInv /\ [PtNext]_ptVars => PtInv' /\ ~ImageShrinks /\ (UNCHANGED ptVars \/ ~Downgrades)
<1> SUFFICES ASSUME PtInv, [PtNext]_ptVars
             PROVE  PtInv' /\ ~ImageShrinks /\ (UNCHANGED ptVars \/ ~Downgrades)
  OBVIOUS
<1>0. ptTimer \subseteq PtTimers /\ ptPreview \in {"none", "fetching", "composing", "ready", "dropped"}
  BY DEF PtInv, PtTypeOK
<1>r. ptPhase' = ptPhase \/ ptPhase \notin PtWaits => ~Downgrades
  BY PhasesDiffer DEF Downgrades
<1>1. CASE \E l \in TileLayers : LayerFetched(l) \/ LayerCut(l)
  <2>1. PICK l \in TileLayers, how \in {"grid", "empty", "error", "cut"} : SettleLayer(l, how)
    BY <1>1 DEF LayerFetched, LayerCut
  <2>2. ptPhase' = ptPhase
    BY <2>1 DEF SettleLayer
  <2> QED BY <1>r, <2>1, <2>2, SettleKeeps
<1>2. CASE AncestorsFetched \/ AncestorsComposed \/ (\E t \in PtTimers : TimerFires(t))
           \/ FallbackChanges \/ AbortTile
  <2>1. /\ UNCHANGED <<ptLayer, ptGrids, ptTail, ptImage, ptCount, ptFrame, ptQueue, ptLast>>
        /\ ptPhase' = ptPhase /\ ptTimer' \subseteq PtTimers
        /\ ptAborted => ptAborted'
        /\ ptPreview' \in {"none", "fetching", "composing", "ready", "dropped"}
    <3>1. CASE AncestorsFetched
      BY <1>0, <3>1 DEF AncestorsFetched
    <3>2. CASE AncestorsComposed
      BY <1>0, <3>2 DEF AncestorsComposed
    <3>3. CASE \E t \in PtTimers : TimerFires(t)
      BY <1>0, <3>3 DEF TimerFires
    <3>4. CASE FallbackChanges
      BY <1>0, <3>4 DEF FallbackChanges
    <3>5. CASE AbortTile
      BY <1>0, <3>5 DEF AbortTile
    <3> QED BY <1>2, <3>1, <3>2, <3>3, <3>4, <3>5
  <2> QED BY <1>r, <2>1, QuietKeeps
<1>3. CASE EndRace \/ EndHold \/ EndSlow \/ EndDrop \/ EndHoldPartial
  BY <1>3, WaitsKeep
<1>4. CASE ResolveTile
  BY <1>4, <1>r, ResolveKeeps, PhasesDiffer DEF ResolveTile
<1>5. CASE FirstComposed \/ FirstRejected
  <2>1. ptPhase \notin PtWaits
    BY <1>5, PhasesDiffer DEF FirstComposed, FirstRejected
  <2> QED BY <1>5, <1>r, <2>1, FirstKeeps
<1>6. CASE RecomposeFrame
  BY <1>6, <1>r, FrameKeeps DEF RecomposeFrame
<1>7. CASE Recomposed \/ RecomposeRejected
  <2>1. ptPhase' = ptPhase
    BY <1>7 DEF Recomposed, RecomposeRejected
  <2> QED BY <1>7, <1>r, <2>1, AnswerKeeps
<1>8. CASE UNCHANGED ptVars
  <2>1. UNCHANGED <<ptLayer, ptGrids, ptTail, ptImage, ptCount, ptFrame, ptQueue, ptLast>>
        /\ ptPhase' = ptPhase /\ ptTimer' = ptTimer /\ ptAborted' = ptAborted /\ ptPreview' = ptPreview
    BY <1>8 DEF ptVars
  <2> QED BY <1>0, <1>8, <2>1, QuietKeeps
<1> QED BY <1>1, <1>2, <1>3, <1>4, <1>5, <1>6, <1>7, <1>8 DEF PtNext, LoadStep, ComposeStep

LEMMA PtAlways == PtSpec => []PtInv
<1>1. PtInv /\ [PtNext]_ptVars => PtInv'
  BY PtStepInv
<1> QED BY <1>1, PtInitInv, PTL DEF PtSpec

\* The types of the tile loader's state (tile-loader.ts: the locals of
\* loadTileProgressively).
THEOREM TileTypesHold == PtSpec => []PtTypeOK
<1>1. PtInv => PtTypeOK
  BY DEF PtInv
<1> QED BY <1>1, PtAlways, PTL

\* A tile that resolved early ends at the exact sum of what landed, or clear
\* when nothing did, unless the compose of all of it was rejected; and as long
\* as it is incomplete its fetches can be cancelled (recomposeSoon, tails).
THEOREM TileAlwaysConverges == PtSpec => []TileConverges
<1>1. PtInv => TileConverges
  <2> SUFFICES ASSUME PtInv PROVE TileConverges
    OBVIOUS
  <2>0. ptGrids \in Seq(TileLayers) /\ ptCount \in 0 .. Len(ptGrids) /\ LoadedInv /\ TailInv
    BY DEF PtInv, PtTypeOK
  <2>1. TailIsReachable
    BY <2>0 DEF TailInv, TailIsReachable
  <2>2. ASSUME TileQuiet, ~ptAborted, ptGrids # <<>>
        PROVE  ptImage = Landed(Len(ptGrids)) \/ ptLast = Len(ptGrids)
    <3>1. ptCount = Len(ptGrids) \/ ptLast = Len(ptGrids)
      BY <2>0, <2>2 DEF TileQuiet, LoadedInv, NewestIsAsked
    <3>2. ptCount = Len(ptGrids) => ptCount # 0
      BY <2>0, <2>2
    <3>3. ptCount # 0 => ptImage = Landed(ptCount)
      BY <2>0, <2>2 DEF TileQuiet, LoadedInv, ShownIsCounted
    <3> QED BY <3>1, <3>2, <3>3
  <2>3. ASSUME TileQuiet, ~ptAborted, ptGrids = <<>> PROVE ptImage = Clear
    BY <2>0, <2>3 DEF TileQuiet, LoadedInv, EmptyIsClear
  <2> QED BY <2>1, <2>2, <2>3 DEF TileConverges, ConvergesToSum
<1> QED BY <1>1, PtAlways, PTL

\* What a tile shows only grows, and a tile under a sharper ancestor is not
\* replaced by less before it waited for the complete set, however composes,
\* settling layers, timers and aborts interleave (loadTileProgressively).
THEOREM ImageNeverDegraded == PtSpec => ImageIsNotDegraded
<1>1. PtInv /\ [PtNext]_ptVars => [~ImageShrinks]_ptVars /\ [~Downgrades]_ptVars
  BY PtStepInv
<1> QED BY <1>1, PtAlways, PTL DEF PtSpec, ImageIsNotDegraded, ImageOnlyGrows, NoEarlyDowngrade

-----------------------------------------------------------------------------
(* The composition: every step of it is a step of each part or leaves the  *)
(* part alone.                                                             *)

LEMMA ServerInitParts ==
    ServerInit => Init /\ RlInit /\ SsInit /\ PtInit /\ RdInit /\ ArInit /\ RtInit
BY DEF ServerInit

LEMMA ServerSteps ==
    [ServerNext]_ServerVars => /\ [Next]_vars /\ [RlNext]_rlVars /\ [SsNext]_ssVars /\ [PtNext]_ptVars
                               /\ [RdNext]_rdVars /\ [ArNext]_arVars /\ [RtNext]_rtVars
<1> SUFFICES ASSUME [ServerNext]_ServerVars
             PROVE  /\ [Next]_vars /\ [RlNext]_rlVars /\ [SsNext]_ssVars /\ [PtNext]_ptVars
                    /\ [RdNext]_rdVars /\ [ArNext]_arVars /\ [RtNext]_rtVars
  OBVIOUS
<1>1. CASE UNCHANGED ServerVars
  BY <1>1, Zenon DEF ServerVars
<1>2. CASE ServerNext
  BY <1>2, Zenon DEF ServerNext
<1> QED BY <1>1, <1>2

\* What publishes, serves and loads the map behaves as each of its parts.
LEMMA ServerIsItsParts ==
    ServerSpec => Spec /\ RlSpec /\ SsSpec /\ PtSpec /\ RdSpec /\ ArSpec /\ RtSpec
BY ServerInitParts, ServerSteps, PTL DEF ServerSpec, Spec, RlSpec, SsSpec, PtSpec, RdSpec, ArSpec, RtSpec

\* Every component's variables have their types, in every state of the whole.
THEOREM ServerTypesHold == ServerSpec => []TypesHold
<1>1. TypeOK /\ RlTypeOK /\ SsTypeOK /\ PtTypeOK /\ RdTypeOK /\ ArTypeOK /\ (RtTypeOK /\ RastersAreBounded /\ NoWallsLost)
          => TypesHold
  BY DEF TypesHold
<1> QED BY <1>1, ServerIsItsParts, Types, ReleaseTypesHold, StayTypesHold, TileTypesHold, ReadyTypesHold,
           ArchiveTypesHold, RastersAlwaysBounded, PTL

\* Every descriptor is closed, no rejected read sticks, the rasters are bounded
\* and no walls are lost, however requests, failures and replacements meet.
THEOREM CachesAlwaysSound == ServerSpec => []CachesAreSound
<1>1. ArInv => FailuresDoNotStick
  BY DEF ArInv
<1>2. HandlesAreClosed /\ FailuresDoNotStick /\ (RtTypeOK /\ RastersAreBounded /\ NoWallsLost) => CachesAreSound
  BY DEF CachesAreSound
<1> QED BY <1>1, <1>2, ServerIsItsParts, HandlesAlways, ArAlways, RastersAlwaysBounded, PTL

\* No cache gives an answer that was not true of a recent moment, and none takes
\* a sound instance from those who share it.
THEOREM CachesAlwaysHonest == ServerSpec => CachesAreHonest
BY ServerIsItsParts, ReadinessAlwaysHonest, OnlyTheFailedGo, PTL DEF CachesAreHonest
=============================================================================
