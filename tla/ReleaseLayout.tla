--------------------------- MODULE ReleaseLayout ---------------------------
(***************************************************************************)
(* server/scripts: immutable server releases.  A build publishes a release *)
(* directory, prepares it (dist.next) and prunes what no link names; an    *)
(* activation renames dist.next over dist and keeps the old target as      *)
(* dist.previous; a rollback renames dist.previous over dist.  The scripts *)
(* exclude each other by a non-blocking flock of .release.lock and may be  *)
(* killed between any two of their renames and removals.  Servers start    *)
(* from dist without the lock, and go on loading files of the release they *)
(* started from.                                                           *)
(***************************************************************************)
EXTENDS Naturals

CONSTANTS
    Releases,    \* the releases that will be built
    Servers,
    NoRelease,
    MaxCrashes   \* bound: scripts killed

ASSUME ReleaseAssumption == NoRelease \notin Releases /\ MaxCrashes \in Nat

VARIABLES
    link,        \* the release each of dist, dist.next and dist.previous names, or NoRelease
    present,     \* the release directories
    built,       \* every release published so far
    script,      \* where the script that holds the lock is
    building,    \* the release a build has published
    saved,       \* activatePreparedRelease's originalPrevious
    doomed,      \* the directories a prune has still to remove
    server,      \* the release each server runs from, or NoRelease
    since,       \* the activations begun while it runs; 2 stands for more, or a rollback
    active,      \* every release dist has named
    crashes

rlVars == <<link, present, built, script, building, saved, doomed, server, since, active, crashes>>
linkVars == <<link, active>>
serverVars == <<server, since>>

Least(a, b) == IF a < b THEN a ELSE b

Links == {"dist", "next", "previous"}

Linked == {link[l] : l \in Links} \ {NoRelease}

\* Each link that exists names a release directory: validatedReleaseLink.
LinksValid(ls) == \A l \in ls : link[l] # NoRelease => link[l] \in present

RlInit ==
    /\ link = [l \in Links |-> NoRelease]
    /\ present = {}
    /\ built = {}
    /\ script = "none"
    /\ building = NoRelease
    /\ saved = NoRelease
    /\ doomed = {}
    /\ server = [s \in Servers |-> NoRelease]
    /\ since = [s \in Servers |-> 0]
    /\ active = {}
    /\ crashes = 0

\* The servers that run learn nothing of it.
Ages(n) == since' = [s \in Servers |-> IF server[s] = NoRelease THEN 0 ELSE Least(2, since[s] + n)]

-----------------------------------------------------------------------------
(* build.mjs                                                               *)

\* The complete stage is renamed to a release.
PublishRelease(r) ==
    /\ script = "none"
    /\ r \notin built
    /\ present' = present \cup {r}
    /\ built' = built \cup {r}
    /\ building' = r
    /\ script' = "published"
    /\ UNCHANGED <<linkVars, saved, doomed, serverVars, crashes>>

\* Mutant: dist.next is linked before the stage is renamed.
PrepareAny ==
    \E r \in Releases \ built :
        /\ script = "none"
        /\ link' = [link EXCEPT !.next = r]
        /\ building' = r
        /\ script' = "prepared"
        /\ UNCHANGED <<present, built, saved, doomed, active, serverVars, crashes>>

\* prepareRelease
Prepare ==
    /\ script = "published"
    /\ link' = [link EXCEPT !.next = building]
    /\ script' = "prepared"
    /\ UNCHANGED <<present, built, building, saved, doomed, active, serverVars, crashes>>

\* Mutant: the exit handler does not ask whether the release was prepared.
FailsAfterPreparing ==
    /\ script \in {"published", "prepared"}
    /\ present' = present \ {building}
    /\ building' = NoRelease
    /\ script' = "none"
    /\ UNCHANGED <<linkVars, built, saved, doomed, serverVars, crashes>>

\* prepareRelease fails, and the exit handler removes the release.
PrepareFails ==
    /\ script = "published"
    /\ present' = present \ {building}
    /\ building' = NoRelease
    /\ script' = "none"
    /\ UNCHANGED <<linkVars, built, saved, doomed, serverVars, crashes>>

\* Mutant: a prune keeps what is active and prepared.
PruneForgetsPrevious ==
    /\ script = "prepared"
    /\ LinksValid(Links)
    /\ doomed' = present \ {link.dist, link.next}
    /\ script' = "pruning"
    /\ UNCHANGED <<linkVars, present, built, building, saved, serverVars, crashes>>

\* pruneUnusedReleases reads the three links, then the directory.
PruneStarts ==
    /\ script = "prepared"
    /\ LinksValid(Links)
    /\ doomed' = present \ Linked
    /\ script' = "pruning"
    /\ UNCHANGED <<linkVars, present, built, building, saved, serverVars, crashes>>

PruneRelease(r) ==
    /\ script = "pruning"
    /\ r \in doomed
    /\ present' = present \ {r}
    /\ doomed' = doomed \ {r}
    /\ UNCHANGED <<linkVars, built, script, building, saved, serverVars, crashes>>

\* All are removed, or a removal failed.
PruneEnds ==
    /\ script = "pruning"
    /\ script' = "none"
    /\ building' = NoRelease
    /\ doomed' = {}
    /\ UNCHANGED <<linkVars, present, built, saved, serverVars, crashes>>

-----------------------------------------------------------------------------
(* activate-build.mjs                                                      *)

\* Mutant: dist.previous is set to what is about to be activated.
SavePrepared ==
    /\ script = "none"
    /\ link.next # NoRelease
    /\ LinksValid({"next", "previous"})
    /\ saved' = link.previous
    /\ link' = [link EXCEPT !.previous = IF link.dist \notin present THEN NoRelease ELSE link.next]
    /\ script' = "activating"
    /\ Ages(1)
    /\ UNCHANGED <<present, built, building, doomed, server, active, crashes>>

\* Mutant: what was active is not kept.
SaveNothing ==
    /\ script = "none"
    /\ link.next # NoRelease
    /\ LinksValid({"next", "previous"})
    /\ saved' = link.previous
    /\ script' = "activating"
    /\ Ages(1)
    /\ UNCHANGED <<link, present, built, building, doomed, server, active, crashes>>

\* activatePreparedRelease up to its rename: dist.previous names what dist
\* names, or is removed.
SavePrevious ==
    /\ script = "none"
    /\ link.next # NoRelease
    /\ LinksValid({"next", "previous"})
    /\ saved' = link.previous
    /\ link' = [link EXCEPT !.previous = IF link.dist \in present THEN link.dist ELSE NoRelease]
    /\ script' = "activating"
    /\ Ages(1)
    /\ UNCHANGED <<present, built, building, doomed, server, active, crashes>>

\* Mutant: dist is removed before dist.next is renamed to it.
UnlinkAndRename ==
    /\ script = "activating"
    /\ IF link.dist # NoRelease
       THEN link' = [link EXCEPT !.dist = NoRelease] /\ UNCHANGED <<active, saved, script>>
       ELSE /\ link' = [link EXCEPT !.dist = link.next, !.next = NoRelease]
            /\ active' = active \cup {link.next}
            /\ saved' = NoRelease
            /\ script' = "none"
    /\ UNCHANGED <<present, built, building, doomed, serverVars, crashes>>

\* dist.next is renamed over dist.
Activate ==
    /\ script = "activating"
    /\ link' = [link EXCEPT !.dist = link.next, !.next = NoRelease]
    /\ active' = active \cup {link.next}
    /\ saved' = NoRelease
    /\ script' = "none"
    /\ UNCHANGED <<present, built, building, doomed, serverVars, crashes>>

\* The rename fails; the pointer is put back, or that fails too.
ActivateFails(recovered) ==
    /\ script = "activating"
    /\ link' = [link EXCEPT !.previous = IF recovered THEN saved ELSE @]
    /\ saved' = NoRelease
    /\ script' = "none"
    /\ UNCHANGED <<present, built, building, doomed, active, serverVars, crashes>>

\* rollbackRelease is one rename.
Rollback ==
    /\ script = "none"
    /\ link.previous # NoRelease
    /\ LinksValid({"previous"})
    /\ link.dist \in present
    /\ link' = [link EXCEPT !.dist = link.previous, !.previous = NoRelease]
    /\ Ages(2)
    /\ UNCHANGED <<present, built, script, building, saved, doomed, server, active, crashes>>

\* A kill leaves links and directories as they are and drops the lock.
Crash ==
    /\ script # "none"
    /\ crashes < MaxCrashes
    /\ crashes' = crashes + 1
    /\ script' = "none"
    /\ building' = NoRelease
    /\ saved' = NoRelease
    /\ doomed' = {}
    /\ UNCHANGED <<linkVars, present, built, serverVars>>

-----------------------------------------------------------------------------
(* start.mjs                                                               *)

\* An activation may be under way.
ServerStarts(s) ==
    /\ server[s] = NoRelease
    /\ link.dist # NoRelease
    /\ LinksValid({"dist"})
    /\ server' = [server EXCEPT ![s] = link.dist]
    /\ since' = [since EXCEPT ![s] = IF script = "activating" THEN 1 ELSE 0]
    /\ UNCHANGED <<linkVars, present, built, script, building, saved, doomed, crashes>>

ServerStops(s) ==
    /\ server[s] # NoRelease
    /\ server' = [server EXCEPT ![s] = NoRelease]
    /\ since' = [since EXCEPT ![s] = 0]
    /\ UNCHANGED <<linkVars, present, built, script, building, saved, doomed, crashes>>

-----------------------------------------------------------------------------
Build == (\E r \in Releases : PublishRelease(r) \/ PruneRelease(r)) \/ Prepare \/ PrepareFails \/ PruneStarts \/ PruneEnds

Switch == SavePrevious \/ Activate \/ (\E recovered \in BOOLEAN : ActivateFails(recovered)) \/ Rollback

RlNext ==
    \/ Build \/ Switch \/ Crash
    \/ \E s \in Servers : ServerStarts(s) \/ ServerStops(s)

RlSpec == RlInit /\ [][RlNext]_rlVars
-----------------------------------------------------------------------------
RlTypeOK ==
    /\ link \in [Links -> built \cup {NoRelease}]
    /\ present \subseteq built
    /\ built \subseteq Releases
    /\ script \in {"none", "published", "prepared", "pruning", "activating"}
    /\ building \in built \cup {NoRelease}
    /\ saved \in built \cup {NoRelease}
    /\ doomed \subseteq present
    /\ server \in [Servers -> active \cup {NoRelease}]
    /\ since \in [Servers -> 0 .. 2]
    /\ active \subseteq built
    /\ crashes \in 0 .. MaxCrashes

\* Whatever script is killed wherever, no link ever dangles: not between the
\* renames of an activation, not while a prune removes releases, not after a
\* build that failed (build.mjs, pruneUnusedReleases).
LinksResolve == LinksValid(Links)

\* Once a release is active there always is one: dist is only ever renamed
\* over (activatePreparedRelease, rollbackRelease).
DistStays == [][link.dist # NoRelease => link'.dist # NoRelease]_rlVars

\* A rollback only goes to a release that has been active, never to one that
\* was merely prepared (activatePreparedRelease, rollbackRelease).
PreviousWasActive == link.previous \in active \cup {NoRelease}

\* "Old Node processes resolve the symlink to their own immutable generation"
\* (build.mjs): builds and kills in between, a server started from dist keeps
\* its release until a second activation or a rollback begins.
ServerKeepsRelease ==
    \A s \in Servers : server[s] # NoRelease /\ since[s] < 2 => server[s] \in present

\* Builds, activations, rollbacks, prunes and kills keep what the links and the
\* running servers need.
ReleasesAreKept == LinksResolve /\ PreviousWasActive /\ ServerKeepsRelease
=============================================================================
