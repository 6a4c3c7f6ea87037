------------------------------ MODULE MCServer ------------------------------
(***************************************************************************)
(* What publishes, serves and loads the map: packs, releases, the server's *)
(* readiness, archive reader, raster tiles and stay proxy, and the         *)
(* browser's tile loader, in one run of TLC for their safety.  They share nothing: focus names the one that moves   *)
(* and the others stay in their initial state, so that the states are the  *)
(* sum of theirs.                                                          *)
(***************************************************************************)
EXTENDS PackPublication, ReleaseLayout, StaySearch, ProgressiveTile, Readiness, ArchiveReader,
        RasterTiles

VARIABLE focus

ServerVars == <<vars, rlVars, ssVars, ptVars, rdVars, arVars, rtVars, focus>>

ServerInit ==
    /\ focus \in {"pack", "release", "stay", "tile", "ready", "archive", "raster"}
    /\ Init /\ RlInit /\ SsInit /\ PtInit /\ RdInit /\ ArInit /\ RtInit
    /\ focus # "tile" => ~ptFallback
    /\ focus # "ready" => rdPin = 1

ServerNext ==
    /\ UNCHANGED focus
    /\ \/ focus = "pack" /\ Next
          /\ UNCHANGED <<rlVars, ssVars, ptVars, rdVars, arVars, rtVars>>
       \/ focus = "release" /\ RlNext
          /\ UNCHANGED <<vars, ssVars, ptVars, rdVars, arVars, rtVars>>
       \/ focus = "stay" /\ SsNext
          /\ UNCHANGED <<vars, rlVars, ptVars, rdVars, arVars, rtVars>>
       \/ focus = "tile" /\ PtNext
          /\ UNCHANGED <<vars, rlVars, ssVars, rdVars, arVars, rtVars>>
       \/ focus = "ready" /\ RdNext
          /\ UNCHANGED <<vars, rlVars, ssVars, ptVars, arVars, rtVars>>
       \/ focus = "archive" /\ ArNext
          /\ UNCHANGED <<vars, rlVars, ssVars, ptVars, rdVars, rtVars>>
       \/ focus = "raster" /\ RtNext
          /\ UNCHANGED <<vars, rlVars, ssVars, ptVars, rdVars, arVars>>

ServerSpec == ServerInit /\ [][ServerNext]_ServerVars

TwoLayers == <<"road", "total">>

\* Every component's variables have their types.
TypesHold == TypeOK /\ RlTypeOK /\ SsTypeOK /\ PtTypeOK /\ RdTypeOK /\ ArTypeOK /\ RtTypeOK

\* The server's caches, whatever requests, failures and replacements meet in
\* them: every descriptor is closed, no rejected read sticks, the rasters are
\* bounded and no walls are lost.
CachesAreSound == HandlesAreClosed /\ FailuresDoNotStick /\ RastersAreBounded /\ NoWallsLost

\* No cache gives an answer that was not true of a recent moment, and none takes
\* a sound instance from those who share it.
CachesAreHonest == ReadinessIsHonest /\ OnlyFailedGo
=============================================================================
