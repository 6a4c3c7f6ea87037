---------------------------- MODULE MCPipelines ----------------------------
(***************************************************************************)
(* The pipelines of threads, callbacks and requests in one run of TLC, for *)
(* their safety and their liveness.  They share nothing: focus names the   *)
(* one that moves and the others stay in their initial state, so that the  *)
(* states are the sum of theirs.                                           *)
(***************************************************************************)
EXTENDS SurfaceStream, PaintBatches, AirborneStream, ProgressiveTile, StaySearch, Readiness

VARIABLE focus

PipelineVars == <<suVars, pbVars, abVars, ptVars, ssVars, rdVars, focus>>

PipelinesInit ==
    /\ focus \in {"surface", "paint", "airborne", "tile", "stay", "ready"}
    /\ SuInit /\ PbInit /\ AbInit /\ PtInit /\ SsInit /\ RdInit
    /\ focus # "tile" => ~ptFallback
    /\ focus # "ready" => rdPin = 1

PipelinesNext ==
    /\ UNCHANGED focus
    /\ \/ focus = "surface" /\ SuNext /\ UNCHANGED <<pbVars, abVars, ptVars, ssVars, rdVars>>
       \/ focus = "paint" /\ PbNext /\ UNCHANGED <<suVars, abVars, ptVars, ssVars, rdVars>>
       \/ focus = "airborne" /\ AbNext /\ UNCHANGED <<suVars, pbVars, ptVars, ssVars, rdVars>>
       \/ focus = "tile" /\ PtNext /\ UNCHANGED <<suVars, pbVars, abVars, ssVars, rdVars>>
       \/ focus = "stay" /\ SsNext /\ UNCHANGED <<suVars, pbVars, abVars, ptVars, rdVars>>
       \/ focus = "ready" /\ RdNext /\ UNCHANGED <<suVars, pbVars, abVars, ptVars, ssVars>>

\* The fairness that the components state, for the one that moves.
PipelinesFairness ==
    /\ WF_suVars(focus = "surface" /\ SuProducerNext)
    /\ WF_suVars(focus = "surface" /\ SuPainterNext)
    /\ \A t \in Builders : WF_pbVars(focus = "paint" /\ Build(t)) /\ WF_pbVars(focus = "paint" /\ OfferFails(t))
    /\ WF_pbVars(focus = "paint" /\ PbPainterNext)
    /\ WF_pbVars(focus = "paint" /\ PbWriterNext)
    /\ WF_abVars(focus = "airborne" /\ ~abFatal /\ NotifyPrep)
    /\ WF_abVars(focus = "airborne" /\ ~abFatal /\ PrepNext)
    /\ \A w \in Streams : WF_abVars(focus = "airborne" /\ ~abFatal /\ WorkerNext(w))
    /\ \A l \in TileLayers : WF_ptVars(focus = "tile" /\ LayerCut(l))
    /\ \A t \in PtTimers : WF_ptVars(focus = "tile" /\ TimerFires(t))
    /\ WF_ptVars(focus = "tile" /\ LoadStep)
    /\ WF_ptVars(focus = "tile" /\ ComposeStep)
    /\ \A k \in Buckets : WF_ssVars(focus = "stay" /\ PageArrived(k))
    /\ WF_rdVars(focus = "ready" /\ FilesAnswer)
    /\ WF_rdVars(focus = "ready" /\ CheckNext)

PipelinesSpec == PipelinesInit /\ [][PipelinesNext]_PipelineVars /\ PipelinesFairness

\* Every painting pipeline's variables have their types.
TypesHold == SuTypeOK /\ PbTypeOK /\ AbTypeOK

\* Every painting pipeline ends and answers for its cells, whatever fails in it
\* (the exceptions are those of the four properties).
PipelinesEnd == StreamEnds /\ CellEnds /\ CellsAreAnswered /\ InputEndsStream

\* Every tile, every search and every readiness check comes to its end, whatever
\* fails on the way.
RequestsEnd == DataIsShown /\ AbortEnds /\ SearchesEnd /\ ChecksEnd
=============================================================================
