-------------------------- MODULE ProgressiveTile --------------------------
(***************************************************************************)
(* loadTileProgressively: one heatmap tile that is summed from several     *)
(* layers, from the call to the end of its progressive tail, with the      *)
(* ancestor preview, deck's own cached fallback, the worker that composes  *)
(* images in the order they are asked for, and aborts.                     *)
(*                                                                         *)
(* An image is named by what it was composed from: a set of layers,        *)
(* Preview, or Clear (transparent).                                        *)
(***************************************************************************)
EXTENDS Naturals, Sequences

CONSTANTS
    TileLayers,     \* the sources of the tile
    HasPreview,     \* whether the call has a previewSpec
    MaxRejects,     \* bound: composes the worker rejects
    Preview, Clear, NoImage

ASSUME TileAssumption ==
    \A image \in {Preview, Clear, NoImage}, layers \in SUBSET TileLayers : image # layers

VARIABLES
    ptPhase,        \* where the call is
    ptLayer,        \* each layer's fetch: flying, grid, empty, error, cut
    ptGrids,        \* the layers that landed, in that order
    ptPreview,      \* none, fetching, composing, ready or dropped
    ptCut,          \* previewCtl is aborted
    ptTimer,        \* which of the timers have fired
    ptFallback,     \* deck has a sharper cached ancestor to paint
    ptAborted,      \* ctl is aborted
    ptTail,         \* the abort of the tail is registered in tails
    ptImage,        \* what the tile shows once resolved, or NoImage
    ptCount,        \* composedCount
    ptFrame,        \* an animation frame is scheduled
    ptQueue,        \* the lengths of the composes in flight
    ptLast,         \* the last length whose compose was rejected
    ptRejects

ptVars == <<ptPhase, ptLayer, ptGrids, ptPreview, ptCut, ptTimer, ptFallback, ptAborted,
            ptTail, ptImage, ptCount, ptFrame, ptQueue, ptLast, ptRejects>>

PtTimers == {"early", "grace", "hold"}
PtWaits == {"race", "hold", "slow", "drop", "holdPartial"}
PtComposing == {"composeAll", "composePart"}
PtEnded == {"empty", "failed", "aborted"}

PtInit ==
    /\ ptPhase = "race"
    /\ ptLayer = [l \in TileLayers |-> "flying"]
    /\ ptGrids = <<>>
    /\ ptPreview = IF HasPreview THEN "fetching" ELSE "none"
    /\ ptCut = FALSE
    /\ ptTimer = {}
    /\ ptFallback \in BOOLEAN
    /\ ptAborted = FALSE
    /\ ptTail = FALSE
    /\ ptImage = NoImage
    /\ ptCount = 0
    /\ ptFrame = FALSE
    /\ ptQueue = <<>>
    /\ ptLast = 0
    /\ ptRejects = 0

AllSettled == \A l \in TileLayers : ptLayer[l] # "flying"
Landed(n) == {ptGrids[i] : i \in 1 .. n}

PreviewWins == "grace" \in ptTimer /\ ptPreview = "ready"

-----------------------------------------------------------------------------
(* The world: fetches, timers, deck, the preview.                          *)

\* Mutant: the first layer to settle takes the tail out of the registry.
SettleDropsTail(l, how) ==
    /\ ptLayer[l] = "flying"
    /\ ptLayer' = [ptLayer EXCEPT ![l] = how]
    /\ ptGrids' = IF how = "grid" THEN Append(ptGrids, l) ELSE ptGrids
    /\ ptCut' = (ptCut \/ how = "grid")
    /\ ptFrame' = (ptFrame \/ ptPhase = "loaded")
    /\ ptTail' = FALSE
    /\ UNCHANGED <<ptPhase, ptPreview, ptTimer, ptFallback, ptAborted, ptImage, ptCount, ptQueue, ptLast, ptRejects>>

\* A layer settles; once the tile has resolved, that asks for a frame.
SettleLayer(l, how) ==
    /\ ptLayer[l] = "flying"
    /\ ptLayer' = [ptLayer EXCEPT ![l] = how]
    /\ ptGrids' = IF how = "grid" THEN Append(ptGrids, l) ELSE ptGrids
    /\ ptCut' = (ptCut \/ how = "grid")
    /\ ptFrame' = (ptFrame \/ ptPhase = "loaded")
    /\ ptTail' = (ptTail /\ \E k \in TileLayers \ {l} : ptLayer[k] = "flying")
    /\ UNCHANGED <<ptPhase, ptPreview, ptTimer, ptFallback, ptAborted, ptImage, ptCount, ptQueue, ptLast, ptRejects>>

LayerFetched(l) == ~ptAborted /\ \E how \in {"grid", "empty", "error"} : SettleLayer(l, how)

\* An aborted fetch rejects, and is no hard error.
LayerCut(l) == ptAborted /\ SettleLayer(l, "cut")

\* The ancestors arrived: nothing to show, cancelled, or off to the worker.
AncestorsFetched ==
    /\ ptPreview = "fetching"
    /\ ptPreview' \in IF ptCut THEN {"none"} ELSE {"none", "composing"}
    /\ UNCHANGED <<ptPhase, ptLayer, ptGrids, ptCut, ptTimer, ptFallback, ptAborted, ptTail, ptImage,
                   ptCount, ptFrame, ptQueue, ptLast, ptRejects>>

AncestorsComposed ==
    /\ ptPreview = "composing"
    /\ ptPreview' \in {"ready", "none"}
    /\ UNCHANGED <<ptPhase, ptLayer, ptGrids, ptCut, ptTimer, ptFallback, ptAborted, ptTail, ptImage,
                   ptCount, ptFrame, ptQueue, ptLast, ptRejects>>

\* A timer that something waits for; the hold is started anew by each wait.
TimerFires(t) ==
    /\ t \notin ptTimer
    /\ ptPhase \in (IF t = "hold" THEN {"hold", "holdPartial"} ELSE PtWaits)
    /\ ptTimer' = ptTimer \cup {t}
    /\ UNCHANGED <<ptPhase, ptLayer, ptGrids, ptPreview, ptCut, ptFallback, ptAborted, ptTail, ptImage,
                   ptCount, ptFrame, ptQueue, ptLast, ptRejects>>

\* deck's session cache changes under the tile.
FallbackChanges ==
    /\ ptPhase \in PtWaits
    /\ ptFallback' = ~ptFallback
    /\ UNCHANGED <<ptPhase, ptLayer, ptGrids, ptPreview, ptCut, ptTimer, ptAborted, ptTail, ptImage,
                   ptCount, ptFrame, ptQueue, ptLast, ptRejects>>

\* deck aborts a pending tile; onTileUnload or a layer swap a resolved one.
AbortTile ==
    /\ ~ptAborted /\ ptPhase \notin PtEnded \cup {"plain"}
    /\ ptAborted' = TRUE /\ ptCut' = TRUE
    /\ UNCHANGED <<ptPhase, ptLayer, ptGrids, ptPreview, ptTimer, ptFallback, ptTail, ptImage,
                   ptCount, ptFrame, ptQueue, ptLast, ptRejects>>

-----------------------------------------------------------------------------
(* The call.                                                               *)

MoveTo(phase) ==
    /\ ptPhase' = phase
    /\ ptTimer' = IF phase \in {"hold", "holdPartial"} THEN ptTimer \ {"hold"} ELSE ptTimer
    /\ UNCHANGED <<ptLayer, ptGrids, ptCut, ptFallback, ptAborted, ptTail, ptImage, ptCount, ptFrame, ptQueue,
                   ptLast, ptRejects>>

EndRace ==
    /\ ptPhase = "race"
    /\ AllSettled \/ "early" \in ptTimer \/ PreviewWins
    /\ MoveTo(IF AllSettled THEN "resolve" ELSE IF ptFallback THEN "hold" ELSE "slow")
    /\ UNCHANGED ptPreview

\* Mutant: the wait for the complete set is not bounded.
EndHoldUnbounded == ptPhase = "hold" /\ AllSettled /\ MoveTo("resolve") /\ UNCHANGED ptPreview

EndHold ==
    /\ ptPhase = "hold"
    /\ AllSettled \/ "hold" \in ptTimer
    /\ MoveTo(IF AllSettled THEN "resolve" ELSE "slow")
    /\ UNCHANGED ptPreview

\* Mutant: whatever landed is painted over deck's sharper ancestor.
EndSlowAtOnce ==
    /\ ptPhase = "slow"
    /\ AllSettled \/ PreviewWins \/ ptGrids # <<>>
    /\ MoveTo("resolve")
    /\ UNCHANGED ptPreview

\* Mutant: only something to show ends the wait.
EndSlowForData ==
    /\ ptPhase = "slow"
    /\ PreviewWins \/ ptGrids # <<>>
    /\ MoveTo("resolve")
    /\ UNCHANGED ptPreview

\* Something to show arrived, or nothing will: a preview gives way to deck's
\* fallback, a partial sum waits for the rest a while longer.
EndSlow ==
    /\ ptPhase = "slow"
    /\ AllSettled \/ PreviewWins \/ ptGrids # <<>>
    /\ IF ~AllSettled /\ ptGrids = <<>> /\ ptPreview = "ready" /\ ptFallback
       THEN MoveTo("drop") /\ ptPreview' = "dropped"
       ELSE /\ MoveTo(IF ~AllSettled /\ ptGrids # <<>> /\ ptFallback THEN "holdPartial" ELSE "resolve")
            /\ UNCHANGED ptPreview

EndDrop ==
    /\ ptPhase = "drop"
    /\ AllSettled \/ ptGrids # <<>>
    /\ MoveTo(IF ~AllSettled /\ ptGrids # <<>> /\ ptFallback THEN "holdPartial" ELSE "resolve")
    /\ UNCHANGED ptPreview

EndHoldPartial ==
    /\ ptPhase = "holdPartial"
    /\ AllSettled \/ "hold" \in ptTimer
    /\ MoveTo("resolve")
    /\ UNCHANGED ptPreview

HardErrors == {l \in TileLayers : ptLayer[l] = "error"}

\* Past the races.  A complete set becomes a plain tile, and no data at all an
\* empty tile or, when every layer failed, an error; a partial one a tile with
\* a tail.
ResolveComplete ==
    /\ AllSettled
    /\ ptCut' = TRUE
    /\ ptPhase' = IF ptGrids # <<>> THEN "composeAll" ELSE IF HardErrors = TileLayers THEN "failed" ELSE "empty"
    /\ ptQueue' = IF ptGrids # <<>> THEN <<Len(ptGrids)>> ELSE <<>>
    /\ UNCHANGED <<ptTail, ptImage, ptCount, ptFrame>>

ResolvePartial ==
    /\ ~AllSettled
    /\ ptTail' = TRUE
    /\ ptCount' = Len(ptGrids)
    /\ IF ptGrids # <<>>
       THEN ptPhase' = "composePart" /\ ptQueue' = <<Len(ptGrids)>> /\ UNCHANGED <<ptImage, ptFrame>>
       ELSE /\ ptPhase' = "loaded" /\ UNCHANGED ptQueue
            /\ ptImage' = IF ptPreview = "ready" THEN Preview ELSE Clear
            /\ ptFrame' = \E l \in TileLayers : ptLayer[l] # "flying"
    /\ UNCHANGED ptCut

ResolveTile ==
    /\ ptPhase = "resolve"
    /\ IF ptAborted
       THEN ptPhase' = "aborted" /\ UNCHANGED <<ptTail, ptImage, ptCount, ptFrame, ptQueue, ptCut>>
       ELSE ResolveComplete \/ ResolvePartial
    /\ UNCHANGED <<ptLayer, ptGrids, ptPreview, ptTimer, ptFallback, ptAborted, ptLast, ptRejects>>

\* The compose the call itself waits for.
FirstComposed ==
    /\ ptPhase \in PtComposing
    /\ ptQueue' = <<>>
    /\ IF ptAborted THEN ptPhase' = "aborted" /\ UNCHANGED <<ptImage, ptFrame>>
       ELSE /\ ptPhase' = IF ptPhase = "composeAll" THEN "plain" ELSE "loaded"
            /\ ptImage' = Landed(Head(ptQueue))
            /\ ptFrame' = (ptPhase = "composePart")
    /\ UNCHANGED <<ptLayer, ptGrids, ptPreview, ptCut, ptTimer, ptFallback, ptAborted, ptTail, ptCount,
                   ptLast, ptRejects>>

FirstRejected ==
    /\ ptPhase \in PtComposing
    /\ ptRejects < MaxRejects
    /\ ptRejects' = ptRejects + 1
    /\ ptPhase' = "failed" /\ ptQueue' = <<>>
    /\ UNCHANGED <<ptLayer, ptGrids, ptPreview, ptCut, ptTimer, ptFallback, ptAborted, ptTail, ptImage, ptCount,
                   ptFrame, ptLast>>

-----------------------------------------------------------------------------
(* The tail.                                                               *)

\* Mutant: a preview with nothing behind it stays.
FrameKeepsPreview ==
    /\ IF ptAborted \/ Len(ptGrids) = ptCount THEN UNCHANGED <<ptQueue, ptImage, ptCut>>
       ELSE ptQueue' = Append(ptQueue, Len(ptGrids)) /\ UNCHANGED <<ptImage, ptCut>>

\* Mutant: the slice to compose ends one past the last grid.
FrameOnePast ==
    /\ IF ptAborted \/ Len(ptGrids) = ptCount THEN UNCHANGED <<ptQueue, ptImage, ptCut>>
       ELSE ptQueue' = Append(ptQueue, Len(ptGrids) + 1) /\ UNCHANGED <<ptImage, ptCut>>

\* What a frame does: ask for a compose of what has landed, or clear a
\* preview that nothing came for.
FrameWork ==
    /\ IF ptAborted THEN UNCHANGED <<ptQueue, ptImage, ptCut>>
       ELSE IF Len(ptGrids) = ptCount
       THEN IF AllSettled /\ ptGrids = <<>>
            THEN ptImage' = Clear /\ ptCut' = TRUE /\ UNCHANGED ptQueue
            ELSE UNCHANGED <<ptQueue, ptImage, ptCut>>
       ELSE ptQueue' = Append(ptQueue, Len(ptGrids)) /\ UNCHANGED <<ptImage, ptCut>>

RecomposeFrame ==
    /\ ptPhase = "loaded" /\ ptFrame
    /\ ptFrame' = FALSE
    /\ FrameWork
    /\ UNCHANGED <<ptPhase, ptLayer, ptGrids, ptPreview, ptTimer, ptFallback, ptAborted, ptTail, ptCount,
                   ptLast, ptRejects>>

\* Mutant: the worker answers in any order.
NextAnsweredAny == 1 .. Len(ptQueue)

\* The worker answers in order, also when it dies and the rest is drained.
NextAnswered == {1}

WithoutNth(q, i) == SubSeq(q, 1, i - 1) \o SubSeq(q, i + 1, Len(q))

Recomposed ==
    /\ ptPhase = "loaded" /\ ptQueue # <<>>
    /\ \E i \in NextAnswered :
         /\ ptQueue' = WithoutNth(ptQueue, i)
         /\ IF ptAborted THEN UNCHANGED <<ptCount, ptImage>>
            ELSE ptCount' = ptQueue[i] /\ ptImage' = Landed(ptQueue[i])
    /\ UNCHANGED <<ptPhase, ptLayer, ptGrids, ptPreview, ptCut, ptTimer, ptFallback, ptAborted, ptTail,
                   ptFrame, ptLast, ptRejects>>

RecomposeRejected ==
    /\ ptPhase = "loaded" /\ ptQueue # <<>>
    /\ ptRejects < MaxRejects
    /\ ptRejects' = ptRejects + 1
    /\ ptLast' = Head(ptQueue)
    /\ ptQueue' = Tail(ptQueue)
    /\ UNCHANGED <<ptPhase, ptLayer, ptGrids, ptPreview, ptCut, ptTimer, ptFallback, ptAborted, ptTail, ptImage,
                   ptCount, ptFrame>>

LoadStep == EndRace \/ EndHold \/ EndSlow \/ EndDrop \/ EndHoldPartial \/ ResolveTile
ComposeStep == FirstComposed \/ RecomposeFrame \/ Recomposed

PtNext ==
    \/ \E l \in TileLayers : LayerFetched(l) \/ LayerCut(l)
    \/ AncestorsFetched \/ AncestorsComposed
    \/ \E t \in PtTimers : TimerFires(t)
    \/ FallbackChanges \/ AbortTile
    \/ LoadStep
    \/ ComposeStep \/ FirstRejected \/ RecomposeRejected

PtSpec == PtInit /\ [][PtNext]_ptVars

\* The event loop and the worker run, timers fire and an aborted fetch rejects;
\* no other fetch has to end.
PtFairness ==
    /\ \A l \in TileLayers : WF_ptVars(LayerCut(l))
    /\ \A t \in PtTimers : WF_ptVars(TimerFires(t))
    /\ WF_ptVars(LoadStep)
    /\ WF_ptVars(ComposeStep)

PtFairSpec == PtSpec /\ PtFairness

-----------------------------------------------------------------------------
PtTypeOK ==
    /\ ptPhase \in PtWaits \cup PtComposing \cup PtEnded \cup {"resolve", "loaded", "plain"}
    /\ ptLayer \in [TileLayers -> {"flying", "grid", "empty", "error", "cut"}]
    /\ ptGrids \in Seq(TileLayers)
    /\ ptPreview \in {"none", "fetching", "composing", "ready", "dropped"}
    /\ ptTimer \subseteq PtTimers
    /\ ptQueue \in Seq(1 .. Len(ptGrids))
    /\ ptCount \in 0 .. Len(ptGrids)
    /\ ptImage \in {NoImage, Preview, Clear} \/ ptImage \subseteq TileLayers

TileQuiet == ptPhase = "loaded" /\ AllSettled /\ ~ptFrame /\ ptQueue = <<>>

\* A resolved tile whose last layer settled shows the exact sum of all that
\* landed, unless the compose of all of them was rejected, and a preview
\* never outlives the layers it stands for (recomposeSoon).
ConvergesToSum ==
    TileQuiet /\ ~ptAborted =>
        /\ ptGrids # <<>> => ptImage = Landed(Len(ptGrids)) \/ ptLast = Len(ptGrids)
        /\ ptGrids = <<>> => ptImage = Clear

Composite(image) == image \notin {NoImage, Preview, Clear}

\* A step after which what the tile shows lacks a layer it showed before.
ImageShrinks == Composite(ptImage) /\ ~(Composite(ptImage') /\ ptImage \subseteq ptImage')

\* What a tile shows only ever grows: no older compose replaces a newer one,
\* and neither preview nor silence replaces data, however composes, deaths of
\* the worker and layers interleave.
ImageOnlyGrows == [][~ImageShrinks]_ptVars

\* An incomplete tile resolves under deck's sharper ancestor, without the wait.
Downgrades ==
    /\ ptPhase \in PtWaits
    /\ ptPhase' = "resolve"
    /\ ~AllSettled
    /\ ptFallback
    /\ "hold" \notin ptTimer

\* A tile that deck covers with a sharper ancestor is replaced by a partial
\* sum or a preview only after it waited for the complete set.
NoEarlyDowngrade == [][~Downgrades]_ptVars

\* No step, early or late, makes the map worse than it was.
ImageIsNotDegraded == ImageOnlyGrows /\ NoEarlyDowngrade

\* A tail that can still change the tile can be cancelled: its fetches are
\* reachable from the registry until the last of them settles.
TailIsReachable == ptPhase = "loaded" /\ ~AllSettled => ptTail

\* A resolved tile stays under control until it is complete, and is exact then.
TileConverges == ConvergesToSum /\ TailIsReachable

\* A tile of which every layer failed is not shown as silence, which the
\* session would cache: deck is told, and fetches it again.
FailureIsNotSilence == ptPhase = "loaded" /\ HardErrors = TileLayers => ptImage # Clear

\* Once a layer has landed the tile resolves, whatever the other layers do: no
\* hanging fetch pins deck's ancestor, or deck's request slot.
DataIsShown == (ptGrids # <<>>) ~> (ptPhase \in PtEnded \cup {"plain", "loaded"})

\* An aborted load ends: none of its waits outlives its fetches.
AbortEnds == ptAborted ~> (ptPhase \in PtEnded \cup {"plain", "loaded"})
=============================================================================
