---------------------------- MODULE PaintBatches ----------------------------
(***************************************************************************)
(* paint_region of one cell (relevant_source_runner.rs and                 *)
(* batch_raster_lookahead.rs): builder threads prepare the batches, each   *)
(* its own share of the list behind a rendezvous channel; the painter reads *)
(* the channels round-robin and hands finished tiles to a writer thread     *)
(* over a bounded queue.  All of them live in one thread scope, which ends  *)
(* when the last thread has.  Batches count from 0, as they do in the code. *)
(***************************************************************************)
EXTENDS Naturals, Sequences

CONSTANTS
    BatchCount,     \* batches of the cell
    BuilderCount,   \* builder threads it gets, at most BUILDER_THREADS
    BatchTiles,     \* tiles times layers of a batch
    PendingWrites   \* PENDING_WRITES

ASSUME BatchesAssumption ==
    /\ {BatchCount, BuilderCount, BatchTiles, PendingWrites} \subseteq Nat \ {0}
    /\ BuilderCount <= BatchCount

Builders == 0..(BuilderCount - 1)
Tiles == (0..(BatchCount - 1)) \X (1..BatchTiles)

VARIABLES
    pbBuilder,      \* each builder: what it does, and the batch it is at
    pbPainter,      \* the painting thread
    pbIndex,        \* the batch the painter's loop is at
    pbBatch,        \* the batch it was handed
    pbTile,         \* the tile of it that comes next
    pbQueue,        \* tiles waiting for the writer
    pbWriter,       \* the writer thread
    pbWritten,      \* tiles on disk
    pbOutcome       \* what the scope returned: none, "ok", "error", "panic"

pbVars == <<pbBuilder, pbPainter, pbIndex, pbBatch, pbTile, pbQueue, pbWriter,
            pbWritten, pbOutcome>>

Builder(pc, next) == [pc |-> pc, next |-> next]

PbInit ==
    /\ pbBuilder = [t \in Builders |-> Builder("build", t)]
    /\ pbPainter = "receive"
    /\ pbIndex = 0
    /\ pbBatch = 0
    /\ pbTile = 1
    /\ pbQueue = <<>>
    /\ pbWriter = "run"
    /\ pbWritten = {}
    /\ pbOutcome = "none"

Channel == pbIndex % BuilderCount
Quiet(t) == pbBuilder[t].pc \in {"ended", "panicked"}

-----------------------------------------------------------------------------
(* The builders.                                                           *)

Build(t) ==
    /\ pbBuilder[t].pc = "build"
    /\ \E pc \in {"offer", "panicked"} : pbBuilder' = [pbBuilder EXCEPT ![t].pc = pc]
    /\ UNCHANGED <<pbPainter, pbIndex, pbBatch, pbTile, pbQueue, pbWriter, pbWritten,
                   pbOutcome>>

\* Mutant: the receivers outlive an early return.
OfferFailsAtJoin(t) ==
    /\ pbBuilder[t].pc = "offer"
    /\ pbPainter = "join"
    /\ pbBuilder' = [pbBuilder EXCEPT ![t].pc = "ended"]
    /\ UNCHANGED <<pbPainter, pbIndex, pbBatch, pbTile, pbQueue, pbWriter, pbWritten,
                   pbOutcome>>

\* The painter has dropped the receivers: the send fails and the thread returns.
OfferFails(t) ==
    /\ pbBuilder[t].pc = "offer"
    /\ pbPainter = "abandoned"
    /\ pbBuilder' = [pbBuilder EXCEPT ![t].pc = "ended"]
    /\ UNCHANGED <<pbPainter, pbIndex, pbBatch, pbTile, pbQueue, pbWriter, pbWritten,
                   pbOutcome>>

\* step_by(threads)
After(t) ==
    LET next == pbBuilder[t].next + BuilderCount
    IN  Builder(IF next < BatchCount THEN "build" ELSE "ended", next)

-----------------------------------------------------------------------------
(* The painter.                                                            *)

\* Mutant: the painter takes whichever batch is ready first.
HandoffAny(t) ==
    /\ pbPainter = "receive"
    /\ pbBuilder[t].pc = "offer"
    /\ pbBatch' = pbBuilder[t].next
    /\ pbTile' = 1
    /\ pbPainter' = "paint"
    /\ pbBuilder' = [pbBuilder EXCEPT ![t] = After(t)]
    /\ UNCHANGED <<pbIndex, pbQueue, pbWriter, pbWritten, pbOutcome>>

\* A rendezvous: the builder holds its batch until the painter is there.
Handoff(t) ==
    /\ pbPainter = "receive"
    /\ t = Channel
    /\ pbBuilder[t].pc = "offer"
    /\ pbBatch' = pbBuilder[t].next
    /\ pbTile' = 1
    /\ pbPainter' = "paint"
    /\ pbBuilder' = [pbBuilder EXCEPT ![t] = After(t)]
    /\ UNCHANGED <<pbIndex, pbQueue, pbWriter, pbWritten, pbOutcome>>

\* The builder ended before its batches did: its sender is gone.
HandoffFails ==
    /\ pbPainter = "receive"
    /\ Quiet(Channel)
    /\ pbPainter' = "abandoned"
    /\ UNCHANGED <<pbBuilder, pbIndex, pbBatch, pbTile, pbQueue, pbWriter, pbWritten,
                   pbOutcome>>

\* One tile of one layer, on the card or silent; an error returns early, which
\* drops the batch channels and the writer's sender.
PaintTile ==
    /\ pbPainter = "paint"
    /\ pbTile <= BatchTiles
    /\ pbPainter' \in {"send", "abandoned"}
    /\ UNCHANGED <<pbBuilder, pbIndex, pbBatch, pbTile, pbQueue, pbWriter, pbWritten,
                   pbOutcome>>

\* Mutant: tiles go to the writer whatever it holds.
SendTileUnbounded ==
    /\ pbPainter = "send"
    /\ pbWriter = "run"
    /\ pbQueue' = Append(pbQueue, <<pbBatch, pbTile>>)
    /\ pbTile' = pbTile + 1
    /\ pbPainter' = "paint"
    /\ UNCHANGED <<pbBuilder, pbIndex, pbBatch, pbWriter, pbWritten, pbOutcome>>

\* The tile waits for room at the writer's.
SendTile ==
    /\ pbPainter = "send"
    /\ pbWriter = "run"
    /\ Len(pbQueue) < PendingWrites
    /\ pbQueue' = Append(pbQueue, <<pbBatch, pbTile>>)
    /\ pbTile' = pbTile + 1
    /\ pbPainter' = "paint"
    /\ UNCHANGED <<pbBuilder, pbIndex, pbBatch, pbWriter, pbWritten, pbOutcome>>

\* "the tile writer thread is gone"
SendTileFails ==
    /\ pbPainter = "send"
    /\ pbWriter # "run"
    /\ pbPainter' = "abandoned"
    /\ UNCHANGED <<pbBuilder, pbIndex, pbBatch, pbTile, pbQueue, pbWriter, pbWritten,
                   pbOutcome>>

\* After the last batch the painter drops the writer's sender and joins it.
BatchPainted ==
    /\ pbPainter = "paint"
    /\ pbTile > BatchTiles
    /\ pbIndex' = pbIndex + 1
    /\ pbPainter' = IF pbIndex + 1 < BatchCount THEN "receive" ELSE "join"
    /\ UNCHANGED <<pbBuilder, pbBatch, pbTile, pbQueue, pbWriter, pbWritten, pbOutcome>>

-----------------------------------------------------------------------------
(* The writer.                                                             *)

Write ==
    /\ pbWriter = "run"
    /\ pbQueue # <<>>
    /\ pbWritten' = pbWritten \cup {Head(pbQueue)}
    /\ pbQueue' = Tail(pbQueue)
    /\ UNCHANGED <<pbBuilder, pbPainter, pbIndex, pbBatch, pbTile, pbWriter, pbOutcome>>

\* Mutant: a tile that cannot be written is skipped.
WriteSkips ==
    /\ pbWriter = "run"
    /\ pbQueue # <<>>
    /\ pbQueue' = Tail(pbQueue)
    /\ UNCHANGED <<pbBuilder, pbPainter, pbIndex, pbBatch, pbTile, pbWriter, pbWritten,
                   pbOutcome>>

\* The thread returns the error and its receiver goes with it.
WriteFails ==
    /\ pbWriter = "run"
    /\ pbQueue # <<>>
    /\ pbWriter' = "failed"
    /\ pbQueue' = <<>>
    /\ UNCHANGED <<pbBuilder, pbPainter, pbIndex, pbBatch, pbTile, pbWritten, pbOutcome>>

WriterEnds ==
    /\ pbWriter = "run"
    /\ pbQueue = <<>>
    /\ pbPainter \in {"join", "abandoned"}
    /\ pbWriter' = "ended"
    /\ UNCHANGED <<pbBuilder, pbPainter, pbIndex, pbBatch, pbTile, pbQueue, pbWritten,
                   pbOutcome>>

-----------------------------------------------------------------------------

Result ==
    IF \E t \in Builders : pbBuilder[t].pc = "panicked" THEN "panic"
    ELSE IF pbPainter = "join" /\ pbWriter = "ended" THEN "ok"
    ELSE "error"

\* Every thread of the scope has ended; a builder's panic is the scope's.
ScopeEnds ==
    /\ pbOutcome = "none"
    /\ pbPainter \in {"join", "abandoned"}
    /\ pbWriter # "run"
    /\ \A t \in Builders : Quiet(t)
    /\ pbOutcome' = Result
    /\ UNCHANGED <<pbBuilder, pbPainter, pbIndex, pbBatch, pbTile, pbQueue, pbWriter,
                   pbWritten>>

PbPainterNext ==
    \/ \E t \in Builders : Handoff(t)
    \/ HandoffFails
    \/ PaintTile
    \/ SendTile
    \/ SendTileFails
    \/ BatchPainted
    \/ ScopeEnds

PbWriterNext == Write \/ WriteFails \/ WriterEnds

PbNext ==
    \/ \E t \in Builders : Build(t) \/ OfferFails(t)
    \/ PbPainterNext
    \/ PbWriterNext

PbSpec == PbInit /\ [][PbNext]_pbVars

\* Every thread runs.
PbFairness ==
    /\ \A t \in Builders : WF_pbVars(Build(t)) /\ WF_pbVars(OfferFails(t))
    /\ WF_pbVars(PbPainterNext)
    /\ WF_pbVars(PbWriterNext)

PbFairSpec == PbSpec /\ PbFairness

-----------------------------------------------------------------------------

\* The state is well formed: no more than PendingWrites painted tiles wait.
PbTypeOK ==
    /\ pbBuilder \in [Builders -> [pc : {"build", "offer", "ended", "panicked"},
                                   next : 0..(BatchCount + BuilderCount - 1)]]
    /\ pbPainter \in {"receive", "paint", "send", "join", "abandoned"}
    /\ pbIndex \in 0..BatchCount
    /\ pbBatch \in 0..(BatchCount - 1)
    /\ pbTile \in 1..(BatchTiles + 1)
    /\ pbQueue \in Seq(Tiles) /\ Len(pbQueue) <= PendingWrites
    /\ pbWriter \in {"run", "failed", "ended"}
    /\ pbWritten \subseteq Tiles
    /\ pbOutcome \in {"none", "ok", "error", "panic"}

\* Whatever the builders do, and however many there are, the card gets the
\* batches in the order of the list.
BatchesInOrder == pbPainter \in {"paint", "send"} => pbBatch = pbIndex

\* A cell is only done with all its tiles on disk: a failed write, a failed tile
\* or a lost builder fails it.
DoneIsWritten == pbOutcome = "ok" => pbWritten = Tiles

\* What the card paints and the writer writes is the whole list, in its order.
ListIsPainted == BatchesInOrder /\ DoneIsWritten

\* However the threads fail, the cell gets an outcome: none of them waits for one
\* that is gone.
CellEnds == (\E t \in Builders : pbBuilder[t].pc # "build") ~> (pbOutcome # "none")

=============================================================================
