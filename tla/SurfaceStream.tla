--------------------------- MODULE SurfaceStream ---------------------------
(***************************************************************************)
(* The surface painter's stream (relevant_source_runner.rs): a producer    *)
(* thread reads cells, prepares them on the host and uploads them to the   *)
(* card under one of ResidentCells permits; the painter takes them from a  *)
(* channel of one, paints them and hands the permits back.                 *)
(*                                                                         *)
(* The receiver, and a sender of permits that the producer keeps itself,   *)
(* outlive the producer: the branches of the code for a closed channel are *)
(* never taken, and a blocked producer waits for a painter.                *)
(***************************************************************************)
EXTENDS Naturals, Sequences, FiniteSets

CONSTANTS
    Lines,          \* the lines of standard input that name a cell
    ResidentCells,  \* RESIDENT_CELLS
    NoLine          \* a thread that works on none

ASSUME SurfaceAssumption ==
    /\ IsFiniteSet(Lines)
    /\ ResidentCells \in Nat \ {0}
    /\ NoLine \notin Lines

VARIABLES
    suUnread,       \* lines not yet read
    suProducer,     \* the producer thread: pc and the line it works on
    suPermits,      \* permits waiting in their channel
    suChannel,      \* what the producer has sent: a line, prepared or failed
    suPainter,      \* the painting thread
    suCard,         \* cells with buffers on the card
    suPrinted,      \* what was printed of each line
    suFailures,     \* failures, as the painter counts them
    suFaults,       \* stream_faults, as the producer counts them
    suBroke,        \* history: standard input became unreadable
    suExit          \* "running", ended with a "status", or with a "panic"

suVars == <<suUnread, suProducer, suPermits, suChannel, suPainter, suCard,
            suPrinted, suFailures, suFaults, suBroke, suExit>>

Producing(pc, l) == [pc |-> pc, line |-> l]
Painting(pc, l) == [pc |-> pc, line |-> l]
Streamed(l, kind) == [line |-> l, kind |-> kind]

SuInit ==
    /\ suUnread = Lines
    /\ suProducer = Producing("read", NoLine)
    /\ suPermits = ResidentCells
    /\ suChannel = <<>>
    /\ suPainter = Painting("receive", NoLine)
    /\ suCard = {}
    /\ suPrinted = [l \in Lines |-> <<>>]
    /\ suFailures = 0
    /\ suFaults = 0
    /\ suBroke = FALSE
    /\ suExit = "running"

PrintLine(l, word) == suPrinted' = [suPrinted EXCEPT ![l] = Append(@, word)]
ProducerGone == suProducer.pc \in {"ended", "panicked"}

-----------------------------------------------------------------------------
(* The producer.                                                           *)

ReadLine(l) ==
    /\ suProducer.pc = "read"
    /\ l \in suUnread
    /\ suUnread' = suUnread \ {l}
    /\ \/ suProducer' = Producing("prepare", l)
       \/ suProducer' = Producing("sendFailed", l)      \* CellRequest::Rejected
    /\ UNCHANGED <<suPermits, suChannel, suPainter, suCard, suPrinted, suFailures,
                   suFaults, suBroke, suExit>>

\* The end of the stream, or a read error, which is a fault of no cell.
ReadEnd ==
    /\ suProducer.pc = "read"
    /\ suProducer' = Producing("ended", NoLine)
    /\ \/ suFaults' = suFaults /\ suBroke' = suBroke
       \/ suFaults' = suFaults + 1 /\ suBroke' = TRUE
    /\ UNCHANGED <<suUnread, suPermits, suChannel, suPainter, suCard, suPrinted,
                   suFailures, suExit>>

Prepare ==
    /\ suProducer.pc = "prepare"
    /\ suProducer' \in {Producing("permit", suProducer.line),
                        Producing("sendFailed", suProducer.line),
                        Producing("panicked", NoLine)}
    /\ UNCHANGED <<suUnread, suPermits, suChannel, suPainter, suCard, suPrinted,
                   suFailures, suFaults, suBroke, suExit>>

\* From here on the upload allocates on the card.
TakePermit ==
    /\ suProducer.pc = "permit"
    /\ suPermits > 0
    /\ suPermits' = suPermits - 1
    /\ suCard' = suCard \cup {suProducer.line}
    /\ suProducer' = Producing("upload", suProducer.line)
    /\ UNCHANGED <<suUnread, suChannel, suPainter, suPrinted, suFailures, suFaults,
                   suBroke, suExit>>

Upload ==
    /\ suProducer.pc = "upload"
    /\ suProducer' = Producing("sendPrepared", suProducer.line)
    /\ UNCHANGED <<suUnread, suPermits, suChannel, suPainter, suCard, suPrinted,
                   suFailures, suFaults, suBroke, suExit>>

\* Mutant: the cell that never arrives keeps its permit.
UploadKeepsPermit ==
    /\ suProducer.pc = "upload"
    /\ suCard' = suCard \ {suProducer.line}
    /\ suProducer' = Producing("sendFailed", suProducer.line)
    /\ UNCHANGED <<suUnread, suPermits, suChannel, suPainter, suPrinted, suFailures,
                   suFaults, suBroke, suExit>>

\* Mutant: the permit is handed back and the loop goes on to the next line.
UploadFailsSilently ==
    /\ suProducer.pc = "upload"
    /\ suCard' = suCard \ {suProducer.line}
    /\ suPermits' = suPermits + 1
    /\ suProducer' = Producing("read", NoLine)
    /\ UNCHANGED <<suUnread, suChannel, suPainter, suPrinted, suFailures, suFaults,
                   suBroke, suExit>>

\* The upload left nothing on the card: abandoned_permits takes the permit.
UploadFails ==
    /\ suProducer.pc = "upload"
    /\ suCard' = suCard \ {suProducer.line}
    /\ suPermits' = suPermits + 1
    /\ suProducer' = Producing("sendFailed", suProducer.line)
    /\ UNCHANGED <<suUnread, suChannel, suPainter, suPrinted, suFailures, suFaults,
                   suBroke, suExit>>

UploadPanics ==
    /\ suProducer.pc = "upload"
    /\ suCard' = suCard \ {suProducer.line}
    /\ suProducer' = Producing("panicked", NoLine)
    /\ UNCHANGED <<suUnread, suPermits, suChannel, suPainter, suPrinted, suFailures,
                   suFaults, suBroke, suExit>>

\* sync_channel(1): a send waits while one message is in it.
Send(pc, kind) ==
    /\ suProducer.pc = pc
    /\ suChannel = <<>>
    /\ suChannel' = <<Streamed(suProducer.line, kind)>>
    /\ suProducer' = Producing("read", NoLine)
    /\ UNCHANGED <<suUnread, suPermits, suPainter, suCard, suPrinted, suFailures,
                   suFaults, suBroke, suExit>>

-----------------------------------------------------------------------------
(* The painter.                                                            *)

ReceiveFailed ==
    /\ suPainter.pc = "receive"
    /\ suChannel # <<>>
    /\ Head(suChannel).kind = "failed"
    /\ suChannel' = Tail(suChannel)
    /\ PrintLine(Head(suChannel).line, "fail")
    /\ suFailures' = suFailures + 1
    /\ UNCHANGED <<suUnread, suProducer, suPermits, suPainter, suCard, suFaults,
                   suBroke, suExit>>

\* Mutant: the permit goes back when the cell leaves the channel.
ReceiveReturnsPermit ==
    /\ suPainter.pc = "receive"
    /\ suChannel # <<>>
    /\ Head(suChannel).kind = "prepared"
    /\ suChannel' = Tail(suChannel)
    /\ PrintLine(Head(suChannel).line, "start")
    /\ suPermits' = suPermits + 1
    /\ suPainter' = Painting("paint", Head(suChannel).line)
    /\ UNCHANGED <<suUnread, suProducer, suCard, suFailures, suFaults, suBroke, suExit>>

ReceivePrepared ==
    /\ suPainter.pc = "receive"
    /\ suChannel # <<>>
    /\ Head(suChannel).kind = "prepared"
    /\ suChannel' = Tail(suChannel)
    /\ PrintLine(Head(suChannel).line, "start")
    /\ suPainter' = Painting("paint", Head(suChannel).line)
    /\ UNCHANGED <<suUnread, suProducer, suPermits, suCard, suFailures, suFaults,
                   suBroke, suExit>>

\* paint_region drops the cell's buffers however it ends.
Paint ==
    /\ suPainter.pc = "paint"
    /\ suCard' = suCard \ {suPainter.line}
    /\ suPainter' \in {Painting("done", suPainter.line),
                       Painting("fail", suPainter.line),
                       Painting("panicked", NoLine)}
    /\ UNCHANGED <<suUnread, suProducer, suPermits, suChannel, suPrinted, suFailures,
                   suFaults, suBroke, suExit>>

\* Mutant: a second permit for a cell that failed.
ReportReturnsTwo ==
    /\ suPainter.pc \in {"done", "fail"}
    /\ suPermits' = suPermits + IF suPainter.pc = "fail" THEN 2 ELSE 1
    /\ PrintLine(suPainter.line, suPainter.pc)
    /\ suFailures' = suFailures + IF suPainter.pc = "fail" THEN 1 ELSE 0
    /\ suPainter' = Painting("receive", NoLine)
    /\ UNCHANGED <<suUnread, suProducer, suChannel, suCard, suFaults, suBroke, suExit>>

\* The permit goes back, then the verdict is printed.
Report ==
    /\ suPainter.pc \in {"done", "fail"}
    /\ suPermits' = suPermits + 1
    /\ PrintLine(suPainter.line, suPainter.pc)
    /\ suFailures' = suFailures + IF suPainter.pc = "fail" THEN 1 ELSE 0
    /\ suPainter' = Painting("receive", NoLine)
    /\ UNCHANGED <<suUnread, suProducer, suChannel, suCard, suFaults, suBroke, suExit>>

\* The channel is empty and its sender gone: the producer is joined, and its
\* panic is the painter's.
Drain ==
    /\ suExit = "running"
    /\ suPainter.pc = "receive"
    /\ suChannel = <<>>
    /\ ProducerGone
    /\ suExit' = IF suProducer.pc = "panicked" THEN "panic" ELSE "status"
    /\ UNCHANGED <<suUnread, suProducer, suPermits, suChannel, suPainter, suCard,
                   suPrinted, suFailures, suFaults, suBroke>>

\* thread::scope resumes the painter's panic only when the producer has ended.
ScopeUnwinds ==
    /\ suExit = "running"
    /\ suPainter.pc = "panicked"
    /\ ProducerGone
    /\ suExit' = "panic"
    /\ UNCHANGED <<suUnread, suProducer, suPermits, suChannel, suPainter, suCard,
                   suPrinted, suFailures, suFaults, suBroke>>

-----------------------------------------------------------------------------

SuProducerNext ==
    \/ \E l \in Lines : ReadLine(l)
    \/ ReadEnd
    \/ Prepare
    \/ TakePermit
    \/ Upload
    \/ UploadFails
    \/ UploadPanics
    \/ Send("sendPrepared", "prepared")
    \/ Send("sendFailed", "failed")

SuPainterNext ==
    \/ ReceiveFailed
    \/ ReceivePrepared
    \/ Paint
    \/ Report
    \/ Drain
    \/ ScopeUnwinds

SuNext == SuProducerNext \/ SuPainterNext

SuSpec == SuInit /\ [][SuNext]_suVars

\* Both threads run; whoever feeds the stream sends another line or closes it.
SuFairness ==
    /\ WF_suVars(SuProducerNext)
    /\ WF_suVars(SuPainterNext)

SuFairSpec == SuSpec /\ SuFairness

-----------------------------------------------------------------------------

\* The state is well formed: permits never outgrow their channel, and a line
\* gets a start and one verdict at most.
SuTypeOK ==
    /\ suUnread \subseteq Lines
    /\ suProducer \in [pc : {"read", "prepare", "permit", "upload", "sendPrepared",
                             "sendFailed", "ended", "panicked"}, line : Lines \cup {NoLine}]
    /\ suPermits \in 0..ResidentCells
    /\ \/ suChannel = <<>>
       \/ \E l \in Lines, k \in {"prepared", "failed"} : suChannel = <<Streamed(l, k)>>
    /\ suPainter \in [pc : {"receive", "paint", "done", "fail", "panicked"},
                      line : Lines \cup {NoLine}]
    /\ suCard \subseteq Lines
    /\ suPrinted \in [Lines -> {<<>>, <<"fail">>, <<"start">>, <<"start", "done">>,
                                <<"start", "fail">>}]
    /\ suFailures \in Nat
    /\ suFaults \in Nat
    /\ suBroke \in BOOLEAN
    /\ suExit \in {"running", "status", "panic"}

\* No third cell is ever on the card, although one may be painted while one
\* waits in the channel and one is uploaded (the runner's contract above
\* run_relevant_source_stream).
CardHoldsTwo == Cardinality(suCard) <= ResidentCells

\* A regular exit has a verdict for every line that was read, and a zero status
\* only when all of them were painted and the input ended cleanly: the status is
\* what the orchestrator takes for the whole lane.
ExitIsHonest ==
    suExit = "status" =>
        /\ \A l \in Lines \ suUnread : suPrinted[l] \notin {<<>>, <<"start">>}
        /\ suFailures + suFaults = 0 =>
               ~suBroke /\ \A l \in Lines \ suUnread : suPrinted[l] = <<"start", "done">>

\* The stream never holds more than the card takes, and never reports more than
\* it painted.
StreamIsSound == CardHoldsTwo /\ ExitIsHonest

SuBegun == suUnread # Lines \/ ProducerGone

\* Whatever fails in preparation, upload or paint, the two threads never wait for
\* each other: the stream ends.  Excepted is a panic of the painter: thread::scope
\* then joins a producer that may wait for a permit or for room in the channel.
StreamEnds == SuBegun ~> (suExit # "running" \/ suPainter.pc = "panicked")

=============================================================================
