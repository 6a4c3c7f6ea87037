--------------------------- MODULE AirborneStream ---------------------------
(***************************************************************************)
(* The warm airborne worker (gpu_airborne/stream.rs, run_stream): a reader *)
(* queues the cells of standard input, one thread prepares them in runs,   *)
(* and the device workers build them, two at once unless a cell needs the  *)
(* whole card.  VramGate admits them: ordinary cells take one permit,      *)
(* large and chunked ones all, and those go first.                         *)
(*                                                                         *)
(* A condition variable is the set of threads that sleep in it; a thread   *)
(* that is woken takes the lock and looks again.                           *)
(***************************************************************************)
EXTENDS Naturals, Sequences, FiniteSets

CONSTANTS
    AirCells,       \* cells; one may be sent again when it was answered
    Streams,        \* device workers, one or two of them
    PullBatch,      \* PULL_BATCH
    MaxPanics,      \* bound: workers that panic
    NoCell

ASSUME AirborneAssumption ==
    /\ IsFiniteSet(AirCells) /\ IsFiniteSet(Streams) /\ Streams # {}
    /\ {PullBatch, MaxPanics} \subseteq Nat
    /\ PullBatch > 0
    /\ NoCell \notin AirCells

Total == Cardinality(Streams)

VARIABLES
    abQueue,        \* the work queue of the reader
    abClosed,       \* its flag
    abReader,       \* the reader: what it does
    abPrep,         \* the preparing thread: what it does, and its run of cells
    abChannel,      \* the depth-1 channel of prepared cells
    abWorker,       \* device workers: what each does, its cell, its permits
    abGate,         \* VramState
    abOpen,         \* history: cells that were read and not answered
    abFatal         \* process::exit(1)

abVars == <<abQueue, abClosed, abReader, abPrep, abChannel, abWorker, abGate, abOpen,
            abFatal>>

\* A prepared cell: "small" for one permit, "wide" for a one-pass build above the
\* concurrent limit, "chunked" for one that is built in chunks, "broken" when its
\* preparation or its dependencies failed.
Job(c, kind) == [cell |-> c, kind |-> kind]
NoJob == Job(NoCell, "none")
Worker(pc, job, held) == [pc |-> pc, job |-> job, held |-> held]

AbInit ==
    /\ abQueue = <<>>
    /\ abClosed = FALSE
    /\ abReader = "read"
    /\ abPrep = [pc |-> "pull", run |-> <<>>, job |-> NoJob]
    /\ abChannel = <<>>
    /\ abWorker = [w \in Streams |-> Worker("open", NoJob, 0)]
    /\ abGate = [available |-> Total, waiters |-> 0]
    /\ abOpen = {}
    /\ abFatal = FALSE

Panicked == {w \in Streams : abWorker[w].pc = "panicked"}
MayPanic == Cardinality(Panicked) < MaxPanics

-----------------------------------------------------------------------------
(* The reader.                                                             *)

ReadCell(c) ==
    /\ abReader = "read"
    /\ c \notin abOpen
    /\ abOpen' = abOpen \cup {c}
    /\ abQueue' = Append(abQueue, c)
    /\ abReader' = "notify"
    /\ UNCHANGED <<abClosed, abPrep, abChannel, abWorker, abGate, abFatal>>

\* The end of the input, or a line that cannot be read.
CloseInput ==
    /\ abReader = "read"
    /\ abClosed' = TRUE
    /\ abReader' = "notifyLast"
    /\ UNCHANGED <<abQueue, abPrep, abChannel, abWorker, abGate, abOpen, abFatal>>

NotifyPrep ==
    /\ abReader \in {"notify", "notifyLast"}
    /\ abReader' = IF abReader = "notify" THEN "read" ELSE "joining"
    /\ abPrep' = IF abPrep.pc = "sleep" THEN [abPrep EXCEPT !.pc = "pull"] ELSE abPrep
    /\ UNCHANGED <<abQueue, abClosed, abChannel, abWorker, abGate, abOpen, abFatal>>

-----------------------------------------------------------------------------
(* The preparing thread.                                                   *)

\* Mutant: the last cell of a run stays in the queue.
PullLeavesLast ==
    /\ abPrep.pc = "pull"
    /\ LET take == IF Len(abQueue) < PullBatch THEN Len(abQueue) ELSE PullBatch IN
       IF abQueue # <<>>
       THEN /\ abPrep' = [abPrep EXCEPT !.pc = "prepare", !.run = SubSeq(abQueue, 1, take)]
            /\ abQueue' = SubSeq(abQueue, take, Len(abQueue))
       ELSE /\ abPrep' = [abPrep EXCEPT !.pc = IF abClosed THEN "ended" ELSE "sleep"]
            /\ UNCHANGED abQueue
    /\ UNCHANGED <<abClosed, abReader, abChannel, abWorker, abGate, abOpen, abFatal>>

\* Under the lock of the queue: a run off its front, else the end, else sleep.
Pull ==
    /\ abPrep.pc = "pull"
    /\ LET take == IF Len(abQueue) < PullBatch THEN Len(abQueue) ELSE PullBatch IN
       IF abQueue # <<>>
       THEN /\ abPrep' = [abPrep EXCEPT !.pc = "prepare", !.run = SubSeq(abQueue, 1, take)]
            /\ abQueue' = SubSeq(abQueue, take + 1, Len(abQueue))
       ELSE /\ abPrep' = [abPrep EXCEPT !.pc = IF abClosed THEN "ended" ELSE "sleep"]
            /\ UNCHANGED abQueue
    /\ UNCHANGED <<abClosed, abReader, abChannel, abWorker, abGate, abOpen, abFatal>>

PrepareCell ==
    /\ abPrep.pc = "prepare"
    /\ \E kind \in {"small", "wide", "chunked", "broken"} :
           abPrep' = [pc |-> "send", run |-> Tail(abPrep.run),
                      job |-> Job(Head(abPrep.run), kind)]
    /\ UNCHANGED <<abQueue, abClosed, abReader, abChannel, abWorker, abGate, abOpen, abFatal>>

SendPrepared ==
    /\ abPrep.pc = "send"
    /\ abChannel = <<>>
    /\ abChannel' = <<abPrep.job>>
    /\ abPrep' = [pc |-> IF abPrep.run = <<>> THEN "pull" ELSE "prepare",
                  run |-> abPrep.run, job |-> NoJob]
    /\ UNCHANGED <<abQueue, abClosed, abReader, abWorker, abGate, abOpen, abFatal>>

-----------------------------------------------------------------------------
(* VramGate.                                                               *)

Want(job) == IF job.kind \in {"wide", "chunked"} THEN Total ELSE 1
Exclusive(job) == Want(job) = Total

\* Mutant: permits are all that counts.
BlockedByPermits(job, gate) == gate.available < Want(job)

\* The condition of acquire's loop.
Blocked(job, gate) ==
    \/ gate.available < Want(job)
    \/ ~Exclusive(job) /\ gate.waiters > 0

\* notify_all: everyone who sleeps looks again.
Woken(workers) ==
    [w \in Streams |-> IF workers[w].pc = "sleep"
                       THEN [workers[w] EXCEPT !.pc = "recheck"] ELSE workers[w]]

\* The lock is held: the worker takes its permits or goes to sleep.
TakeOrSleep(w, workers, gate) ==
    LET job == workers[w].job IN
    IF Blocked(job, gate)
    THEN /\ abGate' = gate
         /\ abWorker' = [workers EXCEPT ![w].pc = "sleep"]
    ELSE /\ abGate' = [available |-> gate.available - Want(job),
                       waiters |-> gate.waiters - IF Exclusive(job) THEN 1 ELSE 0]
         /\ abWorker' = [workers EXCEPT ![w] = Worker("build", job, Want(job))]

\* acquire: an exclusive waiter announces itself and wakes the others.
Acquire(w) ==
    /\ abWorker[w].pc = "acquire"
    /\ IF Exclusive(abWorker[w].job)
       THEN TakeOrSleep(w, Woken(abWorker), [abGate EXCEPT !.waiters = @ + 1])
       ELSE TakeOrSleep(w, abWorker, abGate)
    /\ UNCHANGED <<abQueue, abClosed, abReader, abPrep, abChannel, abOpen, abFatal>>

Recheck(w) ==
    /\ abWorker[w].pc = "recheck"
    /\ TakeOrSleep(w, abWorker, abGate)
    /\ UNCHANGED <<abQueue, abClosed, abReader, abPrep, abChannel, abOpen, abFatal>>

\* The end of drop: the lock is free again when the sleepers are woken.
Notify(w) ==
    /\ abWorker[w].pc \in {"notifyPrint", "notifyUpgrade", "notifyPanic"}
    /\ LET pc == CASE abWorker[w].pc = "notifyPrint" -> "print"
                   [] abWorker[w].pc = "notifyUpgrade" -> "acquire"
                   [] OTHER -> "panicked"
       IN  abWorker' = [Woken(abWorker) EXCEPT ![w].pc = pc]
    /\ UNCHANGED <<abQueue, abClosed, abReader, abPrep, abChannel, abGate, abOpen, abFatal>>

\* Mutant: a lease gives back all permits of the gate.
ReleaseAll(w, pc, job) ==
    /\ abGate' = [abGate EXCEPT !.available = @ + Total]
    /\ abWorker' = [abWorker EXCEPT ![w] = Worker(pc, job, 0)]

\* VramLease's drop, up to its notify_all.
Release(w, pc, job) ==
    /\ abGate' = [abGate EXCEPT !.available = @ + abWorker[w].held]
    /\ abWorker' = [abWorker EXCEPT ![w] = Worker(pc, job, 0)]

-----------------------------------------------------------------------------
(* The device workers.                                                     *)

OpenDevice(w) ==
    /\ abWorker[w].pc = "open"
    /\ abWorker' = [abWorker EXCEPT ![w].pc = "receive"]
    /\ UNCHANGED <<abQueue, abClosed, abReader, abPrep, abChannel, abGate, abOpen, abFatal>>

\* The mutex is held for recv only: a prepared cell goes to one of the workers.
Receive(w) ==
    /\ abWorker[w].pc = "receive"
    /\ abChannel # <<>>
    /\ abWorker' = [abWorker EXCEPT ![w] = Worker("acquire", Head(abChannel), 0)]
    /\ abChannel' = Tail(abChannel)
    /\ UNCHANGED <<abQueue, abClosed, abReader, abPrep, abGate, abOpen, abFatal>>

\* The only sender is gone.
WorkerEnds(w) ==
    /\ abWorker[w].pc = "receive"
    /\ abChannel = <<>>
    /\ abPrep.pc = "ended"
    /\ abWorker' = [abWorker EXCEPT ![w].pc = "ended"]
    /\ UNCHANGED <<abQueue, abClosed, abReader, abPrep, abChannel, abGate, abOpen, abFatal>>

\* The build returned, or failed in a way that is the cell's own.
Built(w) ==
    /\ abWorker[w].pc = "build"
    /\ Release(w, "notifyPrint", abWorker[w].job)
    /\ UNCHANGED <<abQueue, abClosed, abReader, abPrep, abChannel, abOpen, abFatal>>

\* Mutant: the cell is rebuilt in chunks under the permit it has.
FallBackAtOnce(w) ==
    /\ abWorker[w].pc = "build"
    /\ abWorker[w].job.kind \in {"small", "wide"}
    /\ abWorker' = [abWorker EXCEPT ![w].job.kind = "chunked"]
    /\ UNCHANGED <<abQueue, abClosed, abReader, abPrep, abChannel, abGate, abOpen, abFatal>>

\* Mutant: the worker waits for the other permits and keeps its own.
FallBackHolding(w) ==
    /\ abWorker[w].pc = "build"
    /\ abWorker[w].job.kind \in {"small", "wide"}
    /\ LET job == Job(abWorker[w].job.cell, "chunked") IN
       IF abWorker[w].held < Total
       THEN abWorker' = [abWorker EXCEPT ![w].job = job, ![w].pc = "acquire"]
       ELSE abWorker' = [abWorker EXCEPT ![w].job = job]
    /\ UNCHANGED <<abQueue, abClosed, abReader, abPrep, abChannel, abGate, abOpen, abFatal>>

\* The one-pass build does not fit the card: the cell is rebuilt in chunks, by a
\* worker that first gives back the permit it has and waits for all of them.
FallBack(w) ==
    /\ abWorker[w].pc = "build"
    /\ abWorker[w].job.kind \in {"small", "wide"}
    /\ LET job == Job(abWorker[w].job.cell, "chunked") IN
       IF abWorker[w].held < Total
       THEN Release(w, "notifyUpgrade", job)
       ELSE abWorker' = [abWorker EXCEPT ![w].job = job] /\ UNCHANGED abGate
    /\ UNCHANGED <<abQueue, abClosed, abReader, abPrep, abChannel, abOpen, abFatal>>

\* An error that may have poisoned the device ends the process.
BuildIsFatal(w) ==
    /\ abWorker[w].pc = "build"
    /\ abWorker[w].job.kind # "broken"
    /\ abFatal' = TRUE
    /\ UNCHANGED <<abQueue, abClosed, abReader, abPrep, abChannel, abWorker, abGate, abOpen>>

PrintResult(w) ==
    /\ abWorker[w].pc = "print"
    /\ abOpen' = abOpen \ {abWorker[w].job.cell}
    /\ abWorker' = [abWorker EXCEPT ![w] = Worker("receive", NoJob, 0)]
    /\ UNCHANGED <<abQueue, abClosed, abReader, abPrep, abChannel, abGate, abFatal>>

\* No device to open, a failed assertion of a build, no room for the evidence of a
\* cell: unwinding drops the lease, and the cell is lost.
Panic(w) ==
    /\ MayPanic
    /\ abWorker[w].pc \in {"open", "build", "print"}
    /\ IF abWorker[w].held > 0 THEN Release(w, "notifyPanic", abWorker[w].job)
       ELSE abWorker' = [abWorker EXCEPT ![w].pc = "panicked"] /\ UNCHANGED abGate
    /\ UNCHANGED <<abQueue, abClosed, abReader, abPrep, abChannel, abOpen, abFatal>>

-----------------------------------------------------------------------------

WorkerNext(w) ==
    \/ OpenDevice(w)
    \/ Receive(w)
    \/ WorkerEnds(w)
    \/ Acquire(w)
    \/ Recheck(w)
    \/ Notify(w)
    \/ Built(w)
    \/ FallBack(w)
    \/ BuildIsFatal(w)
    \/ PrintResult(w)
    \/ Panic(w)

PrepNext == Pull \/ PrepareCell \/ SendPrepared

AbNext ==
    /\ ~abFatal
    /\ \/ \E c \in AirCells : ReadCell(c)
       \/ CloseInput
       \/ NotifyPrep
       \/ PrepNext
       \/ \E w \in Streams : WorkerNext(w)

AbSpec == AbInit /\ [][AbNext]_abVars

\* Every thread runs; nobody has to send a cell or to close the input.
AbFairness ==
    /\ WF_abVars(~abFatal /\ NotifyPrep)
    /\ WF_abVars(~abFatal /\ PrepNext)
    /\ \A w \in Streams : WF_abVars(~abFatal /\ WorkerNext(w))

AbFairSpec == AbSpec /\ AbFairness

-----------------------------------------------------------------------------

Kinds == {"small", "wide", "chunked", "broken"}
Jobs == [cell : AirCells, kind : Kinds] \cup {NoJob}

\* The state is well formed: permits neither leak nor multiply past the gate's.
AbTypeOK ==
    /\ abQueue \in Seq(AirCells)
    /\ abClosed \in BOOLEAN
    /\ abReader \in {"read", "notify", "notifyLast", "joining"}
    /\ abPrep \in [pc : {"pull", "sleep", "prepare", "send", "ended"},
                   run : Seq(AirCells), job : Jobs]
    /\ Len(abChannel) <= 1 /\ abChannel \in Seq(Jobs)
    /\ abWorker \in [Streams ->
           [pc : {"open", "receive", "acquire", "sleep", "recheck", "build", "notifyPrint",
                  "notifyUpgrade", "notifyPanic", "print", "panicked", "ended"},
            job : Jobs, held : 0..Total]]
    /\ abGate \in [available : 0..Total, waiters : 0..Total]
    /\ abOpen \subseteq AirCells
    /\ abFatal \in BOOLEAN

LargeBuild(w) ==
    abWorker[w].pc = "build" /\ abWorker[w].job.kind \in {"wide", "chunked"}

\* A build that may fill the card - a large one, or one in chunks, also after the
\* fallback of a small one - runs alone.
LargeBuildsRunAlone ==
    \A w, v \in Streams :
        w # v /\ LargeBuild(w) => abWorker[v].pc # "build"

Places(c) ==
    Cardinality({i \in DOMAIN abQueue : abQueue[i] = c})
    + Cardinality({i \in DOMAIN abPrep.run : abPrep.run[i] = c})
    + Cardinality({i \in DOMAIN abChannel : abChannel[i].cell = c})
    + Cardinality({w \in Streams : abWorker[w].job.cell = c})
    + IF abPrep.job.cell = c THEN 1 ELSE 0

\* A cell that was read and not answered is in exactly one place between the
\* reader and the workers: it is neither dropped nor built twice.
CellsAreInOnePlace ==
    \A c \in AirCells : Places(c) = IF c \in abOpen THEN 1 ELSE 0

\* A cell is built by one worker, and alone where it may need the whole card.
BuildsAreExclusive == LargeBuildsRunAlone /\ CellsAreInOnePlace

LostTo(c) == {w \in Panicked : abWorker[w].job.cell = c}

\* Every cell that is read is answered: no stream of small cells keeps a large one
\* waiting.  Excepted are a cell that other large ones overtake again and again,
\* for whom the gate keeps no order, the end of the process, and the cell in the
\* hands of a worker that panics, which does not stop the other worker.
CellsAreAnswered ==
    \A c \in AirCells :
        \/ []<>(\E w \in Streams : LargeBuild(w) /\ abWorker[w].job.cell # c)
        \/ (c \in abOpen) ~>
               (c \notin abOpen \/ abFatal \/ LostTo(c) # {} \/ Panicked = Streams)

Over == abReader = "joining" /\ abPrep.pc = "ended"
        /\ \A w \in Streams : abWorker[w].pc \in {"panicked", "ended"}

\* "Termination / deadlock-freedom" of run_stream: the end of the input ends all
\* threads, unless every worker has panicked.
InputEndsStream == abClosed ~> (Over \/ abFatal \/ Panicked = Streams)

=============================================================================
