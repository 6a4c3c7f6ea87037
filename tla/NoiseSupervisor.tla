-------------------------- MODULE NoiseSupervisor --------------------------
(***************************************************************************)
(* server/src/engine/noise-onfly-supervisor.ts: a bounded FIFO queue in    *)
(* front of a pool of N-API worker threads.  One action is one callback of *)
(* the Node event loop (a request, a timer, an abort, a worker's message,  *)
(* 'error' or 'exit' event, the settling of a terminate() promise);        *)
(* "main" records that such a callback is still running its dispatch loop  *)
(* (startNextIfPossible) or the synchronous part of close(), during which  *)
(* no other callback runs.  The worker threads (WorkerReply, WorkerCrash,  *)
(* WorkerStops) run concurrently with all of it and talk to the main       *)
(* thread only through the per-worker FIFO of events.                      *)
(*                                                                         *)
(* A request is its own id (nextRequestId++ never repeats one).            *)
(***************************************************************************)
EXTENDS Naturals, Sequences, FiniteSets

CONSTANTS
    Requests,     \* calls of enqueue, one each
    PoolSize,     \* slots.length
    MaxQueue,     \* maxQueue
    MaxFaults,    \* bound: spawn failures, dispatch failures and crashes
    None          \* null

ASSUME PoolAssumption ==
    /\ PoolSize \in Nat \ {0}
    /\ MaxQueue \in Nat
    /\ MaxFaults \in Nat
    /\ IsFiniteSet(Requests)
    /\ None \notin Requests
    /\ None \notin Nat

VARIABLES
    \* the supervisor's requests
    queue,        \* entries waiting for a slot
    answer,       \* "new", "pending" (clientSettled = false) or what the client got
    queueTimer,   \* entries whose queueTimer is armed
    workTimer,    \* entries whose workTimer is armed
    listening,    \* entries whose abort listener is attached
    onWorker,     \* entry.worker
    \* the supervisor's slots
    active,       \* slot.active
    worker,       \* slot.worker
    recycling,    \* slot.recyclingWorker; not None while slot.recycling is pending
    \* the supervisor's control
    main,         \* callback in progress: "idle", "drain" or "close"
    closeAt,      \* 0: open; else the slot close() is at; PoolSize + 1: closed
    closeStep,    \* what close() does next at that slot
    closeTarget,  \* the worker whose terminate() close() awaits
    \* the worker threads
    thread,       \* life of each thread
    home,         \* the slot captured by its event handlers
    inbox,        \* posted requests it has not answered; the head is being computed
    events,       \* events it sent that the main thread has not handled
    faults        \* faults so far

requestVars == <<answer, queueTimer, workTimer, listening, onWorker>>
slotVars == <<active, worker, recycling>>
closeVars == <<closeAt, closeStep, closeTarget>>
threadVars == <<thread, home, inbox, events>>
vars == <<queue, requestVars, slotVars, main, closeVars, threadVars, faults>>

Slots == 1 .. PoolSize

\* Every thread beyond the first PoolSize replaces one that a fault took away.
Workers == 1 .. (PoolSize + MaxFaults)

Answers == {"ok", "worker_failure", "busy", "queue_timeout", "timeout",
            "unavailable", "aborted"}
Events == [kind : {"reply"}, request : Requests, ok : BOOLEAN]
            \cup [kind : {"error", "exit"}]

\* The thread of a worker is alive while it is in one of these states; "dead"
\* is a thread that ended and "gone" one whose exit event was also handled.
Alive == {"running", "stopping"}

Closed == closeAt # 0

Init ==
    /\ queue = <<>>
    /\ answer = [r \in Requests |-> "new"]
    /\ queueTimer = {} /\ workTimer = {} /\ listening = {}
    /\ onWorker = [r \in Requests |-> None]
    /\ active = [s \in Slots |-> None]
    /\ worker = [s \in Slots |-> None]
    /\ recycling = [s \in Slots |-> None]
    /\ main = "idle"
    /\ closeAt = 0 /\ closeStep = "clear" /\ closeTarget = None
    /\ thread = [w \in Workers |-> "unborn"]
    /\ home = [w \in Workers |-> None]
    /\ inbox = [w \in Workers |-> <<>>]
    /\ events = [w \in Workers |-> <<>>]
    /\ faults = 0

-----------------------------------------------------------------------------
(* Settling a client and letting go of an entry.                           *)

\* Mutant: the clientSettled check is missing.
SettleAgain(R, what) ==
    answer' = [r \in Requests |->
                 IF r \in R /\ answer[r] # "new" THEN what ELSE answer[r]]

\* resolveClient / rejectClient: the first answer wins.
Settle(R, what) ==
    answer' = [r \in Requests |->
                 IF r \in R /\ answer[r] = "pending" THEN what ELSE answer[r]]

\* Mutant: finishActiveSlot forgets clearWorkTimer.
ReleaseKeepingWorkTimer(R) ==
    /\ queueTimer' = queueTimer \ R
    /\ workTimer' = workTimer
    /\ listening' = listening \ R
    /\ onWorker' = [r \in Requests |-> IF r \in R THEN None ELSE onWorker[r]]

\* Every path that ends an entry clears its timers, its listener and its worker.
Release(R) ==
    /\ queueTimer' = queueTimer \ R
    /\ workTimer' = workTimer \ R
    /\ listening' = listening \ R
    /\ onWorker' = [r \in Requests |-> IF r \in R THEN None ELSE onWorker[r]]

Queued == {queue[i] : i \in DOMAIN queue}

HoldsSlot(s, w) == active[s] # None /\ onWorker[active[s]] = w

-----------------------------------------------------------------------------
(* enqueue                                                                 *)

Refuse(r, why) ==
    /\ answer' = [answer EXCEPT ![r] = why]
    /\ UNCHANGED <<queue, queueTimer, workTimer, listening, onWorker, slotVars,
                   main, closeVars, threadVars, faults>>

EnqueueClosed(r) == Closed /\ Refuse(r, "unavailable")

EnqueueBusy(r) == ~Closed /\ Len(queue) >= MaxQueue /\ Refuse(r, "busy")

\* The signal was aborted before the call.
EnqueueAborted(r) == ~Closed /\ Len(queue) < MaxQueue /\ Refuse(r, "aborted")

\* Mutant: the queue bound is off by one.
EnqueueQueuedOneMore(r) ==
    /\ ~Closed
    /\ Len(queue) <= MaxQueue
    /\ answer' = [answer EXCEPT ![r] = "pending"]
    /\ listening' \in {listening, listening \cup {r}}
    /\ queueTimer' = queueTimer \cup {r}
    /\ queue' = Append(queue, r)
    /\ main' = "drain"
    /\ UNCHANGED <<workTimer, onWorker, slotVars, closeVars, threadVars, faults>>

\* Not every caller passes a signal (checkReady and the footprints route do not).
EnqueueQueued(r) ==
    /\ ~Closed
    /\ Len(queue) < MaxQueue
    /\ answer' = [answer EXCEPT ![r] = "pending"]
    /\ listening' \in {listening, listening \cup {r}}
    /\ queueTimer' = queueTimer \cup {r}
    /\ queue' = Append(queue, r)
    /\ main' = "drain"
    /\ UNCHANGED <<workTimer, onWorker, slotVars, closeVars, threadVars, faults>>

Enqueue(r) ==
    /\ main = "idle"
    /\ answer[r] = "new"
    /\ EnqueueClosed(r) \/ EnqueueBusy(r) \/ EnqueueAborted(r) \/ EnqueueQueued(r)

-----------------------------------------------------------------------------
(* startNextIfPossible, one iteration of its loop per step.                *)

Idle(s) == active[s] = None /\ recycling[s] = None
IdleSlots == {s \in Slots : Idle(s)}
FirstIdle(s) == s \in IdleSlots /\ \A t \in IdleSlots : s <= t

CanDispatch == ~Closed /\ queue # <<>> /\ IdleSlots # {}

DrainEnds ==
    /\ ~CanDispatch
    /\ main' = "idle"
    /\ UNCHANGED <<queue, requestVars, slotVars, closeVars, threadVars, faults>>

Unborn == {w \in Workers : thread[w] = "unborn"}
Fault == faults < MaxFaults /\ faults' = faults + 1

\* ensureWorker: w is the slot's worker, or a fresh thread wired to the slot.
EnsureWorker(s, w) ==
    \/ /\ w = worker[s]
       /\ UNCHANGED home
    \/ /\ worker[s] = None
       /\ w \in Unborn
       /\ \A v \in Unborn : w <= v
       /\ home' = [home EXCEPT ![w] = s]

SpawnFails(s, r) ==
    /\ worker[s] = None
    /\ Fault
    /\ Settle({r}, "unavailable")
    /\ Release({r})
    /\ UNCHANGED <<slotVars, threadVars>>

\* Mutant: the work timer is not armed.
DispatchedUntimed(s, r, w) ==
    /\ EnsureWorker(s, w)
    /\ worker' = [worker EXCEPT ![s] = w]
    /\ active' = [active EXCEPT ![s] = r]
    /\ onWorker' = [onWorker EXCEPT ![r] = w]
    /\ queueTimer' = queueTimer \ {r}
    /\ thread' = [thread EXCEPT ![w] = IF @ = "unborn" THEN "running" ELSE @]
    /\ inbox' = [inbox EXCEPT ![w] = IF thread'[w] \in Alive THEN Append(@, r) ELSE @]
    /\ UNCHANGED <<answer, workTimer, listening, recycling, events, faults>>

Dispatched(s, r, w) ==
    /\ EnsureWorker(s, w)
    /\ worker' = [worker EXCEPT ![s] = w]
    /\ active' = [active EXCEPT ![s] = r]
    /\ onWorker' = [onWorker EXCEPT ![r] = w]
    /\ queueTimer' = queueTimer \ {r}
    /\ workTimer' = workTimer \cup {r}
    /\ thread' = [thread EXCEPT ![w] = IF @ = "unborn" THEN "running" ELSE @]
    \* a port delivers nothing to a thread that has ended
    /\ inbox' = [inbox EXCEPT ![w] = IF thread'[w] \in Alive THEN Append(@, r) ELSE @]
    /\ UNCHANGED <<answer, listening, recycling, events, faults>>

\* postMessage throws: the entry is finished and the worker recycled.
PostFails(s, r, w) ==
    /\ EnsureWorker(s, w)
    /\ Fault
    /\ Settle({r}, "unavailable")
    /\ Release({r})
    /\ worker' = [worker EXCEPT ![s] = None]
    /\ recycling' = [recycling EXCEPT ![s] = w]
    /\ thread' = [thread EXCEPT ![w] = IF @ \in {"unborn", "running"} THEN "stopping" ELSE @]
    /\ UNCHANGED <<active, inbox, events>>

\* The head entry is skipped when its client was settled meanwhile.
Dispatch ==
    /\ CanDispatch
    /\ queue' = Tail(queue)
    /\ LET r == Head(queue)
       IN IF answer[r] # "pending"
          THEN UNCHANGED <<requestVars, slotVars, threadVars, faults>>
          ELSE \E s \in Slots :
                 /\ FirstIdle(s)
                 /\ \/ SpawnFails(s, r)
                    \/ \E w \in Workers : Dispatched(s, r, w) \/ PostFails(s, r, w)
    /\ UNCHANGED <<main, closeVars>>

Drain == main = "drain" /\ (DrainEnds \/ Dispatch)

-----------------------------------------------------------------------------
(* The worker threads: workers/noise-onfly-worker.mjs and node's Worker.   *)

Emit(w, news) == events' = [events EXCEPT ![w] = @ \o news]

\* The native call returns and the worker posts exactly one reply for it.
WorkerReply(w) ==
    /\ thread[w] \in Alive
    /\ inbox[w] # <<>>
    /\ inbox' = [inbox EXCEPT ![w] = Tail(@)]
    /\ \E ok \in BOOLEAN :
          Emit(w, <<[kind |-> "reply", request |-> Head(inbox[w]), ok |-> ok]>>)
    /\ UNCHANGED <<queue, requestVars, slotVars, main, closeVars, thread, home, faults>>

ThreadEnds(w, news) ==
    /\ thread' = [thread EXCEPT ![w] = "dead"]
    /\ inbox' = [inbox EXCEPT ![w] = <<>>]
    /\ Emit(w, news)
    /\ UNCHANGED <<queue, requestVars, slotVars, main, closeVars, home>>

\* An uncaught error, or the thread exiting by itself.
WorkerCrash(w) ==
    /\ thread[w] \in Alive
    /\ Fault
    /\ \E news \in {<<[kind |-> "error"], [kind |-> "exit"]>>, <<[kind |-> "exit"]>>} :
          ThreadEnds(w, news)

\* terminate() takes effect; a call in progress is lost.
WorkerStops(w) ==
    /\ thread[w] = "stopping"
    /\ ThreadEnds(w, <<[kind |-> "exit"]>>)
    /\ UNCHANGED faults

-----------------------------------------------------------------------------
(* The handlers of a worker's events.                                      *)

Terminate(w) ==
    thread' = [thread EXCEPT ![w] = IF @ = "running" THEN "stopping" ELSE @]

\* The head of w's events is of this kind and the main thread takes it.
Take(w, kind) ==
    /\ main = "idle"
    /\ events[w] # <<>>
    /\ Head(events[w]).kind = kind
    /\ events' = [events EXCEPT ![w] = Tail(@)]

\* finishActiveSlot and settling, when w still holds slot s.
FinishActive(s, w, what) ==
    IF HoldsSlot(s, w)
    THEN /\ Settle({active[s]}, what)
         /\ Release({active[s]})
         /\ active' = [active EXCEPT ![s] = None]
    ELSE UNCHANGED <<requestVars, active>>

\* Mutant: freeing the slot does not restart the dispatch loop.
OnMessageNoRestart(w) ==
    /\ Take(w, "reply")
    /\ LET s == home[w]
           reply == Head(events[w])
       IN IF recycling[s] = w \/ ~HoldsSlot(s, w) \/ active[s] # reply.request
          THEN UNCHANGED <<requestVars, active>>
          ELSE FinishActive(s, w, IF reply.ok THEN "ok" ELSE "worker_failure")
    /\ UNCHANGED <<queue, worker, recycling, main, closeVars, thread, home, inbox, faults>>

\* handleWorkerMessage: a reply of a worker being recycled, of one that holds
\* no request, or for another request is dropped.
OnMessage(w) ==
    /\ Take(w, "reply")
    /\ LET s == home[w]
           reply == Head(events[w])
       IN IF \/ recycling[s] = w
             \/ ~HoldsSlot(s, w)
             \/ active[s] # reply.request
          THEN UNCHANGED <<requestVars, active, main>>
          ELSE /\ FinishActive(s, w, IF reply.ok THEN "ok" ELSE "worker_failure")
               /\ main' = "drain"
    /\ UNCHANGED <<queue, worker, recycling, closeVars, thread, home, inbox, faults>>

\* Mutant: the death of a worker whose client was already answered is ignored.
LetGoOnceAnswered(s, w) ==
    \/ recycling[s] = w
    \/ worker[s] # w /\ ~HoldsSlot(s, w)
    \/ HoldsSlot(s, w) /\ answer[active[s]] # "pending"

\* handleWorkerError and handleWorkerExit ignore a worker the slot let go of.
LetGo(s, w) == recycling[s] = w \/ (worker[s] # w /\ ~HoldsSlot(s, w))

Detach(s, w) == worker' = [worker EXCEPT ![s] = IF @ = w THEN None ELSE @]

\* handleWorkerError, with recycleWorker up to its await of terminate().
OnError(w) ==
    /\ Take(w, "error")
    /\ LET s == home[w]
       IN IF LetGo(s, w)
          THEN UNCHANGED <<requestVars, slotVars, thread>>
          ELSE /\ FinishActive(s, w, "unavailable")
               /\ IF recycling[s] # None
                  THEN UNCHANGED <<worker, recycling, thread>>
                  ELSE /\ Detach(s, w)
                       /\ recycling' = [recycling EXCEPT ![s] = w]
                       /\ Terminate(w)
    /\ UNCHANGED <<queue, main, closeVars, home, inbox, faults>>

\* handleWorkerExit.  There is nothing to terminate, so recycleWorker completes
\* in the microtasks that follow the handler and restarts the dispatch loop.
OnExit(w) ==
    /\ Take(w, "exit")
    /\ thread' = [thread EXCEPT ![w] = "gone"]
    /\ LET s == home[w]
       IN IF LetGo(s, w)
          THEN UNCHANGED <<requestVars, slotVars, main>>
          ELSE /\ FinishActive(s, w, "unavailable")
               /\ IF recycling[s] # None
                  THEN UNCHANGED <<worker, main>>
                  ELSE Detach(s, w) /\ main' = "drain"
               /\ UNCHANGED recycling
    /\ UNCHANGED <<queue, closeVars, home, inbox, faults>>

\* Mutant: the slot is reused without waiting for terminate().
RecycleDoneEarly(s) ==
    /\ main = "idle"
    /\ recycling[s] # None
    /\ recycling' = [recycling EXCEPT ![s] = None]
    /\ main' = "drain"
    /\ UNCHANGED <<queue, requestVars, active, worker, closeVars, threadVars, faults>>

\* Mutant: the finally does nothing once the supervisor is closed.
RecycleDoneWhileOpen(s) ==
    /\ main = "idle"
    /\ recycling[s] # None
    /\ thread[recycling[s]] = "gone"
    /\ recycling' = IF Closed THEN recycling ELSE [recycling EXCEPT ![s] = None]
    /\ main' = "drain"
    /\ UNCHANGED <<queue, requestVars, active, worker, closeVars, threadVars, faults>>

\* The finally of recycleWorker: terminate() settles once the thread is gone.
RecycleDone(s) ==
    /\ main = "idle"
    /\ recycling[s] # None
    /\ thread[recycling[s]] = "gone"
    /\ recycling' = [recycling EXCEPT ![s] = None]
    /\ main' = "drain"
    /\ UNCHANGED <<queue, requestVars, active, worker, closeVars, threadVars, faults>>

-----------------------------------------------------------------------------
(* Timers and aborts.  A timer fires at most once.                         *)

\* Mutant: a timeout frees the slot although its worker is still computing.
WorkTimeoutFreesSlot(r) ==
    /\ main = "idle"
    /\ r \in workTimer
    /\ Settle({r}, "timeout")
    /\ Release({r})
    /\ active' = [s \in Slots |-> IF active[s] = r THEN None ELSE active[s]]
    /\ main' = "drain"
    /\ UNCHANGED <<queue, worker, recycling, closeVars, threadVars, faults>>

\* Mutant: a timeout recycles the worker, as before the SIGSEGVs.
WorkTimeoutRecycles(r) ==
    /\ main = "idle"
    /\ r \in workTimer
    /\ Settle({r}, "timeout")
    /\ Release({r})
    /\ \E s \in Slots :
          /\ active[s] = r
          /\ active' = [active EXCEPT ![s] = None]
          /\ recycling' = [recycling EXCEPT ![s] = worker[s]]
          /\ worker' = [worker EXCEPT ![s] = None]
          /\ Terminate(worker[s])
    /\ UNCHANGED <<queue, main, closeVars, home, inbox, events, faults>>

\* handleWorkTimeout: the client is answered, the slot stays busy.
WorkTimeout(r) ==
    /\ main = "idle"
    /\ r \in workTimer
    /\ workTimer' = workTimer \ {r}
    /\ IF \E s \in Slots : active[s] = r
       THEN Settle({r}, "timeout") /\ listening' = listening \ {r}
       ELSE UNCHANGED <<answer, listening>>
    /\ UNCHANGED <<queue, queueTimer, onWorker, slotVars, main, closeVars, threadVars, faults>>

\* queue.splice(i, 1)
Splice(q, i) == [j \in 1 .. Len(q) - 1 |-> IF j < i THEN q[j] ELSE q[j + 1]]

\* An entry leaves the queue without being dispatched.
Drop(r, what) ==
    /\ \E i \in DOMAIN queue : queue[i] = r /\ queue' = Splice(queue, i)
    /\ Settle({r}, what)
    /\ queueTimer' = queueTimer \ {r}
    /\ listening' = listening \ {r}

\* handleQueueTimeout
QueueTimeout(r) ==
    /\ main = "idle"
    /\ r \in queueTimer
    /\ IF r \in Queued
       THEN Drop(r, "queue_timeout")
       ELSE /\ queueTimer' = queueTimer \ {r}
            /\ UNCHANGED <<queue, answer, listening>>
    /\ UNCHANGED <<workTimer, onWorker, slotVars, main, closeVars, threadVars, faults>>

Serves(s, r) == active[s] = r /\ onWorker[r] # None

\* handleAbort of a dispatched entry: as for a timeout the slot stays busy.
AbortActive(r) ==
    /\ \E s \in Slots : Serves(s, r)
    /\ workTimer' = workTimer \ {r}
    /\ listening' = listening \ {r}
    /\ Settle({r}, "aborted")
    /\ UNCHANGED <<queue, queueTimer>>

\* handleAbort of any other entry.  The listener was registered "once".
AbortQueued(r) ==
    /\ \A s \in Slots : ~Serves(s, r)
    /\ IF r \in Queued
       THEN Drop(r, "aborted")
       ELSE /\ listening' = listening \ {r}
            /\ UNCHANGED <<queue, answer, queueTimer>>
    /\ UNCHANGED workTimer

Abort(r) ==
    /\ main = "idle"
    /\ r \in listening
    /\ AbortActive(r) \/ AbortQueued(r)
    /\ UNCHANGED <<onWorker, slotVars, main, closeVars, threadVars, faults>>

-----------------------------------------------------------------------------
(* close: drain the queue, then slot after slot answer the active request, *)
(* await a pending recycle and await the end of the slot's worker.         *)

\* Move on to the next slot; after the last one close() has returned.
NextSlot ==
    /\ closeAt' = closeAt + 1
    /\ closeStep' = "clear"
    /\ closeTarget' = None
    /\ main' = IF closeAt = PoolSize THEN "idle" ELSE "close"

\* Mutant: close() does not await terminate().
StopSlotWorkerUnawaited(s) ==
    /\ NextSlot
    /\ worker' = [worker EXCEPT ![s] = None]
    /\ IF worker[s] = None THEN UNCHANGED thread ELSE Terminate(worker[s])

\* terminate() of the slot's worker, if it has one, and the await of it.
StopSlotWorker(s) ==
    IF worker[s] = None
    THEN /\ NextSlot
         /\ UNCHANGED <<worker, thread>>
    ELSE /\ worker' = [worker EXCEPT ![s] = None]
         /\ Terminate(worker[s])
         /\ closeTarget' = worker[s]
         /\ closeStep' = "terminate"
         /\ main' = "idle"
         /\ UNCHANGED closeAt

CloseStart ==
    /\ main = "idle"
    /\ ~Closed
    /\ queue' = <<>>
    /\ Settle(Queued, "unavailable")
    /\ queueTimer' = queueTimer \ Queued
    /\ listening' = listening \ Queued
    /\ closeAt' = 1
    /\ main' = "close"
    /\ UNCHANGED <<workTimer, onWorker, slotVars, closeStep, closeTarget, threadVars, faults>>

CloseSlot ==
    /\ main = "close"
    /\ LET s == closeAt
           A == {active[s]} \ {None}
       IN /\ active' = [active EXCEPT ![s] = None]
          /\ Settle(A, "unavailable")
          /\ Release(A)
          /\ IF recycling[s] # None
             THEN /\ closeStep' = "recycle"
                  /\ main' = "idle"
                  /\ UNCHANGED <<closeAt, closeTarget, worker, thread>>
             ELSE StopSlotWorker(s)
    /\ UNCHANGED <<queue, recycling, home, inbox, events, faults>>

CloseRecycled ==
    /\ main = "idle"
    /\ closeStep = "recycle"
    /\ recycling[closeAt] = None
    /\ StopSlotWorker(closeAt)
    /\ UNCHANGED <<queue, requestVars, active, recycling, home, inbox, events, faults>>

CloseTerminated ==
    /\ main = "idle"
    /\ closeStep = "terminate"
    /\ thread[closeTarget] = "gone"
    /\ NextSlot
    /\ UNCHANGED <<queue, requestVars, slotVars, threadVars, faults>>

-----------------------------------------------------------------------------

CloseDone == closeAt = PoolSize + 1

\* Every client is answered and close() has returned: nothing is left to do.
Finished ==
    /\ CloseDone
    /\ \A r \in Requests : answer[r] \in Answers
    /\ UNCHANGED vars

ThreadStep(w) == WorkerReply(w) \/ WorkerCrash(w) \/ WorkerStops(w)
EventStep(w) == OnMessage(w) \/ OnError(w) \/ OnExit(w)
TimerStep(r) == QueueTimeout(r) \/ WorkTimeout(r)
Closing == CloseSlot \/ CloseRecycled \/ CloseTerminated

Next ==
    \/ \E r \in Requests : Enqueue(r) \/ TimerStep(r) \/ Abort(r)
    \/ \E w \in Workers : ThreadStep(w) \/ EventStep(w)
    \/ \E s \in Slots : RecycleDone(s)
    \/ Drain
    \/ CloseStart
    \/ Closing
    \/ Finished

Spec == Init /\ [][Next]_vars

-----------------------------------------------------------------------------
(* Fairness.  The event loop runs what is due: callbacks end, timers fire  *)
(* and events are delivered.  Nothing is assumed of native computations.   *)

LoopFairness ==
    /\ WF_vars(Drain)
    /\ WF_vars(Closing)
    /\ \A r \in Requests : WF_vars(QueueTimeout(r)) /\ WF_vars(WorkTimeout(r))
    /\ \A w \in Workers : WF_vars(EventStep(w))
    /\ \A s \in Slots : WF_vars(RecycleDone(s))

\* What EverySlotFreed and CloseReturns need in addition: every native call
\* returns and every terminated thread ends.
ThreadFairness ==
    \A w \in Workers : WF_vars(WorkerReply(w)) /\ WF_vars(WorkerStops(w))

LoopSpec == Spec /\ LoopFairness

-----------------------------------------------------------------------------
(* Correctness.                                                            *)

\* Types of the state, the queue bound of enqueue and the shape of close().
TypeOK ==
    /\ queue \in Seq(Requests) /\ Len(queue) <= MaxQueue
    /\ answer \in [Requests -> Answers \cup {"new", "pending"}]
    /\ queueTimer \subseteq Requests
    /\ workTimer \subseteq Requests
    /\ listening \subseteq Requests
    /\ onWorker \in [Requests -> Workers \cup {None}]
    /\ active \in [Slots -> Requests \cup {None}]
    /\ worker \in [Slots -> Workers \cup {None}]
    /\ recycling \in [Slots -> Workers \cup {None}]
    /\ main \in {"idle", "drain", "close"}
    /\ closeAt \in 0 .. PoolSize + 1
    /\ closeStep \in {"clear", "recycle", "terminate"}
    /\ closeTarget \in Workers \cup {None}
    /\ closeStep # "clear" \/ main = "close" => closeAt \in Slots
    /\ closeStep = "terminate" => closeTarget \in Workers
    /\ thread \in [Workers -> {"unborn", "running", "stopping", "dead", "gone"}]
    /\ home \in [Workers -> Slots \cup {None}]
    /\ inbox \in [Workers -> Seq(Requests)]
    /\ events \in [Workers -> Seq(Events)]
    /\ faults \in 0 .. MaxFaults

ActiveIn(r) == {s \in Slots : active[s] = r}

\* A client that is still waiting is either in the queue, with its queue timer
\* armed, or in exactly one slot, with its work timer armed: whatever happened
\* to its worker, a timer is left to answer it.  And no timer or abort listener
\* outlives the wait it belongs to.
EveryWaitIsTimed ==
    /\ \A r \in Requests :
          answer[r] = "pending" =>
             \/ r \in Queued /\ r \in queueTimer /\ ActiveIn(r) = {}
             \/ r \notin Queued /\ r \in workTimer /\ \E s \in Slots : ActiveIn(r) = {s}
    /\ \A r \in queueTimer \cup workTimer \cup listening : answer[r] = "pending"
    /\ queueTimer \cap workTimer = {}

\* A busy slot is waiting for something that will come: its worker is computing
\* the request, or a reply, error or exit is on its way.  A slot whose request
\* was answered early (504, abort) is therefore freed by the late reply.
SlotIsHeldByCall ==
    \A s \in Slots :
       active[s] # None =>
          LET w == onWorker[active[s]]
          IN /\ worker[s] = w
             /\ \/ \E i \in DOMAIN inbox[w] : inbox[w][i] = active[s]
                \/ events[w] # <<>>

PendingReplies(w) == {i \in DOMAIN events[w] : events[w][i].kind = "reply"}

\* No worker is handed a request while it is inside the native call of another
\* one, and the reply of a worker that holds a slot is for that slot's request.
OneCallPerWorker ==
    \A w \in Workers :
       /\ Len(inbox[w]) <= 1
       /\ \A i \in PendingReplies(w) :
             /\ inbox[w] = <<>>
             /\ PendingReplies(w) = {i}
             /\ \A s \in Slots :
                   HoldsSlot(s, w) => events[w][i].request = active[s]

\* No handler leaves a request queued next to a slot that could serve it.
WorkConserving ==
    main = "idle" /\ ~Closed /\ queue # <<>> => IdleSlots = {}

\* Slots, workers and native calls agree: a slot is busy for a call that is
\* under way, no worker is handed a second one, and none idles beside a queue.
SlotsMatchCalls == SlotIsHeldByCall /\ OneCallPerWorker /\ WorkConserving

\* "terminating a worker mid-native-call let Node dlclose the addon while its
\* Rust threads were alive": outside shutdown a worker inside a native call is
\* never terminated.
NoTerminateMidCall ==
    \A w \in Workers : thread[w] = "stopping" /\ inbox[w] # <<>> => Closed

\* The pool never runs more threads than it has slots ("memory scales linearly
\* with pool size"): a worker is replaced only after its thread has ended.
ThreadsBounded == Cardinality({w \in Workers : thread[w] \in Alive}) <= PoolSize

\* After close() returned no thread is left running and no client is waiting.
CleanShutdown ==
    CloseDone =>
       /\ \A w \in Workers : thread[w] \notin Alive
       /\ \A r \in Requests : answer[r] # "pending"

\* A thread is neither stopped too early nor replaced too early, and none is
\* left behind.
ThreadsAreSafe == NoTerminateMidCall /\ ThreadsBounded /\ CleanShutdown

\* A client is answered once: a late reply, a timer or close() never changes
\* an answer that was given.
AnsweredOnce ==
    [][\A r \in Requests : answer[r] \in Answers => answer'[r] = answer[r]]_vars

\* The callers' view of the supervisor.
Pool == INSTANCE NoisePool WITH
    waiting <- Queued,
    running <- {active[s] : s \in Slots} \ {None}

PoolSpec == Pool!Spec

\* Every client is answered even if native calls never return and threads
\* never end (LoopSpec): the timers alone guarantee it.
EveryClientAnswered ==
    \A r \in Requests : answer[r] = "pending" ~> answer[r] \in Answers

\* With native calls that return, every busy slot becomes free again.
EverySlotFreed ==
    ThreadFairness => \A s \in Slots : active[s] # None ~> active[s] = None

\* With native calls that return, close() returns.
CloseReturns == ThreadFairness => (Closed ~> CloseDone)

\* With native calls that return, the pool comes back from whatever happened to
\* its slots, and close() from whatever it was called in.
PoolRecovers == EverySlotFreed /\ CloseReturns
=============================================================================
