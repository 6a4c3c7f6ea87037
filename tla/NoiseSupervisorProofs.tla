----------------------- MODULE NoiseSupervisorProofs -----------------------
(***************************************************************************)
(* Proofs about NoiseSupervisor for every set of requests, pool size,      *)
(* queue bound and number of faults: every admitted request is answered    *)
(* once and no other; slots, workers and native calls agree; threads end   *)
(* neither too early nor too late; and the supervisor is an abstract pool. *)
(***************************************************************************)
EXTENDS NoiseSupervisor, FiniteSetTheorems, SequenceTheorems, TLAPS

\* A thread is wired to a slot when it is spawned and sends nothing before.
Wired ==
    /\ \A w \in Workers :
          /\ thread[w] = "unborn" => events[w] = <<>> /\ inbox[w] = <<>>
          /\ thread[w] # "unborn" => home[w] \in Slots
    /\ \A s \in Slots : worker[s] # None => thread[worker[s]] # "unborn"

TypeInv == TypeOK /\ Wired

-----------------------------------------------------------------------------
(* Facts about the operators.                                              *)

\* Removing an entry from a queue leaves the other entries in their order.
LEMMA SpliceFacts ==
    ASSUME NEW S, NEW q \in Seq(S), NEW i \in DOMAIN q
    PROVE  /\ Splice(q, i) \in Seq(S)
           /\ Len(Splice(q, i)) = Len(q) - 1
           /\ \A j \in 1 .. Len(q) - 1 :
                 Splice(q, i)[j] = IF j < i THEN q[j] ELSE q[j + 1]
BY DEF Splice

LEMMA NoneIsNeither == None \notin Workers /\ None \notin Slots
BY PoolAssumption DEF Workers, Slots

LEMMA SmallSequences ==
    ASSUME NEW S, NEW a \in S, NEW b \in S
    PROVE  <<a>> \in Seq(S) /\ <<a, b>> \in Seq(S)
OBVIOUS

\* Settling never takes a request out of the answers' type.
LEMMA SettleType ==
    ASSUME NEW R, NEW what \in Answers, Settle(R, what),
           answer \in [Requests -> Answers \cup {"new", "pending"}]
    PROVE  answer' \in [Requests -> Answers \cup {"new", "pending"}]
BY DEF Settle

LEMMA ReleaseType ==
    ASSUME NEW R, Release(R), TypeOK
    PROVE  /\ queueTimer' \subseteq Requests
           /\ workTimer' \subseteq Requests
           /\ listening' \subseteq Requests
           /\ onWorker' \in [Requests -> Workers \cup {None}]
BY DEF Release, TypeOK

-----------------------------------------------------------------------------
(* Type correctness.                                                       *)

LEMMA InitType == Init => TypeInv
BY PoolAssumption DEF Init, TypeInv, TypeOK, Wired, Slots, Workers, Answers, Events

LEMMA EnqueueType ==
    ASSUME TypeInv, NEW r \in Requests, Enqueue(r)
    PROVE  TypeInv'
<1> USE PoolAssumption DEF TypeInv, TypeOK, Wired
<1>1. CASE EnqueueClosed(r)
  BY <1>1 DEF Enqueue, EnqueueClosed, Refuse, slotVars, closeVars, threadVars, Answers
<1>2. CASE EnqueueBusy(r)
  BY <1>2 DEF Enqueue, EnqueueBusy, Refuse, slotVars, closeVars, threadVars, Answers
<1>3. CASE EnqueueAborted(r)
  BY <1>3 DEF Enqueue, EnqueueAborted, Refuse, slotVars, closeVars, threadVars, Answers
<1>4. CASE EnqueueQueued(r)
  BY <1>4 DEF Enqueue, EnqueueQueued, slotVars, closeVars, threadVars, Answers
<1>5. QED
  BY <1>1, <1>2, <1>3, <1>4 DEF Enqueue

LEMMA DispatchType ==
    ASSUME TypeInv, Dispatch
    PROVE  TypeInv'
<1> USE PoolAssumption
<1> DEFINE r == Head(queue)
<1>1. /\ r \in Requests
      /\ queue' \in Seq(Requests) /\ Len(queue') <= MaxQueue
      /\ UNCHANGED <<main, closeAt, closeStep, closeTarget>>
  BY DEF TypeInv, TypeOK, Dispatch, CanDispatch, closeVars
<1>2. CASE UNCHANGED <<requestVars, slotVars, threadVars, faults>>
  BY <1>1, <1>2 DEF TypeInv, TypeOK, Wired, requestVars, slotVars, threadVars
<1>3. ASSUME NEW s \in Slots, SpawnFails(s, r)
      PROVE  TypeInv'
  <2>1. answer' \in [Requests -> Answers \cup {"new", "pending"}]
    BY <1>1, <1>3, SettleType DEF SpawnFails, TypeInv, TypeOK, Answers
  <2>2. /\ queueTimer' \subseteq Requests
        /\ workTimer' \subseteq Requests
        /\ listening' \subseteq Requests
        /\ onWorker' \in [Requests -> Workers \cup {None}]
    BY <1>3, ReleaseType DEF SpawnFails, TypeInv
  <2>3. QED
    BY <1>1, <1>3, <2>1, <2>2
       DEF SpawnFails, Fault, TypeInv, TypeOK, Wired, slotVars, threadVars
<1>4. ASSUME NEW s \in Slots, NEW w \in Workers, EnsureWorker(s, w), TypeInv
      PROVE  /\ home' \in [Workers -> Slots \cup {None}]
             /\ home'[w] \in Slots
             /\ \A v \in Workers : v # w => home'[v] = home[v]
             /\ thread[w] = "unborn" => events[w] = <<>> /\ inbox[w] = <<>>
  <2>1. CASE w = worker[s] /\ UNCHANGED home
    <3>1. thread[w] # "unborn"
      BY <2>1, NoneIsNeither DEF TypeInv, Wired
    <3>2. QED
      BY <2>1, <3>1 DEF TypeInv, TypeOK, Wired
  <2>2. CASE w \in Unborn /\ home' = [home EXCEPT ![w] = s]
    BY <2>2 DEF Unborn, TypeInv, TypeOK, Wired
  <2>3. QED
    BY <1>4, <2>1, <2>2 DEF EnsureWorker
<1>5. ASSUME NEW s \in Slots, NEW w \in Workers, Dispatched(s, r, w)
      PROVE  TypeInv'
  <2>1. /\ home' \in [Workers -> Slots \cup {None}]
        /\ home'[w] \in Slots
        /\ \A v \in Workers : v # w => home'[v] = home[v]
    BY <1>4, <1>5 DEF Dispatched
  <2>2. /\ thread' \in [Workers -> {"unborn", "running", "stopping", "dead", "gone"}]
        /\ thread'[w] # "unborn"
        /\ \A v \in Workers : v # w => thread'[v] = thread[v] /\ inbox'[v] = inbox[v]
    BY <1>5 DEF Dispatched, TypeInv, TypeOK
  <2>3. /\ inbox' \in [Workers -> Seq(Requests)]
        /\ events' = events
    BY <1>1, <1>5 DEF Dispatched, TypeInv, TypeOK
  <2>4. Wired'
    BY <1>5, <2>1, <2>2, <2>3 DEF Dispatched, Wired, TypeInv, TypeOK
  <2>5. QED
    BY <1>1, <1>5, <2>1, <2>2, <2>3, <2>4 DEF Dispatched, TypeInv, TypeOK
<1>6. ASSUME NEW s \in Slots, NEW w \in Workers, PostFails(s, r, w)
      PROVE  TypeInv'
  <2>1. /\ home' \in [Workers -> Slots \cup {None}]
        /\ home'[w] \in Slots
        /\ \A v \in Workers : v # w => home'[v] = home[v]
    BY <1>4, <1>6 DEF PostFails
  <2>2. /\ thread' \in [Workers -> {"unborn", "running", "stopping", "dead", "gone"}]
        /\ thread'[w] # "unborn"
        /\ \A v \in Workers : v # w => thread'[v] = thread[v]
    BY <1>6 DEF PostFails, TypeInv, TypeOK
  <2>3. answer' \in [Requests -> Answers \cup {"new", "pending"}]
    BY <1>1, <1>6, SettleType DEF PostFails, TypeInv, TypeOK, Answers
  <2>4. /\ queueTimer' \subseteq Requests
        /\ workTimer' \subseteq Requests
        /\ listening' \subseteq Requests
        /\ onWorker' \in [Requests -> Workers \cup {None}]
    BY <1>6, ReleaseType DEF PostFails, TypeInv
  <2>5. Wired'
    BY <1>6, <2>1, <2>2 DEF PostFails, Wired, TypeInv, TypeOK
  <2>6. QED
    BY <1>1, <1>6, <2>1, <2>2, <2>3, <2>4, <2>5 DEF PostFails, Fault, TypeInv, TypeOK
<1>7. QED
  BY <1>1, <1>2, <1>3, <1>5, <1>6 DEF Dispatch

LEMMA DrainType ==
    ASSUME TypeInv, Drain
    PROVE  TypeInv'
<1>1. CASE DrainEnds
  BY <1>1 DEF Drain, DrainEnds, TypeInv, TypeOK, Wired, requestVars, slotVars,
              closeVars, threadVars
<1>2. QED
  BY <1>1, DispatchType DEF Drain

LEMMA ThreadStepType ==
    ASSUME TypeInv, NEW w \in Workers, ThreadStep(w)
    PROVE  TypeInv'
<1> USE PoolAssumption
<1>1. CASE WorkerReply(w)
  <2>1. PICK ok \in BOOLEAN :
           events' = [events EXCEPT ![w] =
              @ \o <<[kind |-> "reply", request |-> Head(inbox[w]), ok |-> ok]>>]
    BY <1>1 DEF WorkerReply, Emit
  <2>2. <<[kind |-> "reply", request |-> Head(inbox[w]), ok |-> ok]>> \in Seq(Events)
    BY <1>1 DEF WorkerReply, Events, TypeInv, TypeOK
  <2>3. events' \in [Workers -> Seq(Events)]
    BY <2>1, <2>2 DEF TypeInv, TypeOK
  <2>4. inbox' \in [Workers -> Seq(Requests)]
    BY <1>1 DEF WorkerReply, TypeInv, TypeOK
  <2>5. QED
    BY <1>1, <2>1, <2>3, <2>4
       DEF WorkerReply, TypeInv, TypeOK, Wired, Alive, requestVars, slotVars, closeVars
<1>2. ASSUME thread[w] # "unborn", NEW news \in Seq(Events), ThreadEnds(w, news),
             faults' \in 0 .. MaxFaults
      PROVE  TypeInv'
  <2>1. events' \in [Workers -> Seq(Events)]
    BY <1>2 DEF ThreadEnds, Emit, TypeInv, TypeOK
  <2>2. QED
    BY <1>2, <2>1
       DEF ThreadEnds, Emit, TypeInv, TypeOK, Wired, requestVars, slotVars, closeVars
<1>3. /\ <<[kind |-> "error"], [kind |-> "exit"]>> \in Seq(Events)
      /\ <<[kind |-> "exit"]>> \in Seq(Events)
  <2>1. [kind |-> "error"] \in Events /\ [kind |-> "exit"] \in Events
    BY DEF Events
  <2>2. QED
    BY <2>1, SmallSequences
<1>4. CASE WorkerCrash(w)
  <2>1. thread[w] # "unborn" /\ faults' \in 0 .. MaxFaults
    BY <1>4 DEF WorkerCrash, Fault, Alive, TypeInv, TypeOK
  <2>2. PICK news \in Seq(Events) : ThreadEnds(w, news)
    BY <1>3, <1>4 DEF WorkerCrash
  <2>3. QED
    BY <1>2, <2>1, <2>2
<1>5. CASE WorkerStops(w)
  BY <1>2, <1>3, <1>5 DEF WorkerStops, TypeInv, TypeOK
<1>6. QED
  BY <1>1, <1>4, <1>5 DEF ThreadStep

\* Taking an event leaves the rest of the worker's events.
LEMMA TakeType ==
    ASSUME TypeInv, NEW w \in Workers, NEW kind, Take(w, kind)
    PROVE  /\ events' \in [Workers -> Seq(Events)]
           /\ \A v \in Workers : v # w => events'[v] = events[v]
           /\ thread[w] # "unborn"
           /\ home[w] \in Slots
           /\ main = "idle"
           /\ Head(events[w]) \in Events
           /\ Head(events[w]).kind = kind
BY DEF Take, TypeInv, TypeOK, Wired

LEMMA FinishActiveType ==
    ASSUME TypeInv, NEW s \in Slots, NEW w, NEW what \in Answers, FinishActive(s, w, what)
    PROVE  /\ answer' \in [Requests -> Answers \cup {"new", "pending"}]
           /\ queueTimer' \subseteq Requests
           /\ workTimer' \subseteq Requests
           /\ listening' \subseteq Requests
           /\ onWorker' \in [Requests -> Workers \cup {None}]
           /\ active' \in [Slots -> Requests \cup {None}]
<1>1. CASE HoldsSlot(s, w)
  BY <1>1, SettleType, ReleaseType DEF FinishActive, TypeInv, TypeOK
<1>2. CASE ~HoldsSlot(s, w)
  BY <1>2 DEF FinishActive, requestVars, TypeInv, TypeOK
<1>3. QED
  BY <1>1, <1>2

LEMMA EventStepType ==
    ASSUME TypeInv, NEW w \in Workers, EventStep(w)
    PROVE  TypeInv'
<1> USE PoolAssumption
<1> DEFINE s == home[w]
<1>1. CASE OnMessage(w)
  <2>1. /\ events' \in [Workers -> Seq(Events)]
        /\ \A v \in Workers : v # w => events'[v] = events[v]
        /\ thread[w] # "unborn" /\ s \in Slots /\ main = "idle"
    BY <1>1, TakeType DEF OnMessage
  <2>2. /\ answer' \in [Requests -> Answers \cup {"new", "pending"}]
        /\ queueTimer' \subseteq Requests
        /\ workTimer' \subseteq Requests
        /\ listening' \subseteq Requests
        /\ onWorker' \in [Requests -> Workers \cup {None}]
        /\ active' \in [Slots -> Requests \cup {None}]
        /\ main' \in {"idle", "drain"}
    <3>1. CASE UNCHANGED <<requestVars, active, main>>
      BY <2>1, <3>1 DEF requestVars, TypeInv, TypeOK
    <3>2. ASSUME ~UNCHANGED <<requestVars, active, main>>
          PROVE  \E what \in Answers : FinishActive(s, w, what) /\ main' = "drain"
      BY <1>1, <3>2 DEF OnMessage, Answers
    <3>3. QED
      BY <2>1, <3>1, <3>2, FinishActiveType
  <2>3. QED
    BY <1>1, <2>1, <2>2 DEF OnMessage, TypeInv, TypeOK, Wired, closeVars
<1>2. CASE OnError(w)
  <2>1. /\ events' \in [Workers -> Seq(Events)]
        /\ \A v \in Workers : v # w => events'[v] = events[v]
        /\ thread[w] # "unborn" /\ s \in Slots /\ main = "idle"
    BY <1>2, TakeType DEF OnError
  <2>2. CASE UNCHANGED <<requestVars, slotVars, thread>>
    BY <1>2, <2>1, <2>2 DEF OnError, TypeInv, TypeOK, Wired, requestVars, slotVars, closeVars
  <2>3. CASE /\ FinishActive(s, w, "unavailable")
             /\ UNCHANGED <<worker, recycling, thread>>
    BY <1>2, <2>1, <2>3, FinishActiveType
       DEF OnError, TypeInv, TypeOK, Wired, closeVars, Answers
  <2>4. CASE /\ FinishActive(s, w, "unavailable")
             /\ Detach(s, w)
             /\ recycling' = [recycling EXCEPT ![s] = w]
             /\ Terminate(w)
    <3>1. /\ thread' \in [Workers -> {"unborn", "running", "stopping", "dead", "gone"}]
          /\ \A v \in Workers : (thread'[v] = "unborn") = (thread[v] = "unborn")
          /\ worker' \in [Slots -> Workers \cup {None}]
          /\ \A t \in Slots : worker'[t] \in {worker[t], None}
          /\ recycling' \in [Slots -> Workers \cup {None}]
      BY <2>1, <2>4 DEF Terminate, Detach, TypeInv, TypeOK
    <3>2. Wired'
      BY <1>2, <2>1, <3>1 DEF OnError, TypeInv, TypeOK, Wired
    <3>3. QED
      BY <1>2, <2>1, <2>4, <3>1, <3>2, FinishActiveType
         DEF OnError, TypeInv, TypeOK, closeVars, Answers
  <2>5. QED
    BY <1>2, <2>2, <2>3, <2>4 DEF OnError
<1>3. CASE OnExit(w)
  <2>1. /\ events' \in [Workers -> Seq(Events)]
        /\ \A v \in Workers : v # w => events'[v] = events[v]
        /\ thread[w] # "unborn" /\ s \in Slots /\ main = "idle"
        /\ thread' \in [Workers -> {"unborn", "running", "stopping", "dead", "gone"}]
        /\ \A v \in Workers : (thread'[v] = "unborn") = (thread[v] = "unborn")
    BY <1>3, TakeType DEF OnExit, TypeInv, TypeOK
  <2>2. /\ answer' \in [Requests -> Answers \cup {"new", "pending"}]
        /\ queueTimer' \subseteq Requests
        /\ workTimer' \subseteq Requests
        /\ listening' \subseteq Requests
        /\ onWorker' \in [Requests -> Workers \cup {None}]
        /\ active' \in [Slots -> Requests \cup {None}]
    <3>1. CASE UNCHANGED <<requestVars, slotVars, main>>
      BY <3>1 DEF requestVars, slotVars, TypeInv, TypeOK
    <3>2. CASE FinishActive(s, w, "unavailable")
      BY <2>1, <3>2, FinishActiveType DEF Answers
    <3>3. QED
      BY <1>3, <3>1, <3>2 DEF OnExit
  <2>3. /\ worker' \in [Slots -> Workers \cup {None}]
        /\ \A t \in Slots : worker'[t] \in {worker[t], None}
        /\ main' \in {"idle", "drain"}
        /\ recycling' = recycling
    <3>1. CASE UNCHANGED <<requestVars, slotVars, main>>
      BY <2>1, <3>1 DEF slotVars, TypeInv, TypeOK
    <3>2. CASE UNCHANGED <<worker, main, recycling>>
      BY <2>1, <3>2 DEF TypeInv, TypeOK
    <3>3. CASE Detach(s, w) /\ main' = "drain" /\ UNCHANGED recycling
      BY <2>1, <3>3 DEF Detach, TypeInv, TypeOK
    <3>4. QED
      BY <1>3, <3>1, <3>2, <3>3 DEF OnExit
  <2>4. Wired'
    BY <1>3, <2>1, <2>3 DEF OnExit, TypeInv, TypeOK, Wired
  <2>5. QED
    BY <1>3, <2>1, <2>2, <2>3, <2>4 DEF OnExit, TypeInv, TypeOK, closeVars
<1>4. QED
  BY <1>1, <1>2, <1>3 DEF EventStep

LEMMA TimerStepType ==
    ASSUME TypeInv, NEW r \in Requests, TimerStep(r) \/ Abort(r)
    PROVE  TypeInv'
<1> USE PoolAssumption
<1> DEFINE Rest == UNCHANGED <<onWorker, slotVars, main, closeVars, threadVars, faults>>
<1>1. ASSUME Rest,
             queue' \in Seq(Requests), Len(queue') <= MaxQueue,
             answer' \in [Requests -> Answers \cup {"new", "pending"}],
             queueTimer' \subseteq queueTimer,
             workTimer' \subseteq workTimer,
             listening' \subseteq listening
      PROVE  TypeInv'
  BY <1>1 DEF TypeInv, TypeOK, Wired, slotVars, closeVars, threadVars
<1>2. ASSUME NEW what \in Answers, Drop(r, what)
      PROVE  /\ queue' \in Seq(Requests) /\ Len(queue') <= MaxQueue
             /\ answer' \in [Requests -> Answers \cup {"new", "pending"}]
             /\ queueTimer' \subseteq queueTimer
             /\ listening' \subseteq listening
  <2>1. PICK i \in DOMAIN queue : queue' = Splice(queue, i)
    BY <1>2 DEF Drop
  <2>2. queue' \in Seq(Requests) /\ Len(queue') <= MaxQueue
    BY <2>1, SpliceFacts DEF TypeInv, TypeOK
  <2>3. QED
    BY <1>2, <2>2, SettleType DEF Drop, TypeInv, TypeOK
<1>3. CASE WorkTimeout(r)
  BY <1>1, <1>3, SettleType DEF WorkTimeout, TypeInv, TypeOK, Answers
<1>4. CASE QueueTimeout(r)
  BY <1>1, <1>2, <1>4 DEF QueueTimeout, TypeInv, TypeOK, Answers
<1>5. CASE Abort(r)
  <2>1. CASE AbortActive(r)
    BY <1>1, <1>5, <2>1, SettleType DEF Abort, AbortActive, TypeInv, TypeOK, Answers
  <2>2. CASE AbortQueued(r)
    BY <1>1, <1>2, <1>5, <2>2 DEF Abort, AbortQueued, TypeInv, TypeOK, Answers
  <2>3. QED
    BY <1>5, <2>1, <2>2 DEF Abort
<1>6. QED
  BY <1>3, <1>4, <1>5 DEF TimerStep

LEMMA RecycleDoneType ==
    ASSUME TypeInv, NEW s \in Slots, RecycleDone(s)
    PROVE  TypeInv'
BY DEF RecycleDone, TypeInv, TypeOK, Wired, requestVars, closeVars, threadVars

LEMMA StopSlotWorkerType ==
    ASSUME TypeInv, NEW s \in Slots, s = closeAt, StopSlotWorker(s)
    PROVE  /\ main' \in {"idle", "drain", "close"}
           /\ closeAt' \in 0 .. PoolSize + 1
           /\ closeStep' \in {"clear", "recycle", "terminate"}
           /\ closeTarget' \in Workers \cup {None}
           /\ closeStep' # "clear" \/ main' = "close" => closeAt' \in Slots
           /\ closeStep' = "terminate" => closeTarget' \in Workers
           /\ worker' \in [Slots -> Workers \cup {None}]
           /\ \A t \in Slots : worker'[t] \in {worker[t], None}
           /\ thread' \in [Workers -> {"unborn", "running", "stopping", "dead", "gone"}]
           /\ \A v \in Workers : (thread'[v] = "unborn") = (thread[v] = "unborn")
<1>1. CASE worker[s] = None
  BY <1>1, PoolAssumption DEF StopSlotWorker, NextSlot, TypeInv, TypeOK, Slots
<1>2. CASE worker[s] # None
  <2>1. /\ worker[s] \in Workers
        /\ worker' = [worker EXCEPT ![s] = None]
        /\ Terminate(worker[s])
        /\ closeTarget' = worker[s] /\ closeStep' = "terminate" /\ main' = "idle"
        /\ closeAt' = closeAt
    BY <1>2 DEF StopSlotWorker, TypeInv, TypeOK
  <2>2. /\ thread' \in [Workers -> {"unborn", "running", "stopping", "dead", "gone"}]
        /\ \A v \in Workers : (thread'[v] = "unborn") = (thread[v] = "unborn")
    BY <2>1 DEF Terminate, TypeInv, TypeOK
  <2>3. QED
    BY <2>1, <2>2 DEF TypeInv, TypeOK
<1>3. QED
  BY <1>1, <1>2

LEMMA CloseType ==
    ASSUME TypeInv, CloseStart \/ Closing
    PROVE  TypeInv'
<1> USE PoolAssumption
<1>1. CASE CloseStart
  <2>1. answer' \in [Requests -> Answers \cup {"new", "pending"}]
    BY <1>1, SettleType DEF CloseStart, TypeInv, TypeOK, Answers
  <2>2. QED
    BY <1>1, <2>1 DEF CloseStart, Closed, TypeInv, TypeOK, Wired, Slots, slotVars, threadVars
<1>2. CASE CloseSlot
  <2> DEFINE A == {active[closeAt]} \ {None}
  <2>1. closeAt \in Slots
    BY <1>2 DEF CloseSlot, TypeInv, TypeOK
  <2>2. /\ answer' \in [Requests -> Answers \cup {"new", "pending"}]
        /\ active' \in [Slots -> Requests \cup {None}]
    BY <1>2, SettleType DEF CloseSlot, TypeInv, TypeOK, Answers
  <2>3. /\ queueTimer' \subseteq Requests
        /\ workTimer' \subseteq Requests
        /\ listening' \subseteq Requests
        /\ onWorker' \in [Requests -> Workers \cup {None}]
    BY <1>2, ReleaseType DEF CloseSlot, TypeInv
  <2>4. CASE /\ closeStep' = "recycle"
             /\ main' = "idle"
             /\ UNCHANGED <<closeAt, closeTarget, worker, thread>>
    BY <1>2, <2>1, <2>2, <2>3, <2>4 DEF CloseSlot, TypeInv, TypeOK, Wired
  <2>5. CASE StopSlotWorker(closeAt)
    <3>1. Wired'
      BY <1>2, <2>1, <2>5, StopSlotWorkerType DEF CloseSlot, TypeInv, TypeOK, Wired
    <3>2. QED
      BY <1>2, <2>1, <2>2, <2>3, <2>5, <3>1, StopSlotWorkerType DEF CloseSlot, TypeInv, TypeOK
  <2>6. QED
    BY <1>2, <2>4, <2>5 DEF CloseSlot
<1>3. CASE CloseRecycled
  <2>1. closeAt \in Slots
    BY <1>3 DEF CloseRecycled, TypeInv, TypeOK
  <2>2. Wired'
    BY <1>3, <2>1, StopSlotWorkerType DEF CloseRecycled, TypeInv, TypeOK, Wired
  <2>3. QED
    BY <1>3, <2>1, <2>2, StopSlotWorkerType
       DEF CloseRecycled, TypeInv, TypeOK, requestVars
<1>4. CASE CloseTerminated
  BY <1>4 DEF CloseTerminated, NextSlot, TypeInv, TypeOK, Wired, Slots,
              requestVars, slotVars, threadVars
<1>5. QED
  BY <1>1, <1>2, <1>3, <1>4 DEF Closing

\* The state always has its types, the queue never exceeds its bound and close()
\* is always at a slot of the pool.
THEOREM TypeCorrect == Spec => []TypeInv
<1>1. TypeInv /\ [Next]_vars => TypeInv'
  <2> SUFFICES ASSUME TypeInv, [Next]_vars
               PROVE  TypeInv'
    OBVIOUS
  <2>1. ASSUME NEW r \in Requests, Enqueue(r) \/ TimerStep(r) \/ Abort(r)
        PROVE  TypeInv'
    BY <2>1, EnqueueType, TimerStepType
  <2>2. ASSUME NEW w \in Workers, ThreadStep(w) \/ EventStep(w)
        PROVE  TypeInv'
    BY <2>2, ThreadStepType, EventStepType
  <2>3. ASSUME NEW s \in Slots, RecycleDone(s)
        PROVE  TypeInv'
    BY <2>3, RecycleDoneType
  <2>4. CASE Drain
    BY <2>4, DrainType
  <2>5. CASE CloseStart \/ Closing
    BY <2>5, CloseType
  <2>6. CASE UNCHANGED vars
    BY <2>6 DEF vars, requestVars, slotVars, closeVars, threadVars, TypeInv, TypeOK, Wired
  <2>7. QED
    BY <2>1, <2>2, <2>3, <2>4, <2>5, <2>6 DEF Next, Finished
<1>2. QED
  BY InitType, <1>1, PTL DEF Spec

THEOREM TypeOKAlways == Spec => []TypeOK
BY TypeCorrect, PTL DEF TypeInv

-----------------------------------------------------------------------------
(* Every waiting client is timed.  The property is not inductive: it does  *)
(* not say that an entry is queued once, that two slots never share an     *)
(* entry, or that an entry in a slot was admitted.                         *)

WaitInv ==
    /\ \A i, j \in DOMAIN queue : queue[i] = queue[j] => i = j
    /\ \A i \in DOMAIN queue :
          /\ answer[queue[i]] = "pending"
          /\ queue[i] \in queueTimer
          /\ \A s \in Slots : active[s] # queue[i]
    /\ \A r \in queueTimer : \E i \in DOMAIN queue : queue[i] = r
    /\ \A s, t \in Slots : active[s] = active[t] /\ active[s] # None => s = t
    /\ \A s \in Slots : active[s] # None =>
          answer[active[s]] # "new" /\ onWorker[active[s]] # None
    /\ \A r \in workTimer : answer[r] = "pending" /\ \E s \in Slots : active[s] = r
    /\ \A r \in listening : answer[r] = "pending"
    /\ \A r \in Requests : answer[r] = "pending" => r \in queueTimer \cup workTimer

waitVars == <<queue, answer, queueTimer, workTimer, listening, onWorker, active>>

LEMMA WaitInvImplies == TypeInv /\ WaitInv => EveryWaitIsTimed
<1> SUFFICES ASSUME TypeInv, WaitInv
             PROVE  EveryWaitIsTimed
  OBVIOUS
<1>1. ASSUME NEW r \in Requests, answer[r] = "pending", r \in queueTimer
      PROVE  r \in Queued /\ ActiveIn(r) = {}
  BY <1>1 DEF WaitInv, Queued, ActiveIn
<1>2. ASSUME NEW r \in Requests, answer[r] = "pending", r \in workTimer
      PROVE  r \notin Queued /\ \E s \in Slots : ActiveIn(r) = {s}
  <2>1. PICK s \in Slots : active[s] = r
    BY <1>2 DEF WaitInv
  <2>2. r # None
    BY PoolAssumption
  <2>3. ActiveIn(r) = {s}
    BY <2>1, <2>2 DEF WaitInv, ActiveIn
  <2>4. QED
    BY <2>1, <2>3 DEF WaitInv, Queued
<1>3. queueTimer \cap workTimer = {}
  BY DEF WaitInv, TypeInv, TypeOK
<1>4. \A r \in queueTimer \cup workTimer \cup listening : answer[r] = "pending"
  BY DEF WaitInv
<1>5. QED
  BY <1>1, <1>2, <1>3, <1>4 DEF WaitInv, EveryWaitIsTimed

LEMMA InitWait == Init => WaitInv
BY DEF Init, WaitInv, Slots

LEMMA StutterWait ==
    ASSUME WaitInv, UNCHANGED waitVars
    PROVE  WaitInv'
BY DEF WaitInv, waitVars

LEMMA EnqueueWait ==
    ASSUME TypeInv, WaitInv, NEW r \in Requests, Enqueue(r)
    PROVE  WaitInv'
<1>1. /\ answer[r] = "new" /\ r # None
      /\ \A i \in DOMAIN queue : queue[i] # r
      /\ \A s \in Slots : active[s] # r
      /\ r \notin queueTimer /\ r \notin workTimer /\ r \notin listening
  BY PoolAssumption DEF Enqueue, WaitInv
<1>2. ASSUME NEW why \in Answers, Refuse(r, why)
      PROVE  WaitInv'
  BY <1>1, <1>2 DEF Refuse, WaitInv, slotVars, TypeInv, TypeOK, Answers
<1>3. CASE EnqueueQueued(r)
  <2>1. /\ answer' = [answer EXCEPT ![r] = "pending"]
        /\ listening' \in {listening, listening \cup {r}}
        /\ queueTimer' = queueTimer \cup {r}
        /\ UNCHANGED <<workTimer, onWorker, active>>
    BY <1>3 DEF EnqueueQueued, slotVars
  <2>2. /\ DOMAIN queue' = 1 .. Len(queue) + 1
        /\ \A i \in DOMAIN queue' : queue'[i] = IF i = Len(queue) + 1 THEN r ELSE queue[i]
        /\ DOMAIN queue = 1 .. Len(queue) /\ Len(queue) \in Nat
    BY <1>3 DEF EnqueueQueued, TypeInv, TypeOK
  <2>3. \A q \in Requests : answer'[q] = IF q = r THEN "pending" ELSE answer[q]
    BY <2>1 DEF TypeInv, TypeOK
  <2>4. \A i \in DOMAIN queue : i \in DOMAIN queue' /\ queue'[i] = queue[i]
    BY <2>2
  <2>5. \A i \in DOMAIN queue' : queue'[i] = r \/ (i \in DOMAIN queue /\ queue'[i] = queue[i])
    BY <2>2
  <2>6. \A i, j \in DOMAIN queue' : queue'[i] = queue'[j] => i = j
    BY <1>1, <2>2 DEF WaitInv
  <2>7. Len(queue) + 1 \in DOMAIN queue' /\ queue'[Len(queue) + 1] = r
    BY <2>2
  <2>8. \A i \in DOMAIN queue' :
           /\ answer'[queue'[i]] = "pending"
           /\ queue'[i] \in queueTimer'
           /\ \A s \in Slots : active'[s] # queue'[i]
    BY <1>1, <2>1, <2>3, <2>5 DEF WaitInv, TypeInv, TypeOK
  <2>9. \A q \in queueTimer' : \E i \in DOMAIN queue' : queue'[i] = q
    BY <2>1, <2>4, <2>7 DEF WaitInv
  <2>10. \A s \in Slots : active'[s] # None =>
            answer'[active'[s]] # "new" /\ onWorker'[active'[s]] # None
    BY <1>1, <2>1, <2>3 DEF WaitInv, TypeInv, TypeOK
  <2>11. QED
    BY <1>1, <2>1, <2>3, <2>6, <2>8, <2>9, <2>10 DEF WaitInv, TypeInv, TypeOK
<1>4. QED
  BY <1>2, <1>3 DEF Enqueue, EnqueueClosed, EnqueueBusy, EnqueueAborted, Answers

\* What is left when the head of the queue leaves it.
LEMMA TailFacts ==
    ASSUME TypeInv, WaitInv, queue # <<>>, queue' = Tail(queue)
    PROVE  /\ Head(queue) \in Requests /\ Head(queue) # None
           /\ Head(queue) \in {queue[i] : i \in DOMAIN queue}
           /\ \A i \in DOMAIN queue' : queue'[i] \in Requests /\ queue'[i] # Head(queue)
           /\ \A i \in DOMAIN queue' : \E k \in DOMAIN queue : queue'[i] = queue[k]
           /\ \A k \in DOMAIN queue : queue[k] # Head(queue) =>
                 \E i \in DOMAIN queue' : queue'[i] = queue[k]
           /\ \A i, j \in DOMAIN queue' : queue'[i] = queue'[j] => i = j
<1>1. /\ DOMAIN queue = 1 .. Len(queue) /\ Len(queue) \in Nat \ {0}
      /\ DOMAIN queue' = 1 .. Len(queue) - 1
      /\ \A i \in DOMAIN queue' : queue'[i] = queue[i + 1]
      /\ Head(queue) = queue[1]
      /\ \A i \in DOMAIN queue : queue[i] \in Requests
  BY DEF TypeInv, TypeOK
<1>2. \A i \in DOMAIN queue' : i + 1 \in DOMAIN queue /\ i + 1 # 1
  BY <1>1
<1>3. \A k \in DOMAIN queue : k # 1 => k - 1 \in DOMAIN queue' /\ (k - 1) + 1 = k
  BY <1>1
<1>4. 1 \in DOMAIN queue /\ Head(queue) \in Requests /\ Head(queue) # None
  BY <1>1, PoolAssumption
<1>5. \A i, j \in DOMAIN queue : queue[i] = queue[j] => i = j
  BY DEF WaitInv
<1>6. \A i \in DOMAIN queue' : queue'[i] \in Requests /\ queue'[i] # Head(queue)
  BY <1>1, <1>2, <1>4, <1>5
<1>7. \A k \in DOMAIN queue : queue[k] # Head(queue) =>
         \E i \in DOMAIN queue' : queue'[i] = queue[k]
  BY <1>1, <1>3
<1>8. \A i, j \in DOMAIN queue' : queue'[i] = queue'[j] => i = j
  BY <1>1, <1>2, <1>5
<1>9. QED
  BY <1>1, <1>2, <1>4, <1>6, <1>7, <1>8

\* Entry e leaves the queue settled, everybody else stays.
LEMMA LeaveQueueWait ==
    ASSUME TypeInv, WaitInv, NEW e \in Requests, NEW what \in Answers,
           e \in {queue[i] : i \in DOMAIN queue},
           \A i \in DOMAIN queue' : queue'[i] \in Requests /\ queue'[i] # e,
           \A i \in DOMAIN queue' : \E k \in DOMAIN queue : queue'[i] = queue[k],
           \A k \in DOMAIN queue : queue[k] # e =>
              \E i \in DOMAIN queue' : queue'[i] = queue[k],
           \A i, j \in DOMAIN queue' : queue'[i] = queue'[j] => i = j,
           Settle({e}, what),
           queueTimer' = queueTimer \ {e},
           workTimer' \in {workTimer, workTimer \ {e}},
           listening' = listening \ {e},
           \A r \in Requests : r # e => onWorker'[r] = onWorker[r],
           UNCHANGED active
    PROVE  WaitInv'
<1>1. \A q \in Requests : q # e => answer'[q] = answer[q]
  BY DEF Settle
<1>2. answer'[e] \notin {"new", "pending"} /\ \A s \in Slots : active[s] # e
  BY DEF Settle, WaitInv, TypeInv, TypeOK, Answers
<1>3. workTimer' = workTimer /\ e \notin workTimer
  BY <1>2 DEF WaitInv
<1>4. \A s \in Slots : active[s] \in Requests \cup {None}
  BY DEF TypeInv, TypeOK
<1>5. \A i \in DOMAIN queue' :
         /\ answer'[queue'[i]] = "pending"
         /\ queue'[i] \in queueTimer'
         /\ \A s \in Slots : active'[s] # queue'[i]
  BY <1>1 DEF WaitInv
<1>6. \A r \in queueTimer' : \E i \in DOMAIN queue' : queue'[i] = r
  BY DEF WaitInv
<1>7. \A s \in Slots : active'[s] # None =>
         answer'[active'[s]] # "new" /\ onWorker'[active'[s]] # None
  BY <1>1, <1>2, <1>4 DEF WaitInv
<1>8. \A r \in workTimer' : answer'[r] = "pending" /\ \E s \in Slots : active'[s] = r
  BY <1>1, <1>3 DEF WaitInv, TypeInv, TypeOK
<1>9. \A r \in listening' : answer'[r] = "pending"
  BY <1>1 DEF WaitInv, TypeInv, TypeOK
<1>10. \A r \in Requests : answer'[r] = "pending" => r \in queueTimer' \cup workTimer'
  BY <1>1, <1>2, <1>3 DEF WaitInv
<1>11. QED
  BY <1>5, <1>6, <1>7, <1>8, <1>9, <1>10 DEF WaitInv

LEMMA HeadEndsWait ==
    ASSUME TypeInv, WaitInv, queue # <<>>, queue' = Tail(queue),
           Settle({Head(queue)}, "unavailable"), Release({Head(queue)}), UNCHANGED active
    PROVE  WaitInv'
BY TailFacts, LeaveQueueWait DEF Release, Answers

LEMMA DispatchWait ==
    ASSUME TypeInv, WaitInv, Dispatch
    PROVE  WaitInv'
<1> DEFINE r == Head(queue)
<1>1. queue # <<>> /\ queue' = Tail(queue)
  BY DEF Dispatch, CanDispatch
<1>2. /\ r \in Requests /\ answer[r] = "pending" /\ r # None
      /\ \A s \in Slots : active[s] # r
  BY <1>1, TailFacts DEF WaitInv
<1>3. PICK s \in Slots :
         /\ FirstIdle(s)
         /\ SpawnFails(s, r) \/ \E w \in Workers : Dispatched(s, r, w) \/ PostFails(s, r, w)
  BY <1>2 DEF Dispatch
<1>4. CASE SpawnFails(s, r)
  BY <1>1, <1>4, HeadEndsWait DEF SpawnFails, slotVars
<1>5. ASSUME NEW w \in Workers, PostFails(s, r, w)
      PROVE  WaitInv'
  BY <1>1, <1>5, HeadEndsWait DEF PostFails
<1>6. ASSUME NEW w \in Workers, Dispatched(s, r, w)
      PROVE  WaitInv'
  <2>1. /\ active[s] = None
        /\ active' = [active EXCEPT ![s] = r]
        /\ onWorker' = [onWorker EXCEPT ![r] = w]
        /\ queueTimer' = queueTimer \ {r}
        /\ workTimer' = workTimer \cup {r}
        /\ answer' = answer /\ listening' = listening
        /\ w # None /\ r # None
    BY <1>2, <1>3, <1>6, NoneIsNeither, PoolAssumption DEF Dispatched, FirstIdle, IdleSlots, Idle
  <2>2. /\ \A i \in DOMAIN queue' : queue'[i] \in Requests /\ queue'[i] # r
        /\ \A i \in DOMAIN queue' : \E k \in DOMAIN queue : queue'[i] = queue[k]
        /\ \A k \in DOMAIN queue : queue[k] # r =>
              \E i \in DOMAIN queue' : queue'[i] = queue[k]
        /\ \A i, j \in DOMAIN queue' : queue'[i] = queue'[j] => i = j
    BY <1>1, TailFacts
  <2>3. \A t \in Slots : active'[t] = IF t = s THEN r ELSE active[t]
    BY <2>1 DEF TypeInv, TypeOK
  <2>4. \A q \in Requests : onWorker'[q] = IF q = r THEN w ELSE onWorker[q]
    BY <2>1 DEF TypeInv, TypeOK
  <2>5. \A i \in DOMAIN queue' :
           /\ answer'[queue'[i]] = "pending"
           /\ queue'[i] \in queueTimer'
           /\ \A t \in Slots : active'[t] # queue'[i]
    BY <2>1, <2>2, <2>3 DEF WaitInv
  <2>6. \A q \in queueTimer' : \E i \in DOMAIN queue' : queue'[i] = q
    BY <2>1, <2>2 DEF WaitInv
  <2>7. \A t, u \in Slots : active'[t] = active'[u] /\ active'[t] # None => t = u
    BY <1>2, <2>3 DEF WaitInv
  <2>8. \A t \in Slots : active'[t] # None =>
           answer'[active'[t]] # "new" /\ onWorker'[active'[t]] # None
    BY <1>2, <2>1, <2>3, <2>4 DEF WaitInv, TypeInv, TypeOK
  <2>9. \A q \in workTimer' : answer'[q] = "pending" /\ \E t \in Slots : active'[t] = q
    BY <1>2, <2>1, <2>3, PoolAssumption DEF WaitInv, TypeInv, TypeOK
  <2>10. QED
    BY <2>1, <2>2, <2>5, <2>6, <2>7, <2>8, <2>9 DEF WaitInv
<1>7. QED
  BY <1>3, <1>4, <1>5, <1>6

\* The request of slot s is settled and leaves the slot.
LEMMA LeaveSlotWait ==
    ASSUME TypeInv, WaitInv, NEW s \in Slots, active[s] # None, NEW what \in Answers,
           Settle({active[s]}, what), Release({active[s]}),
           active' = [active EXCEPT ![s] = None], UNCHANGED queue
    PROVE  WaitInv'
<1> DEFINE e == active[s]
<1>1. e \in Requests /\ \A i \in DOMAIN queue : queue[i] # e
  BY DEF WaitInv, TypeInv, TypeOK
<1>2. /\ \A q \in Requests : q # e => answer'[q] = answer[q] /\ onWorker'[q] = onWorker[q]
      /\ answer'[e] \notin {"new", "pending"}
  BY <1>1 DEF Settle, Release, WaitInv, Answers, TypeInv, TypeOK
<1>3. \A t \in Slots :
         /\ active'[t] = IF t = s THEN None ELSE active[t]
         /\ t # s => active[t] # e
         /\ active[t] \in Requests \cup {None}
  BY DEF WaitInv, TypeInv, TypeOK
<1>4. /\ queueTimer' = queueTimer \ {e}
      /\ workTimer' = workTimer \ {e}
      /\ listening' = listening \ {e}
  BY DEF Release
<1>5. \A i \in DOMAIN queue' :
         /\ answer'[queue'[i]] = "pending"
         /\ queue'[i] \in queueTimer'
         /\ \A t \in Slots : active'[t] # queue'[i]
  BY <1>1, <1>2, <1>3, <1>4, PoolAssumption DEF WaitInv, TypeInv, TypeOK
<1>6. \A r \in queueTimer' : \E i \in DOMAIN queue' : queue'[i] = r
  BY <1>4 DEF WaitInv
<1>7. \A t, u \in Slots : active'[t] = active'[u] /\ active'[t] # None => t = u
  BY <1>3 DEF WaitInv
<1>8. \A t \in Slots : active'[t] # None =>
         answer'[active'[t]] # "new" /\ onWorker'[active'[t]] # None
  BY <1>2, <1>3 DEF WaitInv
<1>9. \A r \in workTimer' : answer'[r] = "pending" /\ \E t \in Slots : active'[t] = r
  BY <1>2, <1>3, <1>4 DEF WaitInv, TypeInv, TypeOK
<1>10. \A r \in listening' : answer'[r] = "pending"
  BY <1>2, <1>4 DEF WaitInv, TypeInv, TypeOK
<1>11. \A r \in Requests : answer'[r] = "pending" => r \in queueTimer' \cup workTimer'
  BY <1>2, <1>4 DEF WaitInv
<1>12. \A i, j \in DOMAIN queue' : queue'[i] = queue'[j] => i = j
  BY DEF WaitInv
<1>13. QED
  BY <1>5, <1>6, <1>7, <1>8, <1>9, <1>10, <1>11, <1>12 DEF WaitInv

LEMMA FinishActiveWait ==
    ASSUME TypeInv, WaitInv, NEW s \in Slots, NEW w, NEW what \in Answers,
           FinishActive(s, w, what), UNCHANGED queue
    PROVE  WaitInv'
<1>1. CASE HoldsSlot(s, w)
  BY <1>1, LeaveSlotWait DEF FinishActive, HoldsSlot
<1>2. CASE ~HoldsSlot(s, w)
  BY <1>2, StutterWait DEF FinishActive, requestVars, waitVars
<1>3. QED
  BY <1>1, <1>2

LEMMA EventStepWait ==
    ASSUME TypeInv, WaitInv, NEW w \in Workers, EventStep(w)
    PROVE  WaitInv'
<1>1. home[w] \in Slots
  BY TakeType DEF EventStep, OnMessage, OnError, OnExit
<1>2. UNCHANGED queue
  BY DEF EventStep, OnMessage, OnError, OnExit
<1>3. \/ UNCHANGED <<requestVars, active>>
      \/ \E what \in Answers : FinishActive(home[w], w, what)
  BY DEF EventStep, OnMessage, OnError, OnExit, slotVars, Answers
<1>4. QED
  BY <1>1, <1>2, <1>3, FinishActiveWait, StutterWait DEF requestVars, waitVars

\* A client in a slot is answered early; its entry stays in the slot.
LEMMA AnswerEarlyWait ==
    ASSUME TypeInv, WaitInv, NEW r \in Requests, NEW what \in Answers,
           \E s \in Slots : active[s] = r,
           Settle({r}, what), workTimer' = workTimer \ {r}, listening' = listening \ {r},
           UNCHANGED <<queue, queueTimer, onWorker, active>>
    PROVE  WaitInv'
<1>1. PICK s \in Slots : active[s] = r
  OBVIOUS
<1>2. /\ r # None /\ answer[r] # "new"
      /\ \A i \in DOMAIN queue : queue[i] # r
  BY <1>1, PoolAssumption DEF WaitInv
<1>3. /\ \A q \in Requests : q # r => answer'[q] = answer[q]
      /\ answer'[r] \notin {"new", "pending"}
  BY <1>2 DEF Settle, Answers, TypeInv, TypeOK
<1>4. QED
  BY <1>2, <1>3 DEF WaitInv, TypeInv, TypeOK

\* An entry is taken out of the middle of the queue.
LEMMA DropWait ==
    ASSUME TypeInv, WaitInv, NEW r \in Requests, NEW what \in Answers, Drop(r, what),
           UNCHANGED <<workTimer, onWorker, active>>
    PROVE  WaitInv'
<1>1. PICK i \in DOMAIN queue : queue[i] = r /\ queue' = Splice(queue, i)
  BY DEF Drop
<1>2. /\ DOMAIN queue = 1 .. Len(queue) /\ Len(queue) \in Nat /\ i \in 1 .. Len(queue)
      /\ DOMAIN queue' = 1 .. Len(queue) - 1
      /\ \A j \in DOMAIN queue' : queue'[j] = IF j < i THEN queue[j] ELSE queue[j + 1]
      /\ \A j \in DOMAIN queue : queue[j] \in Requests
  BY <1>1 DEF Splice, TypeInv, TypeOK
<1>3. \A j, k \in DOMAIN queue : queue[j] = queue[k] => j = k
  BY DEF WaitInv
<1>4. \A j \in DOMAIN queue' :
         IF j < i THEN j \in DOMAIN queue /\ j # i ELSE j + 1 \in DOMAIN queue /\ j + 1 # i
  BY <1>2
<1>5. \A j \in DOMAIN queue' : queue'[j] \in Requests /\ queue'[j] # r
  BY <1>1, <1>2, <1>3, <1>4
<1>6. \A j \in DOMAIN queue' : \E k \in DOMAIN queue : queue'[j] = queue[k]
  BY <1>2, <1>4
<1>7. \A k \in DOMAIN queue : queue[k] # r => \E j \in DOMAIN queue' : queue'[j] = queue[k]
  <2> SUFFICES ASSUME NEW k \in DOMAIN queue, queue[k] # r
               PROVE  \E j \in DOMAIN queue' : queue'[j] = queue[k]
    OBVIOUS
  <2>1. CASE k < i
    <3>1. k \in DOMAIN queue' /\ queue'[k] = queue[k]
      BY <1>2, <2>1
    <3>2. QED
      BY <3>1
  <2>2. CASE k > i
    <3>1. k - 1 \in DOMAIN queue' /\ queue'[k - 1] = queue[k]
      BY <1>2, <2>2
    <3>2. QED
      BY <3>1
  <2>3. QED
    BY <1>1, <1>2, <2>1, <2>2
<1>8. \A j, k \in DOMAIN queue' : queue'[j] = queue'[k] => j = k
  BY <1>2, <1>3, <1>4
<1>9. r \in {queue[j] : j \in DOMAIN queue}
  BY <1>1
<1>10. QED
  BY <1>5, <1>6, <1>7, <1>8, <1>9, LeaveQueueWait DEF Drop

LEMMA TimerStepWait ==
    ASSUME TypeInv, WaitInv, NEW r \in Requests, TimerStep(r) \/ Abort(r)
    PROVE  WaitInv'
<1>1. CASE WorkTimeout(r)
  <2>1. \E s \in Slots : active[s] = r
    BY <1>1 DEF WorkTimeout, WaitInv
  <2>2. QED
    BY <1>1, <2>1, AnswerEarlyWait DEF WorkTimeout, slotVars, Answers
<1>2. CASE QueueTimeout(r)
  <2>1. r \in Queued
    BY <1>2 DEF QueueTimeout, WaitInv, Queued
  <2>2. QED
    BY <1>2, <2>1, DropWait DEF QueueTimeout, slotVars, Answers
<1>3. CASE Abort(r)
  <2>1. CASE AbortActive(r)
    BY <1>3, <2>1, AnswerEarlyWait DEF Abort, AbortActive, Serves, slotVars, Answers
  <2>2. CASE AbortQueued(r)
    <3>1. answer[r] = "pending" /\ \A s \in Slots : active[s] # r
      BY <1>3, <2>2, PoolAssumption DEF Abort, AbortQueued, Serves, WaitInv
    <3>2. r \in Queued
      BY <3>1 DEF WaitInv, Queued
    <3>3. QED
      BY <1>3, <2>2, <3>2, DropWait DEF Abort, AbortQueued, slotVars, Answers
  <2>3. QED
    BY <1>3, <2>1, <2>2 DEF Abort
<1>4. QED
  BY <1>1, <1>2, <1>3 DEF TimerStep

LEMMA CloseWait ==
    ASSUME TypeInv, WaitInv, CloseStart \/ Closing
    PROVE  WaitInv'
<1>1. CASE CloseStart
  <2>1. /\ queue' = <<>>
        /\ queueTimer' = {}
        /\ listening' = listening \ Queued
        /\ UNCHANGED <<workTimer, onWorker, active>>
    BY <1>1 DEF CloseStart, slotVars, WaitInv, Queued
  <2>2. \A r \in Requests : answer'[r] = IF r \in Queued THEN "unavailable" ELSE answer[r]
    BY <1>1 DEF CloseStart, Settle, Queued, WaitInv
  <2>3. \A s \in Slots : active[s] \notin Queued /\ active[s] \in Requests \cup {None}
    BY DEF WaitInv, Queued, TypeInv, TypeOK
  <2>4. \A r \in queueTimer : r \in Queued
    BY DEF WaitInv, Queued
  <2>5. \A s \in Slots : active'[s] # None =>
           answer'[active'[s]] # "new" /\ onWorker'[active'[s]] # None
    BY <2>1, <2>2, <2>3 DEF WaitInv
  <2>6. \A r \in workTimer' : answer'[r] = "pending" /\ \E s \in Slots : active'[s] = r
    BY <2>1, <2>2, <2>3 DEF WaitInv, TypeInv, TypeOK
  <2>7. \A r \in listening' : answer'[r] = "pending"
    BY <2>1, <2>2 DEF WaitInv, TypeInv, TypeOK
  <2>8. \A r \in Requests : answer'[r] = "pending" => r \in queueTimer' \cup workTimer'
    BY <2>1, <2>2, <2>4 DEF WaitInv
  <2>9. DOMAIN queue' = {}
    BY <2>1
  <2>10. QED
    BY <2>1, <2>5, <2>6, <2>7, <2>8, <2>9 DEF WaitInv
<1>2. CASE CloseSlot
  <2>1. closeAt \in Slots
    BY <1>2 DEF CloseSlot, TypeInv, TypeOK
  <2>2. CASE active[closeAt] = None
    <3>1. /\ answer' = answer
          /\ queueTimer' = queueTimer /\ workTimer' = workTimer
          /\ listening' = listening /\ onWorker' = onWorker
          /\ active' = active
      BY <1>2, <2>1, <2>2 DEF CloseSlot, Settle, Release, TypeInv, TypeOK
    <3>2. QED
      BY <1>2, <3>1, StutterWait DEF CloseSlot, waitVars
  <2>3. CASE active[closeAt] # None
    <3>1. {active[closeAt]} \ {None} = {active[closeAt]}
      BY <2>3
    <3>2. QED
      BY <1>2, <2>1, <2>3, <3>1, LeaveSlotWait DEF CloseSlot, Answers
  <2>4. QED
    BY <2>2, <2>3
<1>3. CASE CloseRecycled \/ CloseTerminated
  BY <1>3, StutterWait DEF CloseRecycled, CloseTerminated, requestVars, slotVars, waitVars
<1>4. QED
  BY <1>1, <1>2, <1>3 DEF Closing

\* Requests are in one place at a time, with what belongs to that place.
THEOREM WaitInvAlways == Spec => []WaitInv
<1>1. TypeInv /\ WaitInv /\ [Next]_vars => WaitInv'
  <2> SUFFICES ASSUME TypeInv, WaitInv, [Next]_vars
               PROVE  WaitInv'
    OBVIOUS
  <2>1. ASSUME NEW r \in Requests, Enqueue(r) \/ TimerStep(r) \/ Abort(r)
        PROVE  WaitInv'
    BY <2>1, EnqueueWait, TimerStepWait
  <2>2. ASSUME NEW w \in Workers, EventStep(w)
        PROVE  WaitInv'
    BY <2>2, EventStepWait
  <2>3. ASSUME NEW w \in Workers, ThreadStep(w)
        PROVE  WaitInv'
    BY <2>3, StutterWait DEF ThreadStep, WorkerReply, WorkerCrash, WorkerStops, ThreadEnds,
                             requestVars, slotVars, waitVars
  <2>4. ASSUME NEW s \in Slots, RecycleDone(s)
        PROVE  WaitInv'
    BY <2>4, StutterWait DEF RecycleDone, requestVars, waitVars
  <2>5. CASE Drain
    BY <2>5, DispatchWait, StutterWait DEF Drain, DrainEnds, requestVars, slotVars, waitVars
  <2>6. CASE CloseStart \/ Closing
    BY <2>6, CloseWait
  <2>7. CASE UNCHANGED vars
    BY <2>7, StutterWait DEF vars, requestVars, slotVars, waitVars
  <2>8. QED
    BY <2>1, <2>2, <2>3, <2>4, <2>5, <2>6, <2>7 DEF Next, Finished
<1>2. QED
  BY InitWait, <1>1, TypeCorrect, PTL DEF Spec

\* Every client that waits has a timer to answer it, wherever its request is,
\* and no timer or abort listener is left behind.
THEOREM WaitsAreTimed == Spec => []EveryWaitIsTimed
BY WaitInvAlways, TypeCorrect, WaitInvImplies, PTL

-----------------------------------------------------------------------------
(* A client is answered once.                                              *)

Final(r) == answer[r] \in Answers => answer'[r] = answer[r]

LEMMA SettleIsFinal ==
    ASSUME NEW R, NEW what, Settle(R, what)
    PROVE  \A r \in Requests : Final(r)
BY DEF Settle, Final, Answers

LEMMA UnansweredIsFinal ==
    ASSUME UNCHANGED answer
    PROVE  \A r \in Requests : Final(r)
BY DEF Final

LEMMA StepIsFinal ==
    ASSUME TypeInv, [Next]_vars
    PROVE  \A r \in Requests : Final(r)
<1>1. ASSUME NEW q \in Requests, Enqueue(q)
      PROVE  \A r \in Requests : Final(r)
  <2>1. answer[q] = "new" /\ \E v : answer' = [answer EXCEPT ![q] = v]
    BY <1>1 DEF Enqueue, EnqueueClosed, EnqueueBusy, EnqueueAborted, EnqueueQueued, Refuse
  <2>2. QED
    BY <2>1 DEF Final, Answers, TypeInv, TypeOK
<1>2. ASSUME NEW q \in Requests, TimerStep(q) \/ Abort(q)
      PROVE  \A r \in Requests : Final(r)
  BY <1>2, SettleIsFinal, UnansweredIsFinal
     DEF TimerStep, WorkTimeout, QueueTimeout, Drop, Abort, AbortActive, AbortQueued
<1>3. ASSUME NEW w \in Workers, EventStep(w)
      PROVE  \A r \in Requests : Final(r)
  BY <1>3, SettleIsFinal, UnansweredIsFinal
     DEF EventStep, OnMessage, OnError, OnExit, FinishActive, requestVars
<1>4. CASE Drain
  BY <1>4, SettleIsFinal, UnansweredIsFinal
     DEF Drain, DrainEnds, Dispatch, SpawnFails, Dispatched, PostFails, requestVars
<1>5. CASE CloseStart \/ Closing
  BY <1>5, SettleIsFinal, UnansweredIsFinal
     DEF CloseStart, Closing, CloseSlot, CloseRecycled, CloseTerminated, requestVars
<1>6. ASSUME NEW w \in Workers, ThreadStep(w)
      PROVE  \A r \in Requests : Final(r)
  BY <1>6, UnansweredIsFinal
     DEF ThreadStep, WorkerReply, WorkerCrash, WorkerStops, ThreadEnds, requestVars
<1>7. ASSUME NEW s \in Slots, RecycleDone(s)
      PROVE  \A r \in Requests : Final(r)
  BY <1>7, UnansweredIsFinal DEF RecycleDone, requestVars
<1>8. CASE UNCHANGED vars
  BY <1>8, UnansweredIsFinal DEF vars, requestVars
<1>9. QED
  BY <1>1, <1>2, <1>3, <1>4, <1>5, <1>6, <1>7, <1>8 DEF Next, Finished

\* No late reply, timer, abort or shutdown changes an answer that was given.
THEOREM AnswersAreFinal == Spec => AnsweredOnce
<1>1. TypeInv /\ [Next]_vars =>
         [\A r \in Requests : answer[r] \in Answers => answer'[r] = answer[r]]_vars
  BY StepIsFinal DEF Final
<1>2. QED
  BY <1>1, TypeCorrect, PTL DEF Spec, AnsweredOnce

-----------------------------------------------------------------------------
(***************************************************************************)
(* Native calls.  A thread that is alive is its slot's worker, or being    *)
(* recycled there, or the one close() waits for (Owned), so that slots     *)
(* count threads; what a thread computes or has replied is its slot's      *)
(* request, unless close() took the slot away (Called); and what a dead    *)
(* thread has left to be handled ends with its exit (Fits).                *)
(***************************************************************************)

\* What a thread has still to compute and to report.
Fits(w) ==
    /\ Len(inbox[w]) <= 1
    /\ inbox[w] # <<>> => thread[w] \in Alive /\ events[w] = <<>>
    /\ thread[w] \in {"unborn", "gone"} => events[w] = <<>>
    /\ thread[w] \in Alive =>
          /\ Len(events[w]) <= 1
          /\ \A i \in DOMAIN events[w] : events[w][i].kind = "reply"
    /\ thread[w] = "dead" =>
          /\ events[w] # <<>>
          /\ \A i \in DOMAIN events[w] :
                /\ events[w][i].kind = "exit" <=> i = Len(events[w])
                /\ events[w][i].kind = "reply" => i = 1

\* The thread w is computing r, or its reply to r was not handled yet.
Computes(w, r) == inbox[w] # <<>> /\ inbox[w][1] = r
Replied(w, r) == events[w] # <<>> /\ events[w][1].kind = "reply" /\ events[w][1].request = r
InCall(w, r) == Computes(w, r) \/ Replied(w, r)

\* The slot of a call has its request, until close() lets go of the slot.
Called(w) ==
    \A r \in Requests : InCall(w, r) =>
       \/ active[home[w]] = r /\ worker[home[w]] = w
       \/ Closed /\ worker[home[w]] # w

\* A live thread belongs to its slot.
Owned(w) ==
    thread[w] \in Alive =>
       \/ worker[home[w]] = w
       \/ recycling[home[w]] = w
       \/ closeStep = "terminate" /\ closeTarget = w /\ closeAt = home[w]

WorkerFits(s) ==
    worker[s] # None => home[worker[s]] = s /\ thread[worker[s]] \in {"running", "dead"}

RecyclingFits(s) ==
    recycling[s] # None =>
       /\ worker[s] = None /\ active[s] = None
       /\ home[recycling[s]] = s
       /\ thread[recycling[s]] \in {"stopping", "dead", "gone"}

\* A busy slot waits for its worker.
ActiveFits(s) ==
    active[s] # None =>
       /\ worker[s] # None /\ onWorker[active[s]] = worker[s]
       /\ Computes(worker[s], active[s]) \/ events[worker[s]] # <<>>

Empty(s) == worker[s] = None /\ recycling[s] = None /\ active[s] = None

\* close() leaves empty slots behind it.
CloseFits ==
    /\ main = "close" => closeStep = "clear"
    /\ Closed => queue = <<>> /\ \A s \in Slots : s < closeAt => Empty(s)
    /\ closeStep # "clear" => worker[closeAt] = None /\ active[closeAt] = None
    /\ closeStep = "terminate" => recycling[closeAt] = None /\ home[closeTarget] = closeAt

\* Only close() ends a thread inside a call.
Undisturbed(w) == thread[w] = "stopping" /\ inbox[w] # <<>> => Closed

CallInv ==
    /\ \A w \in Workers : Fits(w) /\ Called(w) /\ Owned(w) /\ Undisturbed(w)
    /\ \A s \in Slots : WorkerFits(s) /\ RecyclingFits(s) /\ ActiveFits(s)
    /\ CloseFits
    /\ WorkConserving

callVars == <<onWorker, slotVars, closeVars, threadVars>>

-----------------------------------------------------------------------------
(* The properties follow.                                                  *)

LEMMA SequenceTypes ==
    ASSUME TypeInv, NEW w \in Workers
    PROVE  /\ inbox[w] \in Seq(Requests) /\ DOMAIN inbox[w] = 1 .. Len(inbox[w])
           /\ Len(inbox[w]) \in Nat /\ (inbox[w] # <<>> => Len(inbox[w]) >= 1)
           /\ events[w] \in Seq(Events) /\ DOMAIN events[w] = 1 .. Len(events[w])
           /\ Len(events[w]) \in Nat /\ (events[w] # <<>> => Len(events[w]) >= 1)
           /\ \A i \in DOMAIN events[w] :
                 events[w][i].kind = "reply" => events[w][i].request \in Requests
<1>1. inbox[w] \in Seq(Requests) /\ events[w] \in Seq(Events)
  BY DEF TypeInv, TypeOK
<1>2. \A i \in DOMAIN events[w] : events[w][i] \in Events
  BY <1>1
<1>3. \A e \in Events : e.kind = "reply" => e.request \in Requests
  BY DEF Events
<1>4. QED
  BY <1>1, <1>2, <1>3

\* A thread has one call at most.
LEMMA CallFacts ==
    ASSUME TypeInv, CallInv, NEW w \in Workers
    PROVE  /\ Fits(w) /\ Called(w) /\ Owned(w) /\ Undisturbed(w)
           /\ inbox[w] # <<>> => inbox[w][1] \in Requests /\ Computes(w, inbox[w][1])
           /\ \A i \in DOMAIN events[w] : events[w][i].kind = "reply" =>
                 /\ i = 1 /\ inbox[w] = <<>>
                 /\ events[w][1].request \in Requests
                 /\ Replied(w, events[w][1].request)
<1>1. Fits(w) /\ Called(w) /\ Owned(w) /\ Undisturbed(w)
  BY DEF CallInv
<1>2. inbox[w] # <<>> => inbox[w][1] \in Requests
  BY SequenceTypes
<1>3. ASSUME NEW i \in DOMAIN events[w], events[w][i].kind = "reply"
      PROVE  i = 1 /\ inbox[w] = <<>>
  <2>1. thread[w] \in {"unborn", "running", "stopping", "dead", "gone"}
    BY DEF TypeInv, TypeOK
  <2>2. events[w] # <<>>
    BY <1>3, SequenceTypes
  <2>3. i = 1
    BY <1>1, <1>3, <2>1, <2>2, SequenceTypes DEF Fits, Alive
  <2>4. QED
    BY <1>1, <2>2, <2>3 DEF Fits
<1>4. ASSUME NEW i \in DOMAIN events[w], events[w][i].kind = "reply"
      PROVE  events[w][1].request \in Requests /\ Replied(w, events[w][1].request)
  BY <1>3, <1>4, SequenceTypes DEF Replied
<1>5. QED
  BY <1>1, <1>2, <1>3, <1>4 DEF Computes

LEMMA CallsMatch == TypeInv /\ CallInv => SlotsMatchCalls
<1> SUFFICES ASSUME TypeInv, CallInv
             PROVE  SlotsMatchCalls
  OBVIOUS
<1>1. ASSUME NEW s \in Slots, active[s] # None
      PROVE  /\ worker[s] = onWorker[active[s]]
             /\ \/ \E i \in DOMAIN inbox[worker[s]] : inbox[worker[s]][i] = active[s]
                \/ events[worker[s]] # <<>>
  <2>1. ActiveFits(s) /\ worker[s] \in Workers
    BY <1>1 DEF CallInv, ActiveFits, TypeInv, TypeOK
  <2>2. Computes(worker[s], active[s]) => 1 \in DOMAIN inbox[worker[s]]
    BY <2>1, SequenceTypes DEF Computes
  <2>3. QED
    BY <1>1, <2>1, <2>2 DEF ActiveFits, Computes
<1>2. SlotIsHeldByCall
  BY <1>1 DEF SlotIsHeldByCall
<1>3. ASSUME NEW w \in Workers
      PROVE  /\ Len(inbox[w]) <= 1
             /\ \A i \in PendingReplies(w) :
                   /\ inbox[w] = <<>>
                   /\ PendingReplies(w) = {i}
                   /\ \A s \in Slots :
                         HoldsSlot(s, w) => events[w][i].request = active[s]
  <2>1. Len(inbox[w]) <= 1
    BY CallFacts DEF Fits
  <2>2. ASSUME NEW i \in PendingReplies(w)
        PROVE  inbox[w] = <<>> /\ PendingReplies(w) = {i} /\ i = 1
    BY <2>2, CallFacts DEF PendingReplies
  <2>3. ASSUME NEW i \in PendingReplies(w), NEW s \in Slots, HoldsSlot(s, w)
        PROVE  events[w][i].request = active[s]
    <3>1. worker[s] = w /\ home[w] = s
      BY <2>3 DEF CallInv, ActiveFits, WorkerFits, HoldsSlot
    <3>2. i = 1 /\ InCall(w, events[w][1].request) /\ events[w][1].request \in Requests
      BY <2>2, <2>3, CallFacts DEF InCall, PendingReplies
    <3>3. QED
      BY <3>1, <3>2, CallFacts DEF Called
  <2>4. QED
    BY <2>1, <2>2, <2>3
<1>4. OneCallPerWorker
  BY <1>3 DEF OneCallPerWorker
<1>5. QED
  BY <1>2, <1>4 DEF SlotsMatchCalls, CallInv

LEMMA ThreadsEndWell == TypeInv /\ WaitInv /\ CallInv => ThreadsAreSafe
<1> SUFFICES ASSUME TypeInv, WaitInv, CallInv
             PROVE  ThreadsAreSafe
  OBVIOUS
<1> DEFINE live == {w \in Workers : thread[w] \in Alive}
<1>1. \A w \in live : home[w] \in Slots
  BY DEF TypeInv, Wired, Alive
<1>2. ThreadsBounded
  <2> DEFINE f == [w \in live |-> home[w]]
  <2>1. \A v, w \in live : home[v] = home[w] => v = w
    <3> SUFFICES ASSUME NEW v \in live, NEW w \in live, home[v] = home[w]
                 PROVE  v = w
      OBVIOUS
    <3>1. Owned(v) /\ Owned(w) /\ RecyclingFits(home[v]) /\ CloseFits
      BY <1>1 DEF CallInv
    <3>2. v # None /\ w # None
      BY NoneIsNeither
    <3>3. QED
      BY <3>1, <3>2 DEF Owned, RecyclingFits, CloseFits
  <2>2. f \in Injection(live, Slots)
    BY <1>1, <2>1 DEF Injection, IsInjective
  <2>3. IsFiniteSet(Slots) /\ Cardinality(Slots) = PoolSize
    BY FS_Interval, PoolAssumption DEF Slots
  <2> HIDE DEF f
  <2>4. Cardinality(live) <= PoolSize
    BY <2>2, <2>3, FS_Injection
  <2>5. QED
    BY <2>4 DEF ThreadsBounded
<1>3. ASSUME CloseDone
      PROVE  live = {} /\ \A r \in Requests : answer[r] # "pending"
  <2>1. Closed /\ closeStep = "clear" /\ \A s \in Slots : s < closeAt
    BY <1>3, PoolAssumption DEF CloseDone, Closed, TypeInv, TypeOK, Slots
  <2>2. queue = <<>> /\ \A s \in Slots : Empty(s)
    BY <2>1 DEF CallInv, CloseFits
  <2>3. live = {}
    BY <1>1, <2>1, <2>2, NoneIsNeither DEF CallInv, Owned, Empty
  <2>4. \A r \in Requests : answer[r] # "pending"
    BY <2>2, PoolAssumption DEF WaitInv, Empty
  <2>5. QED
    BY <2>3, <2>4
<1>4. CleanShutdown
  BY <1>3 DEF CleanShutdown
<1>5. NoTerminateMidCall
  BY DEF CallInv, Undisturbed, NoTerminateMidCall
<1>6. QED
  BY <1>2, <1>4, <1>5 DEF ThreadsAreSafe

-----------------------------------------------------------------------------
(* Each step preserves CallInv.                                            *)

LEMMA InitCall == Init => CallInv
BY PoolAssumption
   DEF Init, CallInv, Fits, Called, InCall, Computes, Replied, Owned, Undisturbed, Alive,
       WorkerFits, RecyclingFits, ActiveFits, CloseFits, Closed, WorkConserving

\* A step that touches no slot and no thread.
LEMMA QuietCall ==
    ASSUME CallInv, UNCHANGED callVars, WorkConserving',
           Closed => queue' = <<>>,
           main' = "close" => closeStep = "clear"
    PROVE  CallInv'
<1> USE DEF callVars, slotVars, closeVars, threadVars
<1>1. ASSUME NEW w \in Workers
      PROVE  Fits(w)' /\ Called(w)' /\ Owned(w)' /\ Undisturbed(w)'
  BY DEF CallInv, Fits, Called, InCall, Computes, Replied, Owned, Undisturbed, Closed
<1>2. ASSUME NEW s \in Slots
      PROVE  WorkerFits(s)' /\ RecyclingFits(s)' /\ ActiveFits(s)'
  BY DEF CallInv, WorkerFits, RecyclingFits, ActiveFits, Computes
<1>3. CloseFits'
  BY DEF CallInv, CloseFits, Empty, Closed
<1>4. QED
  BY <1>1, <1>2, <1>3 DEF CallInv

LEMMA EnqueueCall ==
    ASSUME TypeInv, CallInv, NEW r \in Requests, Enqueue(r)
    PROVE  CallInv'
<1>1. UNCHANGED callVars
  BY DEF Enqueue, EnqueueClosed, EnqueueBusy, EnqueueAborted, EnqueueQueued, Refuse, callVars
<1>2. CASE EnqueueQueued(r)
  BY <1>1, <1>2, QuietCall DEF EnqueueQueued, WorkConserving
<1>3. CASE UNCHANGED <<queue, main>>
  <2>1. WorkConserving'
    BY <1>1, <1>3 DEF CallInv, WorkConserving, IdleSlots, Idle, Closed, callVars, slotVars, closeVars
  <2>2. QED
    BY <1>1, <1>3, <2>1, QuietCall DEF CallInv, CloseFits
<1>4. QED
  BY <1>2, <1>3 DEF Enqueue, EnqueueClosed, EnqueueBusy, EnqueueAborted, Refuse

LEMMA TimerCall ==
    ASSUME TypeInv, CallInv, NEW r \in Requests, TimerStep(r) \/ Abort(r)
    PROVE  CallInv'
<1>1. UNCHANGED callVars /\ UNCHANGED main
  BY DEF TimerStep, WorkTimeout, QueueTimeout, Drop, Abort, AbortActive, AbortQueued, callVars
<1>2. queue' = queue \/ queue # <<>>
  BY DEF TimerStep, WorkTimeout, QueueTimeout, Drop, Abort, AbortActive, AbortQueued
<1>3. WorkConserving'
  BY <1>1, <1>2 DEF CallInv, WorkConserving, IdleSlots, Idle, Closed, callVars, slotVars, closeVars
<1>4. Closed => queue' = <<>>
  BY <1>2 DEF CallInv, CloseFits
<1>5. QED
  BY <1>1, <1>3, <1>4, QuietCall DEF CallInv, CloseFits

LEMMA DrainEndsCall ==
    ASSUME TypeInv, CallInv, Drain, DrainEnds
    PROVE  CallInv'
<1>1. UNCHANGED callVars /\ main' = "idle" /\ UNCHANGED queue
  BY DEF DrainEnds, callVars, requestVars
<1>2. WorkConserving'
  BY <1>1 DEF DrainEnds, CanDispatch, WorkConserving, IdleSlots, Idle, Closed, callVars,
              slotVars, closeVars
<1>3. QED
  BY <1>1, <1>2, QuietCall DEF CallInv, CloseFits

\* The worker of an idle slot has no call, nor has a fresh one, and neither
\* belongs to another slot.
LEMMA IdleWorker ==
    ASSUME TypeInv, CallInv, NEW s \in Slots, Idle(s), ~Closed,
           NEW w \in Workers, EnsureWorker(s, w)
    PROVE  /\ thread[w] \in {"unborn", "running", "dead"} /\ w # None
           /\ inbox[w] = <<>>
           /\ \A r \in Requests : ~Replied(w, r)
           /\ thread[w] # "dead" => events[w] = <<>>
           /\ worker[s] \in {None, w} /\ home'[w] = s
           /\ \A v \in Workers : v # w => home'[v] = home[v]
           /\ \A t \in Slots : t # s => worker[t] # w /\ recycling[t] # w
           /\ \A v \in Workers, r \in Requests : home[v] = s => ~InCall(v, r)
<1>0. w # None /\ closeAt = 0
  BY NoneIsNeither DEF Closed
<1>1. \A v \in Workers, r \in Requests : home[v] = s => ~InCall(v, r)
  BY PoolAssumption DEF CallInv, Called, Idle
<1>2. CASE w = worker[s] /\ UNCHANGED home
  <2>1. home[w] = s /\ thread[w] \in {"running", "dead"}
    BY <1>0, <1>2 DEF CallInv, WorkerFits
  <2>2. \A r \in Requests : ~Computes(w, r) /\ ~Replied(w, r)
    BY <1>1, <2>1 DEF InCall
  <2>3. inbox[w] = <<>>
    BY <2>2, CallFacts
  <2>4. thread[w] # "dead" => events[w] = <<>>
    <3> SUFFICES ASSUME thread[w] = "running", events[w] # <<>>
                 PROVE  FALSE
      BY <2>1
    <3>1. 1 \in DOMAIN events[w] /\ events[w][1].kind = "reply"
      BY CallFacts, SequenceTypes DEF Fits, Alive
    <3>2. QED
      BY <2>2, <3>1, CallFacts
  <2>5. \A t \in Slots : t # s => worker[t] # w /\ recycling[t] # w
    BY <1>0, <2>1 DEF CallInv, WorkerFits, RecyclingFits
  <2>6. QED
    BY <1>0, <1>1, <1>2, <2>1, <2>2, <2>3, <2>4, <2>5
<1>3. CASE worker[s] = None /\ w \in Unborn /\ home' = [home EXCEPT ![w] = s]
  <2>1. thread[w] = "unborn" /\ inbox[w] = <<>> /\ events[w] = <<>>
    BY <1>3 DEF Unborn, TypeInv, Wired
  <2>2. \A t \in Slots : worker[t] # w /\ recycling[t] # w
    BY <1>0, <2>1 DEF CallInv, WorkerFits, RecyclingFits
  <2>3. home'[w] = s /\ \A v \in Workers : v # w => home'[v] = home[v]
    BY <1>3 DEF TypeInv, TypeOK
  <2>4. QED
    BY <1>0, <1>1, <1>3, <2>1, <2>2, <2>3 DEF Replied
<1>4. QED
  BY <1>2, <1>3 DEF EnsureWorker

\* What Dispatched and PostFails leave as it is: every other thread and slot.
LEMMA OtherThreads ==
    ASSUME TypeInv, CallInv, NEW s \in Slots, Idle(s), ~Closed,
           NEW w \in Workers, EnsureWorker(s, w), NEW v \in Workers, v # w,
           thread'[v] = thread[v], inbox'[v] = inbox[v], events'[v] = events[v],
           \A t \in Slots : t # s =>
              active'[t] = active[t] /\ worker'[t] = worker[t] /\ recycling'[t] = recycling[t],
           UNCHANGED closeVars
    PROVE  Fits(v)' /\ Called(v)' /\ Owned(v)' /\ Undisturbed(v)'
<1>1. Fits(v) /\ Called(v) /\ Owned(v) /\ Undisturbed(v)
  BY CallFacts
<1>2. home'[v] = home[v]
  BY IdleWorker
<1>3. /\ Closed' = Closed /\ closeStep' = closeStep /\ closeTarget' = closeTarget
      /\ closeStep # "terminate"
  BY PoolAssumption DEF closeVars, Closed, Slots, TypeInv, TypeOK
<1>4. \A r \in Requests : InCall(v, r)' = InCall(v, r)
  BY DEF InCall, Computes, Replied
<1>5. Fits(v)' /\ Undisturbed(v)'
  BY <1>1, <1>3 DEF Fits, Undisturbed
<1>6. thread[v] \in Alive => home[v] \in Slots
  BY DEF TypeInv, Wired, Alive
<1>7. Owned(v)'
  <2>1. thread[v] \in Alive => home[v] # s
    BY <1>1, <1>3, NoneIsNeither, IdleWorker DEF Owned, Idle
  <2>2. QED
    BY <1>1, <1>2, <1>3, <1>6, <2>1 DEF Owned
<1>8. Called(v)'
  <2> SUFFICES ASSUME NEW r \in Requests, InCall(v, r)
               PROVE  active'[home'[v]] = r /\ worker'[home'[v]] = v
    BY <1>4 DEF Called
  <2>1. home[v] # s
    BY IdleWorker
  <2>2. active[home[v]] = r /\ worker[home[v]] = v
    BY <1>1 DEF Called
  <2>3. thread[v] # "unborn"
    BY DEF InCall, Computes, Replied, TypeInv, Wired
  <2>4. home[v] \in Slots
    BY <2>3 DEF TypeInv, Wired
  <2>5. QED
    BY <1>2, <2>1, <2>2, <2>4
<1>9. QED
  BY <1>5, <1>7, <1>8

LEMMA OtherSlots ==
    ASSUME TypeInv, CallInv, NEW s \in Slots, Idle(s), ~Closed,
           NEW w \in Workers, EnsureWorker(s, w), NEW t \in Slots, t # s,
           active'[t] = active[t], worker'[t] = worker[t], recycling'[t] = recycling[t],
           active[t] # None => onWorker'[active[t]] = onWorker[active[t]],
           \A v \in Workers : v # w =>
              thread'[v] = thread[v] /\ inbox'[v] = inbox[v] /\ events'[v] = events[v]
    PROVE  WorkerFits(t)' /\ RecyclingFits(t)' /\ ActiveFits(t)'
<1>1. WorkerFits(t) /\ RecyclingFits(t) /\ ActiveFits(t)
  BY DEF CallInv
<1>2. /\ worker[t] # w /\ recycling[t] # w
      /\ worker[t] \in Workers \cup {None} /\ recycling[t] \in Workers \cup {None}
      /\ \A v \in Workers : v # w => home'[v] = home[v]
  BY IdleWorker DEF TypeInv, TypeOK
<1>3. WorkerFits(t)'
  BY <1>1, <1>2 DEF WorkerFits
<1>4. RecyclingFits(t)'
  BY <1>1, <1>2 DEF RecyclingFits
<1>5. ActiveFits(t)'
  BY <1>1, <1>2 DEF ActiveFits, Computes
<1>6. QED
  BY <1>3, <1>4, <1>5

LEMMA DispatchedCall ==
    ASSUME TypeInv, WaitInv, CallInv, NEW s \in Slots, Idle(s), ~Closed, main = "drain",
           NEW r \in Requests, \A t \in Slots : active[t] # r,
           NEW w \in Workers, Dispatched(s, r, w), UNCHANGED <<main, closeVars>>
    PROVE  CallInv'
<1>1. EnsureWorker(s, w)
  BY DEF Dispatched
<1>2. /\ thread[w] \in {"unborn", "running", "dead"} /\ w # None
      /\ inbox[w] = <<>>
      /\ \A q \in Requests : ~Replied(w, q)
      /\ thread[w] # "dead" => events[w] = <<>>
      /\ home'[w] = s
  BY <1>1, IdleWorker
<1>3. /\ worker'[s] = w /\ active'[s] = r /\ onWorker'[r] = w
      /\ recycling' = recycling /\ events' = events
      /\ \A t \in Slots : t # s => active'[t] = active[t] /\ worker'[t] = worker[t]
      /\ \A q \in Requests : q # r => onWorker'[q] = onWorker[q]
      /\ \A v \in Workers : v # w => thread'[v] = thread[v] /\ inbox'[v] = inbox[v]
  BY DEF Dispatched, TypeInv, TypeOK
<1>4. /\ thread'[w] = IF thread[w] = "unborn" THEN "running" ELSE thread[w]
      /\ inbox'[w] = IF thread'[w] \in Alive THEN Append(<<>>, r) ELSE <<>>
  BY <1>2 DEF Dispatched, TypeInv, TypeOK
<1>5. /\ Append(<<>>, r) # <<>> /\ Append(<<>>, r)[1] = r /\ Len(Append(<<>>, r)) = 1
      /\ Len(<<>>) = 0
  OBVIOUS
<1>6. ~Closed' /\ closeStep = "clear"
  BY PoolAssumption DEF closeVars, Closed, Slots, TypeInv, TypeOK
<1>7. ASSUME NEW v \in Workers
      PROVE  Fits(v)' /\ Called(v)' /\ Owned(v)' /\ Undisturbed(v)'
  <2>1. CASE v # w
    BY <1>1, <1>3, <2>1, OtherThreads
  <2>2. CASE v = w
    <3>1. Fits(w)'
      <4>1. CASE thread[w] = "dead"
        BY <1>2, <1>3, <1>4, <1>5, <4>1, CallFacts DEF Fits, Alive
      <4>2. CASE thread[w] # "dead"
        <5>1. thread'[w] = "running" /\ events'[w] = <<>> /\ DOMAIN events'[w] = {}
          BY <1>2, <1>3, <1>4, <4>2
        <5>2. QED
          BY <1>4, <1>5, <5>1 DEF Fits, Alive
      <4>3. QED
        BY <4>1, <4>2
    <3>2. Called(w)'
      <4> SUFFICES ASSUME NEW q \in Requests, InCall(w, q)'
                   PROVE  active'[s] = q /\ worker'[s] = w
        BY <1>2 DEF Called
      <4>1. ~Replied(w, q)'
        BY <1>2, <1>3 DEF Replied
      <4>2. inbox'[w] # <<>> /\ inbox'[w][1] = q
        BY <4>1 DEF InCall, Computes
      <4>3. QED
        BY <1>3, <1>4, <1>5, <4>2
    <3>3. Owned(w)' /\ Undisturbed(w)'
      BY <1>2, <1>3, <1>4 DEF Owned, Undisturbed
    <3>4. QED
      BY <2>2, <3>1, <3>2, <3>3
  <2>3. QED
    BY <2>1, <2>2
<1>8. ASSUME NEW t \in Slots
      PROVE  WorkerFits(t)' /\ RecyclingFits(t)' /\ ActiveFits(t)'
  <2>1. CASE t # s
    <3>1. active[t] # None => onWorker'[active[t]] = onWorker[active[t]]
      BY <1>3 DEF TypeInv, TypeOK
    <3>2. QED
      BY <1>1, <1>3, <2>1, <3>1, OtherSlots
  <2>2. CASE t = s
    <3>1. WorkerFits(s)' /\ RecyclingFits(s)'
      BY <1>2, <1>3, <1>4 DEF WorkerFits, RecyclingFits, Idle
    <3>2. Computes(w, r)' \/ events'[w] # <<>>
      BY <1>2, <1>3, <1>4, <1>5, CallFacts DEF Computes, Fits, Alive
    <3>3. ActiveFits(s)'
      BY <1>2, <1>3, <3>2 DEF ActiveFits, Computes
    <3>4. QED
      BY <2>2, <3>1, <3>3
  <2>3. QED
    BY <2>1, <2>2
<1>9. CloseFits' /\ WorkConserving'
  BY <1>6 DEF CloseFits, WorkConserving, closeVars
<1>10. QED
  BY <1>7, <1>8, <1>9 DEF CallInv

LEMMA PostFailsCall ==
    ASSUME TypeInv, WaitInv, CallInv, NEW s \in Slots, Idle(s), ~Closed, main = "drain",
           NEW r \in Requests, \A t \in Slots : active[t] # r,
           NEW w \in Workers, PostFails(s, r, w), UNCHANGED <<main, closeVars>>
    PROVE  CallInv'
<1>1. EnsureWorker(s, w)
  BY DEF PostFails
<1>2. /\ thread[w] \in {"unborn", "running", "dead"} /\ w # None
      /\ inbox[w] = <<>>
      /\ \A q \in Requests : ~Replied(w, q)
      /\ thread[w] # "dead" => events[w] = <<>>
      /\ home'[w] = s
  BY <1>1, IdleWorker
<1>3. /\ worker'[s] = None /\ recycling'[s] = w
      /\ active' = active /\ events' = events /\ inbox' = inbox
      /\ \A t \in Slots : t # s => recycling'[t] = recycling[t] /\ worker'[t] = worker[t]
      /\ \A q \in Requests : q # r => onWorker'[q] = onWorker[q]
      /\ \A v \in Workers : v # w => thread'[v] = thread[v]
  BY DEF PostFails, Release, TypeInv, TypeOK
<1>4. thread'[w] = IF thread[w] = "dead" THEN "dead" ELSE "stopping"
  BY <1>2 DEF PostFails, TypeInv, TypeOK
<1>5. ~Closed' /\ closeStep = "clear"
  BY PoolAssumption DEF closeVars, Closed, Slots, TypeInv, TypeOK
<1>6. ASSUME NEW v \in Workers
      PROVE  Fits(v)' /\ Called(v)' /\ Owned(v)' /\ Undisturbed(v)'
  <2>1. CASE v # w
    BY <1>1, <1>3, <2>1, OtherThreads
  <2>2. CASE v = w
    <3>1. Fits(w)'
      <4>1. CASE thread[w] = "dead"
        BY <1>2, <1>3, <1>4, <4>1, CallFacts DEF Fits, Alive
      <4>2. CASE thread[w] # "dead"
        <5>1. /\ thread'[w] = "stopping" /\ events'[w] = <<>> /\ DOMAIN events'[w] = {}
              /\ inbox'[w] = <<>> /\ Len(inbox'[w]) = 0 /\ Len(events'[w]) = 0
          BY <1>2, <1>3, <1>4, <4>2
        <5>2. QED
          BY <5>1 DEF Fits, Alive
      <4>3. QED
        BY <4>1, <4>2
    <3>2. Called(w)'
      BY <1>2, <1>3 DEF Called, InCall, Computes, Replied
    <3>3. Owned(w)' /\ Undisturbed(w)'
      BY <1>2, <1>3 DEF Owned, Undisturbed
    <3>4. QED
      BY <2>2, <3>1, <3>2, <3>3
  <2>3. QED
    BY <2>1, <2>2
<1>7. ASSUME NEW t \in Slots
      PROVE  WorkerFits(t)' /\ RecyclingFits(t)' /\ ActiveFits(t)'
  <2>1. CASE t # s
    <3>1. active[t] # None => onWorker'[active[t]] = onWorker[active[t]]
      BY <1>3 DEF TypeInv, TypeOK
    <3>2. QED
      BY <1>1, <1>3, <2>1, <3>1, OtherSlots
  <2>2. CASE t = s
    BY <1>2, <1>3, <1>4, <2>2 DEF WorkerFits, RecyclingFits, ActiveFits, Idle
  <2>3. QED
    BY <2>1, <2>2
<1>8. CloseFits' /\ WorkConserving'
  BY <1>5 DEF CloseFits, WorkConserving, closeVars
<1>9. QED
  BY <1>6, <1>7, <1>8 DEF CallInv

\* The head of the queue waits, and is in no slot.
LEMMA HeadWaits ==
    ASSUME TypeInv, WaitInv, queue # <<>>
    PROVE  /\ Head(queue) \in Requests /\ answer[Head(queue)] = "pending"
           /\ \A t \in Slots : active[t] # Head(queue)
<1>1. 1 \in DOMAIN queue /\ Head(queue) = queue[1] /\ queue[1] \in Requests
  BY DEF TypeInv, TypeOK
<1>2. QED
  BY <1>1 DEF WaitInv

LEMMA DrainCall ==
    ASSUME TypeInv, WaitInv, CallInv, Drain
    PROVE  CallInv'
<1>1. CASE DrainEnds
  BY <1>1, DrainEndsCall
<1>2. CASE Dispatch
  <2>1. PICK r : r = Head(queue)
    OBVIOUS
  <2>2. /\ r \in Requests /\ answer[r] = "pending" /\ \A t \in Slots : active[t] # r
        /\ ~Closed /\ main = "drain" /\ UNCHANGED <<main, closeVars>>
    BY <1>2, <2>1, HeadWaits DEF Dispatch, CanDispatch, Drain
  <2>3. PICK s \in Slots : /\ FirstIdle(s)
                           /\ \/ SpawnFails(s, r)
                              \/ \E w \in Workers : Dispatched(s, r, w) \/ PostFails(s, r, w)
    BY <1>2, <2>1, <2>2 DEF Dispatch
  <2>4. Idle(s)
    BY <2>3 DEF FirstIdle, IdleSlots
  <2>5. CASE SpawnFails(s, r)
    <3>1. /\ UNCHANGED <<slotVars, threadVars, closeVars>>
          /\ \A q \in Requests : q # r => onWorker'[q] = onWorker[q]
      BY <2>2, <2>5 DEF SpawnFails, Release, TypeInv, TypeOK
    <3>2. ASSUME NEW w \in Workers
          PROVE  Fits(w)' /\ Called(w)' /\ Owned(w)' /\ Undisturbed(w)'
      BY <3>1 DEF CallInv, Fits, Called, InCall, Computes, Replied, Owned, Undisturbed, Closed,
                  slotVars, threadVars, closeVars
    <3>3. ASSUME NEW t \in Slots
          PROVE  WorkerFits(t)' /\ RecyclingFits(t)' /\ ActiveFits(t)'
      <4>1. active[t] # None => active[t] \in Requests /\ active[t] # r
        BY <2>2 DEF TypeInv, TypeOK
      <4>2. QED
        BY <3>1, <4>1 DEF CallInv, WorkerFits, RecyclingFits, ActiveFits, Computes,
                          slotVars, threadVars
    <3>4. ~Closed' /\ main' = "drain"
      BY <2>2 DEF Closed, closeVars
    <3>5. CloseFits' /\ WorkConserving'
      <4>1. closeStep' = "clear"
        BY <2>2, PoolAssumption DEF closeVars, Closed, Slots, TypeInv, TypeOK
      <4>2. QED
        BY <3>4, <4>1 DEF CloseFits, WorkConserving
    <3>6. QED
      BY <3>2, <3>3, <3>5 DEF CallInv
  <2>6. ASSUME NEW w \in Workers, Dispatched(s, r, w) \/ PostFails(s, r, w)
        PROVE  CallInv'
    BY <2>2, <2>4, <2>6, DispatchedCall, PostFailsCall
  <2>7. QED
    BY <2>3, <2>5, <2>6
<1>3. QED
  BY <1>1, <1>2 DEF Drain

LEMMA TailOfOne ==
    ASSUME NEW S, NEW q \in Seq(S), Len(q) = 1
    PROVE  Tail(q) = <<>> /\ Len(Tail(q)) = 0
<1>1. q # <<>>
  BY EmptySeq
<1>2. Tail(q) \in Seq(S) /\ Len(Tail(q)) = 0
  BY <1>1
<1>3. QED
  BY <1>2, EmptySeq

LEMMA ReplyCall ==
    ASSUME TypeInv, CallInv, NEW w \in Workers, WorkerReply(w)
    PROVE  CallInv'
<1> DEFINE q == inbox[w][1]
<1>1. PICK ok \in BOOLEAN :
         events' = [events EXCEPT ![w] =
            @ \o <<[kind |-> "reply", request |-> Head(inbox[w]), ok |-> ok]>>]
  BY DEF WorkerReply, Emit
<1>2. /\ thread[w] \in Alive /\ inbox[w] # <<>> /\ Len(inbox[w]) = 1 /\ events[w] = <<>>
      /\ q \in Requests /\ InCall(w, q)
  BY CallFacts, SequenceTypes DEF WorkerReply, Fits, InCall
<1>3. /\ UNCHANGED <<queue, onWorker, main, thread, home>>
      /\ UNCHANGED <<active, worker, recycling, closeAt, closeStep, closeTarget>>
      /\ \A v \in Workers : v # w => inbox'[v] = inbox[v] /\ events'[v] = events[v]
  BY <1>1 DEF WorkerReply, requestVars, slotVars, closeVars, TypeInv, TypeOK
<1>4. inbox'[w] = <<>> /\ Len(inbox'[w]) = 0
  <2>1. inbox'[w] = Tail(inbox[w]) /\ inbox[w] \in Seq(Requests) /\ Len(inbox[w]) = 1
    BY <1>2 DEF WorkerReply, TypeInv, TypeOK
  <2>2. QED
    BY <2>1, TailOfOne
<1>5. PICK reply : reply = [kind |-> "reply", request |-> Head(inbox[w]), ok |-> ok]
  OBVIOUS
<1>6. reply.kind = "reply" /\ reply.request = q
  BY <1>2, <1>5, SequenceTypes
<1>7. events'[w] = <<>> \o <<reply>>
  BY <1>1, <1>2, <1>5 DEF TypeInv, TypeOK
<1>8. /\ Len(events'[w]) = 1 /\ DOMAIN events'[w] = {1} /\ events'[w][1] = reply
      /\ events'[w] # <<>>
  BY <1>7
<1>9. ASSUME NEW v \in Workers
      PROVE  Fits(v)' /\ Called(v)' /\ Owned(v)' /\ Undisturbed(v)'
  <2>1. Owned(v)' /\ Undisturbed(v)'
    BY <1>3, <1>4, CallFacts DEF Owned, Undisturbed, Closed
  <2>2. Fits(v)'
    <3>1. CASE v # w
      BY <1>3, <3>1, CallFacts DEF Fits
    <3>2. CASE v = w
      <4>1. /\ thread'[w] \in Alive /\ thread'[w] \notin {"unborn", "dead", "gone"}
            /\ Len(inbox'[w]) <= 1 /\ Len(events'[w]) <= 1
            /\ \A i \in DOMAIN events'[w] : events'[w][i].kind = "reply"
        BY <1>2, <1>3, <1>4, <1>6, <1>8 DEF Alive
      <4>2. QED
        BY <1>4, <3>2, <4>1 DEF Fits
    <3>3. QED
      BY <3>1, <3>2
  <2>3. \A r \in Requests : InCall(v, r)' => InCall(v, r)
    BY <1>2, <1>3, <1>4, <1>6, <1>8 DEF InCall, Computes, Replied
  <2>4. Called(v)'
    BY <1>3, <2>3, CallFacts DEF Called, Closed
  <2>5. QED
    BY <2>1, <2>2, <2>4
<1>10. ASSUME NEW s \in Slots
       PROVE  WorkerFits(s)' /\ RecyclingFits(s)' /\ ActiveFits(s)'
  <2>1. worker[s] \in Workers \cup {None}
    BY DEF TypeInv, TypeOK
  <2>2. QED
    BY <1>3, <1>8, <2>1 DEF CallInv, WorkerFits, RecyclingFits, ActiveFits, Computes
<1>11. CloseFits' /\ WorkConserving'
  BY <1>3 DEF CallInv, CloseFits, Empty, Closed, WorkConserving, IdleSlots, Idle
<1>12. QED
  BY <1>9, <1>10, <1>11 DEF CallInv

\* What a thread reports when it ends.
LastNews == {<<[kind |-> "error"], [kind |-> "exit"]>>, <<[kind |-> "exit"]>>}

LEMMA NewsFacts ==
    ASSUME NEW news \in LastNews
    PROVE  /\ news \in Seq(Events) /\ Len(news) \in {1, 2}
           /\ \A i \in 1 .. Len(news) :
                 /\ news[i].kind = "exit" <=> i = Len(news)
                 /\ news[i].kind # "reply"
<1>1. PICK e, x : e = [kind |-> "error"] /\ x = [kind |-> "exit"]
  OBVIOUS
<1>2. /\ e.kind = "error" /\ x.kind = "exit"
      /\ e \in Events /\ x \in Events
  BY <1>1 DEF Events
<1>3. news = <<e, x>> \/ news = <<x>>
  BY <1>1 DEF LastNews
<1>4. CASE news = <<e, x>>
  BY <1>2, <1>4
<1>5. CASE news = <<x>>
  BY <1>2, <1>5
<1>6. QED
  BY <1>3, <1>4, <1>5

LEMMA EndCall ==
    ASSUME TypeInv, CallInv, NEW w \in Workers, thread[w] \in Alive,
           NEW news \in LastNews, ThreadEnds(w, news)
    PROVE  CallInv'
<1> DEFINE n == Len(events[w])
           m == Len(news)
<1>1. /\ UNCHANGED <<queue, onWorker, main, home>>
      /\ UNCHANGED <<active, worker, recycling, closeAt, closeStep, closeTarget>>
      /\ \A v \in Workers : v # w =>
            thread'[v] = thread[v] /\ inbox'[v] = inbox[v] /\ events'[v] = events[v]
      /\ thread'[w] = "dead" /\ inbox'[w] = <<>> /\ events'[w] = events[w] \o news
  BY DEF ThreadEnds, Emit, requestVars, slotVars, closeVars, TypeInv, TypeOK
<1>2. /\ n \in {0, 1} /\ events[w] \in Seq(Events) /\ DOMAIN events[w] = 1 .. n
      /\ \A i \in 1 .. n : events[w][i].kind = "reply"
  <2>1. Len(events[w]) <= 1 /\ \A i \in DOMAIN events[w] : events[w][i].kind = "reply"
    BY CallFacts DEF Fits
  <2>2. Len(events[w]) \in Nat /\ events[w] \in Seq(Events) /\ DOMAIN events[w] = 1 .. n
    BY SequenceTypes
  <2>3. n \in Nat /\ n <= 1
    BY <2>1, SequenceTypes
  <2> HIDE DEF n
  <2>4. n \in {0, 1}
    BY <2>3
  <2>5. QED
    BY <2>1, <2>2, <2>4
<1>3. news \in Seq(Events)
  BY NewsFacts
<1>4. /\ Len(events'[w]) = n + m /\ DOMAIN events'[w] = 1 .. n + m /\ m \in {1, 2}
      /\ \A i \in 1 .. n + m :
            events'[w][i] = IF i <= n THEN events[w][i] ELSE news[i - n]
      /\ events'[w] # <<>>
  BY <1>1, <1>2, <1>3, NewsFacts
<1> HIDE DEF n, m
<1>5. \A i \in 1 .. n + m :
         /\ events'[w][i].kind = "exit" <=> i = n + m
         /\ events'[w][i].kind = "reply" => i = 1 /\ n = 1
  <2> SUFFICES ASSUME NEW i \in 1 .. n + m
               PROVE  /\ events'[w][i].kind = "exit" <=> i = n + m
                      /\ events'[w][i].kind = "reply" => i = 1 /\ n = 1
    OBVIOUS
  <2>1. CASE i <= n
    <3>1. i = 1 /\ n = 1 /\ i # n + m
      BY <1>2, <1>4, <2>1
    <3>2. events'[w][i].kind = "reply"
      BY <1>2, <1>4, <2>1, <3>1
    <3>3. QED
      BY <3>1, <3>2
  <2>2. CASE i > n
    <3>1. i - n \in 1 .. m /\ events'[w][i] = news[i - n]
      BY <1>2, <1>4, <2>2
    <3>2. /\ news[i - n].kind = "exit" <=> i - n = m
          /\ news[i - n].kind # "reply"
      BY <3>1, NewsFacts DEF m
    <3>3. i - n = m <=> i = n + m
      BY <1>2, <1>4
    <3>4. QED
      BY <3>1, <3>2, <3>3
  <2>3. QED
    BY <1>2, <2>1, <2>2
<1>6. ASSUME NEW v \in Workers
      PROVE  Fits(v)' /\ Called(v)' /\ Owned(v)' /\ Undisturbed(v)'
  <2>1. Owned(v)' /\ Undisturbed(v)'
    BY <1>1, CallFacts DEF Owned, Undisturbed, Closed, Alive
  <2>2. Fits(v)'
    <3>1. CASE v # w
      BY <1>1, <3>1, CallFacts DEF Fits
    <3>2. CASE v = w
      <4>1. Len(inbox'[w]) <= 1
        BY <1>1
      <4>2. \A i \in DOMAIN events'[w] :
               /\ events'[w][i].kind = "exit" <=> i = Len(events'[w])
               /\ events'[w][i].kind = "reply" => i = 1
        BY <1>4, <1>5
      <4>3. QED
        BY <1>1, <1>4, <3>2, <4>1, <4>2 DEF Fits, Alive
    <3>3. QED
      BY <3>1, <3>2
  <2>3. ASSUME NEW r \in Requests, InCall(v, r)'
        PROVE  InCall(v, r)
    <3>1. CASE v # w
      BY <1>1, <2>3, <3>1 DEF InCall, Computes, Replied
    <3>2. CASE v = w
      <4>1. events'[w][1].kind = "reply" /\ events'[w][1].request = r
        BY <1>1, <2>3, <3>2 DEF InCall, Computes, Replied
      <4>2. n = 1 /\ events'[w][1] = events[w][1] /\ events[w] # <<>>
        BY <1>2, <1>4, <1>5, <4>1
      <4>3. QED
        BY <3>2, <4>1, <4>2 DEF InCall, Replied
    <3>3. QED
      BY <3>1, <3>2
  <2>4. Called(v)'
    BY <1>1, <2>3, CallFacts DEF Called, Closed
  <2>5. QED
    BY <2>1, <2>2, <2>4
<1>7. ASSUME NEW s \in Slots
      PROVE  WorkerFits(s)' /\ RecyclingFits(s)' /\ ActiveFits(s)'
  <2>1. worker[s] \in Workers \cup {None} /\ recycling[s] \in Workers \cup {None}
    BY DEF TypeInv, TypeOK
  <2>2. WorkerFits(s)' /\ RecyclingFits(s)'
    BY <1>1, <2>1 DEF CallInv, WorkerFits, RecyclingFits
  <2>3. ActiveFits(s)'
    BY <1>1, <1>4, <2>1 DEF CallInv, ActiveFits, Computes
  <2>4. QED
    BY <2>2, <2>3
<1>8. CloseFits' /\ WorkConserving'
  BY <1>1 DEF CallInv, CloseFits, Empty, Closed, WorkConserving, IdleSlots, Idle
<1>9. QED
  BY <1>6, <1>7, <1>8 DEF CallInv

LEMMA ThreadStepCall ==
    ASSUME TypeInv, CallInv, NEW w \in Workers, ThreadStep(w)
    PROVE  CallInv'
<1>1. CASE WorkerReply(w)
  BY <1>1, ReplyCall
<1>2. CASE WorkerCrash(w)
  <2>1. thread[w] \in Alive /\ \E news \in LastNews : ThreadEnds(w, news)
    BY <1>2 DEF WorkerCrash, LastNews
  <2>2. QED
    BY <2>1, EndCall
<1>3. CASE WorkerStops(w)
  <2>1. thread[w] \in Alive /\ \E news \in LastNews : ThreadEnds(w, news)
    BY <1>3 DEF WorkerStops, LastNews, Alive
  <2>2. QED
    BY <2>1, EndCall
<1>4. QED
  BY <1>1, <1>2, <1>3 DEF ThreadStep

\* A handled event leaves what follows it; no reply follows a reply.
LEMMA TakeFacts ==
    ASSUME TypeInv, CallInv, NEW w \in Workers, NEW kind, Take(w, kind)
    PROVE  /\ main = "idle" /\ home[w] \in Slots /\ inbox[w] = <<>> /\ events[w] # <<>>
           /\ events[w][1].kind = kind /\ Head(events[w]) = events[w][1]
           /\ \A v \in Workers : v # w => events'[v] = events[v]
           /\ events'[w] \in Seq(Events) /\ Len(events'[w]) = Len(events[w]) - 1
           /\ DOMAIN events'[w] = 1 .. Len(events[w]) - 1
           /\ \A i \in DOMAIN events'[w] :
                 i + 1 \in DOMAIN events[w] /\ events'[w][i] = events[w][i + 1]
           /\ \A r \in Requests : ~Replied(w, r)'
<1>1. /\ main = "idle" /\ events[w] # <<>> /\ Head(events[w]).kind = kind
      /\ events'[w] = Tail(events[w])
      /\ \A v \in Workers : v # w => events'[v] = events[v]
  BY DEF Take, TypeInv, TypeOK
<1>2. home[w] \in Slots
  BY TakeType
<1>3. inbox[w] = <<>>
  BY <1>1, CallFacts DEF Fits
<1>4. PICK q : q = events[w]
  OBVIOUS
<1>5. q \in Seq(Events) /\ q # <<>>
  BY <1>1, <1>4, SequenceTypes
<1>6. /\ Head(q) = q[1] /\ Tail(q) \in Seq(Events) /\ Len(Tail(q)) = Len(q) - 1
      /\ DOMAIN Tail(q) = 1 .. Len(q) - 1
      /\ \A i \in 1 .. Len(q) - 1 : i + 1 \in DOMAIN q /\ Tail(q)[i] = q[i + 1]
  BY <1>5
<1>7. \A r \in Requests : ~Replied(w, r)'
  <2> SUFFICES ASSUME events'[w] # <<>>, events'[w][1].kind = "reply"
               PROVE  FALSE
    BY DEF Replied
  <2>1. Tail(q) # <<>>
    BY <1>1, <1>4
  <2>2. Len(Tail(q)) \in Nat \ {0}
    BY <1>6, <2>1, EmptySeq
  <2>3. 1 \in 1 .. Len(q) - 1
    BY <1>6, <2>2
  <2>4. 2 \in DOMAIN events[w] /\ events[w][2].kind = "reply"
    BY <1>1, <1>4, <1>6, <2>3
  <2>5. QED
    BY <2>4, CallFacts
<1>8. QED
  BY <1>1, <1>2, <1>3, <1>4, <1>6, <1>7

\* What is left to report after a reply, an error, an exit.
LEMMA TakeFits ==
    ASSUME TypeInv, CallInv, NEW w \in Workers, NEW kind, Take(w, kind)
    PROVE  /\ kind # "reply" => thread[w] = "dead"
           /\ kind = "exit" => events'[w] = <<>> /\ Len(events'[w]) = 0
           /\ kind # "exit" /\ UNCHANGED <<thread, inbox>> =>
                 Fits(w)' /\ (thread[w] = "dead" => events'[w] # <<>>)
<1> DEFINE n == Len(events[w])
<1>1. /\ inbox[w] = <<>> /\ events[w] # <<>> /\ events[w][1].kind = kind
      /\ events'[w] \in Seq(Events) /\ Len(events'[w]) = n - 1
      /\ DOMAIN events'[w] = 1 .. n - 1
      /\ \A i \in DOMAIN events'[w] :
            i + 1 \in DOMAIN events[w] /\ events'[w][i] = events[w][i + 1]
  BY TakeFacts
<1>2. n \in Nat /\ n >= 1 /\ DOMAIN events[w] = 1 .. n
  BY <1>1, SequenceTypes
<1> HIDE DEF n
<1>3. /\ thread[w] \in {"running", "stopping", "dead"}
      /\ thread[w] \in Alive => n <= 1 /\ events[w][1].kind = "reply"
      /\ thread[w] = "dead" => \A i \in 1 .. n :
            /\ events[w][i].kind = "exit" <=> i = n
            /\ events[w][i].kind = "reply" => i = 1
  <2>1. thread[w] \in {"unborn", "running", "stopping", "dead", "gone"} /\ 1 \in DOMAIN events[w]
    BY <1>2 DEF TypeInv, TypeOK
  <2>2. thread[w] \in {"running", "stopping", "dead"}
    BY <1>1, <2>1, CallFacts DEF Fits
  <2>3. thread[w] \in Alive => n <= 1 /\ events[w][1].kind = "reply"
    BY <2>1, CallFacts DEF Fits, n
  <2>4. thread[w] = "dead" => \A i \in 1 .. n :
            /\ events[w][i].kind = "exit" <=> i = n
            /\ events[w][i].kind = "reply" => i = 1
    BY <1>2, CallFacts DEF Fits, n
  <2>5. QED
    BY <2>2, <2>3, <2>4
<1>4. kind # "reply" => thread[w] = "dead"
  BY <1>1, <1>3 DEF Alive
<1>5. kind = "exit" => n = 1
  BY <1>1, <1>2, <1>3, <1>4
<1>6. kind = "exit" => events'[w] = <<>> /\ Len(events'[w]) = 0
  <2> SUFFICES ASSUME kind = "exit"
               PROVE  events'[w] = <<>> /\ Len(events'[w]) = 0
    OBVIOUS
  <2>1. Len(events'[w]) = 0
    BY <1>1, <1>5
  <2>2. QED
    BY <1>1, <2>1, EmptySeq
<1>7. ASSUME kind # "exit", UNCHANGED <<thread, inbox>>
      PROVE  Fits(w)' /\ (thread[w] = "dead" => events'[w] # <<>>)
  <2>1. inbox'[w] = <<>> /\ Len(inbox'[w]) <= 1
    BY <1>1, <1>7
  <2>2. CASE thread[w] = "dead"
    <3>1. n >= 2
      BY <1>1, <1>2, <1>3, <1>7, <2>2
    <3>2. events'[w] # <<>>
      <4>1. Len(<<>>) = 0
        BY EmptySeq
      <4>2. Len(events'[w]) # 0
        BY <1>1, <1>2, <3>1
      <4>3. QED
        BY <4>1, <4>2
    <3>3. \A i \in DOMAIN events'[w] :
             /\ events'[w][i].kind = "exit" <=> i = n - 1
             /\ events'[w][i].kind # "reply"
      <4> SUFFICES ASSUME NEW i \in DOMAIN events'[w]
                   PROVE  /\ events'[w][i].kind = "exit" <=> i = n - 1
                          /\ events'[w][i].kind # "reply"
        OBVIOUS
      <4>1. i \in 1 .. n - 1 /\ events'[w][i] = events[w][i + 1]
        BY <1>1
      <4>2. i + 1 \in 1 .. n /\ i + 1 # 1 /\ (i + 1 = n <=> i = n - 1)
        BY <1>2, <4>1
      <4>3. QED
        BY <1>3, <2>2, <4>1, <4>2
    <3>4. QED
      BY <1>1, <1>7, <2>1, <2>2, <3>2, <3>3 DEF Fits, Alive
  <2>3. CASE thread[w] \in Alive
    <3>1. Len(events'[w]) = 0 /\ DOMAIN events'[w] = {}
      BY <1>1, <1>2, <1>3, <2>3
    <3>2. thread[w] # "dead"
      BY <2>3 DEF Alive
    <3>3. thread'[w] \notin {"unborn", "gone", "dead"}
      BY <1>7, <2>3 DEF Alive
    <3>4. QED
      BY <2>1, <3>1, <3>2, <3>3 DEF Fits
  <2>4. QED
    BY <1>3, <2>2, <2>3 DEF Alive
<1>8. QED
  BY <1>4, <1>6, <1>7

\* The worker a slot waits for is its own.
LEMMA HolderFacts ==
    ASSUME TypeInv, CallInv, NEW s \in Slots, NEW w \in Workers, HoldsSlot(s, w)
    PROVE  worker[s] = w /\ home[w] = s /\ recycling[s] = None /\ w # None
BY NoneIsNeither DEF HoldsSlot, CallInv, ActiveFits, WorkerFits, RecyclingFits

LEMMA FinishFacts ==
    ASSUME TypeInv, WaitInv, NEW s \in Slots, NEW w, NEW what, FinishActive(s, w, what)
    PROVE  /\ \A t \in Slots : t # s => active'[t] = active[t]
           /\ active'[s] = IF HoldsSlot(s, w) THEN None ELSE active[s]
           /\ \A t \in Slots : active'[t] # None =>
                 onWorker'[active'[t]] = onWorker[active'[t]]
<1>1. CASE HoldsSlot(s, w)
  <2>1. /\ \A t \in Slots : active'[t] = IF t = s THEN None ELSE active[t]
        /\ \A r \in Requests : r # active[s] => onWorker'[r] = onWorker[r]
    BY <1>1 DEF FinishActive, Release, TypeInv, TypeOK
  <2>2. \A t \in Slots : t # s /\ active[t] # None =>
           active[t] # active[s] /\ active[t] \in Requests
    BY DEF WaitInv, TypeInv, TypeOK
  <2>3. QED
    BY <1>1, <2>1, <2>2
<1>2. CASE ~HoldsSlot(s, w)
  BY <1>2 DEF FinishActive, requestVars
<1>3. QED
  BY <1>1, <1>2

\* A slot's request ended: the calls of the other threads are where they were.
LEMMA OtherCalls ==
    ASSUME TypeInv, CallInv, NEW w \in Workers, NEW s \in Slots, home[w] = s,
           NEW v \in Workers, v # w, worker[s] \in {w, None},
           thread'[v] = thread[v], UNCHANGED <<home, inbox>>, events'[v] = events[v],
           \A t \in Slots : t # s =>
              active'[t] = active[t] /\ worker'[t] = worker[t] /\ recycling'[t] = recycling[t],
           worker'[s] \in {worker[s], None}, recycling[s] = None,
           Closed => Closed',
           closeStep = "terminate" => UNCHANGED closeVars
    PROVE  Fits(v)' /\ Called(v)' /\ Owned(v)' /\ Undisturbed(v)'
<1>1. Fits(v) /\ Called(v) /\ Owned(v) /\ Undisturbed(v) /\ v # None
  BY CallFacts, NoneIsNeither
<1>2. \A r \in Requests : InCall(v, r)' = InCall(v, r)
  BY DEF InCall, Computes, Replied
<1>3. Fits(v)' /\ Undisturbed(v)'
  BY <1>1 DEF Fits, Undisturbed
<1>4. thread[v] # "unborn" => home[v] \in Slots
  BY DEF TypeInv, Wired
<1>5. Owned(v)'
  BY <1>1, <1>4 DEF Owned, closeVars, Alive
<1>6. Called(v)'
  <2> SUFFICES ASSUME NEW r \in Requests, InCall(v, r)
               PROVE  \/ active'[home[v]] = r /\ worker'[home[v]] = v
                      \/ Closed' /\ worker'[home[v]] # v
    BY <1>2 DEF Called
  <2>1. thread[v] # "unborn"
    BY DEF InCall, Computes, Replied, TypeInv, Wired
  <2>2. \/ active[home[v]] = r /\ worker[home[v]] = v
        \/ Closed /\ worker[home[v]] # v
    BY <1>1 DEF Called
  <2>3. CASE home[v] # s
    BY <1>4, <2>1, <2>2, <2>3
  <2>4. CASE home[v] = s
    BY <1>1, <2>2, <2>4
  <2>5. QED
    BY <2>3, <2>4
<1>7. QED
  BY <1>3, <1>5, <1>6

LEMMA MessageCall ==
    ASSUME TypeInv, WaitInv, CallInv, NEW w \in Workers, OnMessage(w)
    PROVE  CallInv'
<1>0. PICK s : s = home[w]
  OBVIOUS
<1>1. /\ Take(w, "reply")
      /\ UNCHANGED <<queue, worker, recycling, closeVars, thread, home, inbox>>
  BY DEF OnMessage
<1>2. /\ main = "idle" /\ s \in Slots /\ inbox[w] = <<>> /\ w # None
      /\ Replied(w, events[w][1].request) /\ events[w][1].request \in Requests
      /\ Head(events[w]) = events[w][1]
      /\ \A v \in Workers : v # w => events'[v] = events[v]
      /\ \A r \in Requests : ~Replied(w, r)'
  <2>1. 1 \in DOMAIN events[w] /\ events[w][1].kind = "reply"
    BY <1>1, TakeFacts, SequenceTypes
  <2>2. QED
    BY <1>0, <1>1, <2>1, TakeFacts, CallFacts, NoneIsNeither
<1>3. Fits(w)' /\ (thread[w] = "dead" => events'[w] # <<>>)
  BY <1>1, TakeFits
<1>4. CASE UNCHANGED <<requestVars, active, main>> /\ ~HoldsSlot(s, w)
  <2>1. ASSUME NEW v \in Workers
        PROVE  Fits(v)' /\ Called(v)' /\ Owned(v)' /\ Undisturbed(v)'
    <3>1. Owned(v)' /\ Undisturbed(v)'
      BY <1>1, CallFacts DEF Owned, Undisturbed, Closed, closeVars
    <3>2. Fits(v)'
      <4>1. CASE v # w
        BY <1>1, <1>2, <4>1, CallFacts DEF Fits
      <4>2. QED
        BY <1>3, <4>1
    <3>3. \A r \in Requests : InCall(v, r)' => InCall(v, r)
      BY <1>1, <1>2 DEF InCall, Computes, Replied
    <3>4. Called(v)'
      BY <1>1, <1>4, <3>3, CallFacts DEF Called, Closed, closeVars
    <3>5. QED
      BY <3>1, <3>2, <3>4
  <2>2. ASSUME NEW t \in Slots
        PROVE  WorkerFits(t)' /\ RecyclingFits(t)' /\ ActiveFits(t)'
    <3>1. worker[t] \in Workers \cup {None} /\ WorkerFits(t) /\ RecyclingFits(t) /\ ActiveFits(t)
      BY DEF CallInv, TypeInv, TypeOK
    <3>2. WorkerFits(t)' /\ RecyclingFits(t)'
      BY <1>1, <1>4, <3>1 DEF WorkerFits, RecyclingFits
    <3>3. active[t] # None => worker[t] # w
      <4> SUFFICES ASSUME active[t] # None, worker[t] = w
                   PROVE  FALSE
        OBVIOUS
      <4>1. onWorker[active[t]] = w /\ home[w] = t
        BY <1>2, <3>1 DEF ActiveFits, WorkerFits
      <4>2. QED
        BY <1>0, <1>4, <4>1 DEF HoldsSlot
    <3>4. ActiveFits(t)'
      BY <1>1, <1>2, <1>4, <3>1, <3>3 DEF ActiveFits, Computes, requestVars
    <3>5. QED
      BY <3>2, <3>4
  <2>3. CloseFits' /\ WorkConserving'
    BY <1>1, <1>4 DEF CallInv, CloseFits, Empty, Closed, WorkConserving, IdleSlots, Idle, closeVars
  <2>4. QED
    BY <2>1, <2>2, <2>3 DEF CallInv
<1>5. HoldsSlot(s, w) => recycling[s] # w /\ active[s] = events[w][1].request
  <2> SUFFICES ASSUME HoldsSlot(s, w)
               PROVE  recycling[s] # w /\ active[s] = events[w][1].request
    OBVIOUS
  <2>1. worker[s] = w /\ recycling[s] = None
    BY <1>2, HolderFacts
  <2>2. active[s] = events[w][1].request
    BY <1>0, <1>2, <2>1, CallFacts DEF Called, InCall
  <2>3. QED
    BY <1>2, <2>1, <2>2
<1>6. ASSUME HoldsSlot(s, w), NEW what, FinishActive(s, w, what), main' = "drain"
      PROVE  CallInv'
  <2>1. worker[s] = w /\ home[w] = s /\ recycling[s] = None
    BY <1>2, <1>6, HolderFacts
  <2>2. /\ \A t \in Slots : t # s => active'[t] = active[t]
        /\ active'[s] = None
        /\ \A t \in Slots : active'[t] # None =>
              onWorker'[active'[t]] = onWorker[active'[t]]
    BY <1>2, <1>6, FinishFacts
  <2>3. ASSUME NEW v \in Workers
        PROVE  Fits(v)' /\ Called(v)' /\ Owned(v)' /\ Undisturbed(v)'
    <3>1. CASE v # w
      BY <1>1, <1>2, <2>1, <2>2, <3>1, OtherCalls DEF Closed, closeVars
    <3>2. CASE v = w
      <4>1. Owned(w)' /\ Undisturbed(w)'
        BY <1>1, CallFacts DEF Owned, Undisturbed, Closed, closeVars
      <4>2. Called(w)'
        BY <1>1, <1>2 DEF Called, InCall, Computes
      <4>3. QED
        BY <1>3, <3>2, <4>1, <4>2
    <3>3. QED
      BY <3>1, <3>2
  <2>4. ASSUME NEW t \in Slots
        PROVE  WorkerFits(t)' /\ RecyclingFits(t)' /\ ActiveFits(t)'
    <3>1. worker[t] \in Workers \cup {None} /\ WorkerFits(t) /\ RecyclingFits(t) /\ ActiveFits(t)
      BY DEF CallInv, TypeInv, TypeOK
    <3>2. WorkerFits(t)' /\ RecyclingFits(t)'
      BY <1>1, <2>2, <3>1 DEF WorkerFits, RecyclingFits
    <3>3. t # s => worker[t] # w
      BY <1>2, <2>1, <3>1 DEF WorkerFits
    <3>4. ActiveFits(t)'
      BY <1>1, <1>2, <2>2, <3>1, <3>3 DEF ActiveFits, Computes
    <3>5. QED
      BY <3>2, <3>4
  <2>5. CloseFits'
    <3>1. \A t \in Slots : active[t] = None => active'[t] = None
      BY <2>2
    <3>2. closeStep # "clear" => closeAt \in Slots
      BY DEF TypeInv, TypeOK
    <3>3. QED
      BY <1>1, <1>6, <3>1, <3>2 DEF CallInv, CloseFits, Empty, Closed, closeVars
  <2>6. WorkConserving'
    BY <1>6 DEF WorkConserving
  <2>7. QED
    BY <2>3, <2>4, <2>5, <2>6 DEF CallInv
<1>7. CASE HoldsSlot(s, w)
  <2>1. \E what : FinishActive(s, w, what) /\ main' = "drain"
    BY <1>0, <1>2, <1>5, <1>7 DEF OnMessage
  <2>2. QED
    BY <1>6, <1>7, <2>1
<1>8. CASE ~HoldsSlot(s, w)
  BY <1>0, <1>4, <1>8 DEF OnMessage
<1>9. QED
  BY <1>7, <1>8

\* An end is ignored when the slot let go of the thread; else the thread is
\* the slot's worker, whose request is answered.
LEMMA LetGoFacts ==
    ASSUME TypeInv, WaitInv, CallInv, NEW w \in Workers, NEW s \in Slots, s = home[w],
           ~LetGo(s, w), NEW what, FinishActive(s, w, what)
    PROVE  /\ worker[s] = w /\ recycling[s] = None /\ active'[s] = None
           /\ \A t \in Slots : t # s => active'[t] = active[t] /\ worker[t] # w
           /\ \A t \in Slots : active'[t] # None =>
                 onWorker'[active'[t]] = onWorker[active'[t]]
<1>1. w # None
  BY NoneIsNeither
<1>2. worker[s] = w
  BY HolderFacts DEF LetGo
<1>3. recycling[s] = None
  BY <1>1, <1>2 DEF CallInv, RecyclingFits
<1>4. active[s] # None => HoldsSlot(s, w)
  BY <1>2 DEF CallInv, ActiveFits, HoldsSlot
<1>5. \A t \in Slots : t # s => worker[t] # w
  BY <1>1 DEF CallInv, WorkerFits
<1>6. QED
  BY <1>2, <1>3, <1>4, <1>5, FinishFacts

LEMMA ErrorCall ==
    ASSUME TypeInv, WaitInv, CallInv, NEW w \in Workers, OnError(w)
    PROVE  CallInv'
<1>0. PICK s : s = home[w]
  OBVIOUS
<1>1. Take(w, "error") /\ UNCHANGED <<queue, main, closeVars, home, inbox>>
  BY DEF OnError
<1>2. /\ main = "idle" /\ s \in Slots /\ inbox[w] = <<>> /\ w # None
      /\ \A v \in Workers : v # w => events'[v] = events[v]
      /\ \A r \in Requests : ~Replied(w, r)'
  BY <1>0, <1>1, TakeFacts, NoneIsNeither
<1>3. thread[w] = "dead"
  BY <1>1, TakeFits
<1>4. thread' = thread
  BY <1>0, <1>3 DEF OnError, Terminate, TypeInv, TypeOK
<1>5. Fits(w)' /\ events'[w] # <<>>
  BY <1>1, <1>3, <1>4, TakeFits
<1>6. CASE LetGo(s, w)
  <2>1. UNCHANGED <<requestVars, slotVars>>
    BY <1>0, <1>6 DEF OnError
  <2>2. ASSUME NEW v \in Workers
        PROVE  Fits(v)' /\ Called(v)' /\ Owned(v)' /\ Undisturbed(v)'
    <3>1. Owned(v)' /\ Undisturbed(v)'
      BY <1>1, <1>4, <2>1, CallFacts DEF Owned, Undisturbed, Closed, closeVars, slotVars
    <3>2. Fits(v)'
      <4>1. CASE v # w
        BY <1>1, <1>2, <1>4, <4>1, CallFacts DEF Fits
      <4>2. QED
        BY <1>5, <4>1
    <3>3. \A r \in Requests : InCall(v, r)' => InCall(v, r)
      BY <1>1, <1>2 DEF InCall, Computes, Replied
    <3>4. Called(v)'
      BY <1>1, <2>1, <3>3, CallFacts DEF Called, Closed, closeVars, slotVars
    <3>5. QED
      BY <3>1, <3>2, <3>4
  <2>3. ASSUME NEW t \in Slots
        PROVE  WorkerFits(t)' /\ RecyclingFits(t)' /\ ActiveFits(t)'
    <3>1. worker[t] \in Workers \cup {None} /\ WorkerFits(t) /\ RecyclingFits(t) /\ ActiveFits(t)
      BY DEF CallInv, TypeInv, TypeOK
    <3>2. WorkerFits(t)' /\ RecyclingFits(t)'
      BY <1>1, <1>4, <2>1, <3>1 DEF WorkerFits, RecyclingFits, slotVars
    <3>3. ActiveFits(t)'
      BY <1>1, <1>2, <1>5, <2>1, <3>1 DEF ActiveFits, Computes, requestVars, slotVars
    <3>4. QED
      BY <3>2, <3>3
  <2>4. CloseFits' /\ WorkConserving'
    BY <1>1, <2>1 DEF CallInv, CloseFits, Empty, Closed, WorkConserving, IdleSlots, Idle,
                      closeVars, slotVars
  <2>5. QED
    BY <2>2, <2>3, <2>4 DEF CallInv
<1>7. CASE ~LetGo(s, w)
  <2>1. FinishActive(s, w, "unavailable")
    BY <1>0, <1>7 DEF OnError
  <2>2. /\ worker[s] = w /\ recycling[s] = None /\ active'[s] = None
        /\ \A t \in Slots : t # s => active'[t] = active[t] /\ worker[t] # w
        /\ \A t \in Slots : active'[t] # None =>
              onWorker'[active'[t]] = onWorker[active'[t]]
    BY <1>0, <1>2, <1>7, <2>1, LetGoFacts
  <2>3. /\ worker'[s] = None /\ recycling'[s] = w
        /\ \A t \in Slots : t # s => worker'[t] = worker[t] /\ recycling'[t] = recycling[t]
    BY <1>0, <1>2, <1>7, <2>2 DEF OnError, Detach, TypeInv, TypeOK
  <2>4. ASSUME NEW v \in Workers
        PROVE  Fits(v)' /\ Called(v)' /\ Owned(v)' /\ Undisturbed(v)'
    <3>1. CASE v # w
      BY <1>0, <1>1, <1>2, <1>4, <2>2, <2>3, <3>1, OtherCalls DEF Closed, closeVars
    <3>2. CASE v = w
      <4>1. Owned(w)' /\ Undisturbed(w)'
        BY <1>1, <1>2, <1>3, <1>4 DEF Owned, Undisturbed, Alive
      <4>2. Called(w)'
        BY <1>1, <1>2 DEF Called, InCall, Computes
      <4>3. QED
        BY <1>5, <3>2, <4>1, <4>2
    <3>3. QED
      BY <3>1, <3>2
  <2>5. ASSUME NEW t \in Slots
        PROVE  WorkerFits(t)' /\ RecyclingFits(t)' /\ ActiveFits(t)'
    <3>1. worker[t] \in Workers \cup {None} /\ WorkerFits(t) /\ RecyclingFits(t) /\ ActiveFits(t)
      BY DEF CallInv, TypeInv, TypeOK
    <3>2. CASE t # s
      <4>1. WorkerFits(t)' /\ RecyclingFits(t)'
        BY <1>1, <1>4, <2>2, <2>3, <3>1, <3>2 DEF WorkerFits, RecyclingFits
      <4>2. ActiveFits(t)'
        BY <1>1, <1>2, <2>2, <2>3, <3>1, <3>2 DEF ActiveFits, Computes
      <4>3. QED
        BY <4>1, <4>2
    <3>3. CASE t = s
      BY <1>0, <1>1, <1>3, <1>4, <2>2, <2>3, <3>3 DEF WorkerFits, RecyclingFits, ActiveFits
    <3>4. QED
      BY <3>2, <3>3
  <2>6. CloseFits'
    <3>1. \A t \in Slots : Empty(t) => t # s /\ Empty(t)'
      BY <1>2, <2>2, <2>3 DEF Empty
    <3>2. closeStep # "clear" => closeAt \in Slots /\ closeAt # s
      BY <1>2, <2>2 DEF CallInv, CloseFits, TypeInv, TypeOK
    <3>3. QED
      BY <1>1, <2>2, <2>3, <3>1, <3>2 DEF CallInv, CloseFits, Closed, closeVars
  <2>7. WorkConserving'
    <3>1. \A t \in Slots : Idle(t)' => Idle(t)
      BY <1>2, <2>2, <2>3 DEF Idle
    <3>2. IdleSlots' \subseteq IdleSlots
      BY <3>1 DEF IdleSlots
    <3>3. QED
      BY <1>1, <3>2 DEF CallInv, WorkConserving, Closed, closeVars
  <2>8. QED
    BY <2>4, <2>5, <2>6, <2>7 DEF CallInv
<1>8. QED
  BY <1>6, <1>7

LEMMA ExitCall ==
    ASSUME TypeInv, WaitInv, CallInv, NEW w \in Workers, OnExit(w)
    PROVE  CallInv'
<1>0. PICK s : s = home[w]
  OBVIOUS
<1>1. Take(w, "exit") /\ UNCHANGED <<queue, closeVars, home, inbox>>
  BY DEF OnExit
<1>2. /\ main = "idle" /\ s \in Slots /\ inbox[w] = <<>> /\ w # None
      /\ \A v \in Workers : v # w => events'[v] = events[v]
      /\ \A r \in Requests : ~Replied(w, r)'
  BY <1>0, <1>1, TakeFacts, NoneIsNeither
<1>3. /\ thread[w] = "dead" /\ events'[w] = <<>> /\ Len(events'[w]) = 0
      /\ thread'[w] = "gone" /\ \A v \in Workers : v # w => thread'[v] = thread[v]
  BY <1>1, TakeFits DEF OnExit, TypeInv, TypeOK
<1>4. Fits(w)' /\ Undisturbed(w)' /\ Owned(w)' /\ Called(w)'
  <2>1. Len(inbox'[w]) <= 1
    BY <1>1, CallFacts DEF Fits
  <2>2. Fits(w)'
    BY <1>1, <1>2, <1>3, <2>1 DEF Fits, Alive
  <2>3. Undisturbed(w)' /\ Owned(w)'
    BY <1>3 DEF Undisturbed, Owned, Alive
  <2>4. Called(w)'
    BY <1>1, <1>2 DEF Called, InCall, Computes
  <2>5. QED
    BY <2>2, <2>3, <2>4
<1>5. CASE LetGo(s, w)
  <2>1. UNCHANGED <<requestVars, slotVars, main>>
    BY <1>0, <1>5 DEF OnExit
  <2>2. \A t \in Slots : worker[t] # w
    BY <1>0, <1>2, <1>5, HolderFacts DEF LetGo, CallInv, WorkerFits, RecyclingFits
  <2>3. ASSUME NEW v \in Workers, v # w
        PROVE  Fits(v)' /\ Called(v)' /\ Owned(v)' /\ Undisturbed(v)'
    BY <1>1, <1>2, <1>3, <2>1, <2>3, CallFacts
       DEF Fits, Owned, Undisturbed, Closed, closeVars, slotVars, Called, InCall, Computes, Replied
  <2>4. ASSUME NEW t \in Slots
        PROVE  WorkerFits(t)' /\ RecyclingFits(t)' /\ ActiveFits(t)'
    <3>1. /\ worker[t] \in Workers \cup {None} /\ recycling[t] \in Workers \cup {None}
          /\ WorkerFits(t) /\ RecyclingFits(t) /\ ActiveFits(t)
      BY DEF CallInv, TypeInv, TypeOK
    <3>2. WorkerFits(t)' /\ RecyclingFits(t)'
      BY <1>1, <1>3, <2>1, <2>2, <3>1 DEF WorkerFits, RecyclingFits, slotVars
    <3>3. ActiveFits(t)'
      BY <1>1, <1>2, <2>1, <2>2, <3>1 DEF ActiveFits, Computes, requestVars, slotVars
    <3>4. QED
      BY <3>2, <3>3
  <2>5. CloseFits' /\ WorkConserving'
    BY <1>1, <2>1 DEF CallInv, CloseFits, Empty, Closed, WorkConserving, IdleSlots, Idle,
                      closeVars, slotVars
  <2>6. QED
    BY <1>4, <2>3, <2>4, <2>5 DEF CallInv
<1>6. CASE ~LetGo(s, w)
  <2>1. FinishActive(s, w, "unavailable") /\ UNCHANGED recycling
    BY <1>0, <1>6 DEF OnExit
  <2>2. /\ worker[s] = w /\ recycling[s] = None /\ active'[s] = None
        /\ \A t \in Slots : t # s => active'[t] = active[t] /\ worker[t] # w
        /\ \A t \in Slots : active'[t] # None =>
              onWorker'[active'[t]] = onWorker[active'[t]]
    BY <1>0, <1>2, <1>6, <2>1, LetGoFacts
  <2>3. /\ worker'[s] = None /\ main' = "drain"
        /\ \A t \in Slots : t # s => worker'[t] = worker[t]
    BY <1>0, <1>2, <1>6, <2>2 DEF OnExit, Detach, TypeInv, TypeOK
  <2>4. ASSUME NEW v \in Workers, v # w
        PROVE  Fits(v)' /\ Called(v)' /\ Owned(v)' /\ Undisturbed(v)'
    BY <1>0, <1>1, <1>2, <1>3, <2>1, <2>2, <2>3, <2>4, OtherCalls DEF Closed, closeVars
  <2>5. ASSUME NEW t \in Slots
        PROVE  WorkerFits(t)' /\ RecyclingFits(t)' /\ ActiveFits(t)'
    <3>1. /\ worker[t] \in Workers \cup {None} /\ recycling[t] \in Workers \cup {None}
          /\ WorkerFits(t) /\ RecyclingFits(t) /\ ActiveFits(t)
      BY DEF CallInv, TypeInv, TypeOK
    <3>2. CASE t # s
      <4>1. WorkerFits(t)' /\ RecyclingFits(t)'
        BY <1>1, <1>3, <2>1, <2>2, <2>3, <3>1, <3>2 DEF WorkerFits, RecyclingFits
      <4>2. ActiveFits(t)'
        BY <1>1, <1>2, <2>2, <2>3, <3>1, <3>2 DEF ActiveFits, Computes
      <4>3. QED
        BY <4>1, <4>2
    <3>3. CASE t = s
      BY <2>1, <2>2, <2>3, <3>3 DEF WorkerFits, RecyclingFits, ActiveFits
    <3>4. QED
      BY <3>2, <3>3
  <2>6. CloseFits'
    <3>1. \A t \in Slots : Empty(t) => t # s /\ Empty(t)'
      BY <1>2, <2>1, <2>2, <2>3 DEF Empty
    <3>2. closeStep # "clear" => closeAt \in Slots /\ closeAt # s
      BY <1>2, <2>2 DEF CallInv, CloseFits, TypeInv, TypeOK
    <3>3. QED
      BY <1>1, <2>1, <2>2, <2>3, <3>1, <3>2 DEF CallInv, CloseFits, Closed, closeVars
  <2>7. WorkConserving'
    BY <2>3 DEF WorkConserving
  <2>8. QED
    BY <1>4, <2>4, <2>5, <2>6, <2>7 DEF CallInv
<1>7. QED
  BY <1>5, <1>6

LEMMA RecycleDoneCall ==
    ASSUME TypeInv, CallInv, NEW s \in Slots, RecycleDone(s)
    PROVE  CallInv'
<1>1. /\ UNCHANGED <<queue, onWorker, active, worker, closeVars, threadVars>>
      /\ thread[recycling[s]] = "gone" /\ main' = "drain" /\ recycling'[s] = None
      /\ \A t \in Slots : t # s => recycling'[t] = recycling[t]
  BY DEF RecycleDone, requestVars, TypeInv, TypeOK
<1>2. ASSUME NEW v \in Workers
      PROVE  Fits(v)' /\ Called(v)' /\ Owned(v)' /\ Undisturbed(v)'
  <2>1. Fits(v) /\ Called(v) /\ Owned(v) /\ Undisturbed(v)
    BY CallFacts
  <2>2. Fits(v)' /\ Called(v)' /\ Undisturbed(v)'
    BY <1>1, <2>1 DEF Fits, Called, InCall, Computes, Replied, Undisturbed, Closed,
                      closeVars, threadVars
  <2>3. thread[v] \in Alive => home[v] \in Slots /\ thread[v] # "gone"
    BY DEF TypeInv, Wired, Alive
  <2>4. Owned(v)'
    BY <1>1, <2>1, <2>3 DEF Owned, closeVars, threadVars
  <2>5. QED
    BY <2>2, <2>4
<1>3. ASSUME NEW t \in Slots
      PROVE  WorkerFits(t)' /\ RecyclingFits(t)' /\ ActiveFits(t)'
  BY <1>1 DEF CallInv, WorkerFits, RecyclingFits, ActiveFits, Computes, threadVars
<1>4. CloseFits'
  <2>1. \A t \in Slots : recycling[t] = None => recycling'[t] = None
    BY <1>1
  <2>2. closeStep # "clear" => closeAt \in Slots
    BY DEF TypeInv, TypeOK
  <2>3. QED
    BY <1>1, <2>1, <2>2 DEF CallInv, CloseFits, Empty, Closed, closeVars, threadVars
<1>5. WorkConserving'
  BY <1>1 DEF WorkConserving
<1>6. QED
  BY <1>2, <1>3, <1>4, <1>5 DEF CallInv

LEMMA CloseStartCall ==
    ASSUME TypeInv, CallInv, CloseStart
    PROVE  CallInv'
<1>1. /\ UNCHANGED <<onWorker, slotVars, closeStep, closeTarget, threadVars>>
      /\ queue' = <<>> /\ closeAt = 0 /\ closeAt' = 1 /\ main' = "close"
  BY DEF CloseStart, Closed
<1>2. closeStep = "clear"
  BY <1>1, PoolAssumption DEF Slots, TypeInv, TypeOK
<1>3. Closed'
  BY <1>1 DEF Closed
<1>4. ASSUME NEW v \in Workers
      PROVE  Fits(v)' /\ Called(v)' /\ Owned(v)' /\ Undisturbed(v)'
  BY <1>1, <1>2, <1>3, CallFacts
     DEF Fits, Called, InCall, Computes, Replied, Owned, Undisturbed, slotVars, threadVars
<1>5. ASSUME NEW t \in Slots
      PROVE  WorkerFits(t)' /\ RecyclingFits(t)' /\ ActiveFits(t)'
  BY <1>1 DEF CallInv, WorkerFits, RecyclingFits, ActiveFits, Computes, slotVars, threadVars
<1>6. CloseFits'
  <2>1. \A t \in Slots : ~(t < closeAt')
    BY <1>1, PoolAssumption DEF Slots
  <2>2. QED
    BY <1>1, <1>2, <2>1 DEF CloseFits
<1>7. WorkConserving'
  BY <1>3 DEF WorkConserving
<1>8. QED
  BY <1>4, <1>5, <1>6, <1>7 DEF CallInv

\* close() goes on: the slots it leaves behind are empty.
LEMMA NextSlotCloses ==
    ASSUME TypeInv, CallInv, NEW s \in Slots, s = closeAt, NextSlot, queue' = queue,
           \A t \in Slots : t < s /\ Empty(t) => Empty(t)',
           Empty(s)'
    PROVE  /\ Closed /\ Closed' /\ closeStep' = "clear"
           /\ CloseFits' /\ WorkConserving'
<1> USE PoolAssumption DEF Slots
<1>1. /\ Closed /\ Closed' /\ closeStep' = "clear" /\ closeAt' = closeAt + 1
  BY DEF NextSlot, Closed
<1>2. \A t \in Slots : t < closeAt' => Empty(t)'
  <2> SUFFICES ASSUME NEW t \in Slots, t < s + 1
               PROVE  Empty(t)'
    BY <1>1
  <2>1. CASE t = s
    BY <2>1
  <2>2. CASE t < s
    BY <1>1, <2>2 DEF CallInv, CloseFits
  <2>3. QED
    BY <2>1, <2>2
<1>3. CloseFits'
  BY <1>1, <1>2 DEF CallInv, CloseFits
<1>4. WorkConserving'
  BY <1>1 DEF WorkConserving
<1>5. QED
  BY <1>1, <1>3, <1>4

\* The worker of the slot at which close() is, if any, is asked to end.
LEMMA StopSlotCall ==
    ASSUME TypeInv, CallInv, closeAt \in Slots, closeStep # "terminate",
           recycling[closeAt] = None, StopSlotWorker(closeAt),
           active'[closeAt] = None,
           \A t \in Slots : t # closeAt => active'[t] = active[t],
           \A t \in Slots : active'[t] # None =>
              onWorker'[active'[t]] = onWorker[active'[t]],
           UNCHANGED <<queue, recycling, home, inbox, events>>
    PROVE  CallInv'
<1>0. PICK s \in Slots : s = closeAt
  OBVIOUS
<1>1. CASE worker[s] = None
  <2>1. NextSlot /\ UNCHANGED <<worker, thread>>
    BY <1>0, <1>1 DEF StopSlotWorker
  <2>2. /\ Closed /\ Closed' /\ closeStep' = "clear" /\ CloseFits' /\ WorkConserving'
    <3>1. \A t \in Slots : t < s /\ Empty(t) => Empty(t)'
      BY <1>0, <2>1, PoolAssumption DEF Empty, Slots
    <3>2. Empty(s)'
      BY <1>0, <1>1, <2>1 DEF Empty
    <3>3. QED
      BY <1>0, <2>1, <3>1, <3>2, NextSlotCloses
  <2>3. ASSUME NEW v \in Workers
        PROVE  Fits(v)' /\ Called(v)' /\ Owned(v)' /\ Undisturbed(v)'
    <3>1. Fits(v)' /\ Undisturbed(v)' /\ Owned(v)'
      BY <2>1, <2>2, CallFacts DEF Fits, Undisturbed, Owned
    <3>2. \A r \in Requests : InCall(v, r)' = InCall(v, r)
      BY DEF InCall, Computes, Replied
    <3>3. (\E r \in Requests : InCall(v, r)) => home[v] \in Slots
      BY DEF InCall, Computes, Replied, TypeInv, Wired
    <3>4. Called(v)'
      BY <1>0, <1>1, <2>1, <2>2, <3>2, <3>3, CallFacts, NoneIsNeither DEF Called
    <3>5. QED
      BY <3>1, <3>4
  <2>4. ASSUME NEW t \in Slots
        PROVE  WorkerFits(t)' /\ RecyclingFits(t)' /\ ActiveFits(t)'
    BY <1>0, <2>1 DEF CallInv, WorkerFits, RecyclingFits, ActiveFits, Computes
  <2>5. QED
    BY <2>2, <2>3, <2>4 DEF CallInv
<1>2. CASE worker[s] # None
  <2>1. PICK w \in Workers : w = worker[s]
    BY <1>2 DEF TypeInv, TypeOK
  <2>2. /\ worker'[s] = None /\ \A t \in Slots : t # s => worker'[t] = worker[t]
        /\ closeTarget' = w /\ closeStep' = "terminate" /\ main' = "idle"
        /\ closeAt' = closeAt /\ Terminate(w)
    BY <1>0, <1>2, <2>1 DEF StopSlotWorker, TypeInv, TypeOK
  <2>3. /\ home[w] = s /\ thread[w] \in {"running", "dead"} /\ w # None
        /\ \A t \in Slots : t # s => worker[t] # w /\ recycling[t] # w
    BY <1>2, <2>1, NoneIsNeither DEF CallInv, WorkerFits, RecyclingFits
  <2>4. /\ thread'[w] = IF thread[w] = "running" THEN "stopping" ELSE "dead"
        /\ \A v \in Workers : v # w => thread'[v] = thread[v]
    BY <2>2, <2>3 DEF Terminate, TypeInv, TypeOK
  <2>5. Closed /\ Closed'
    BY <2>2, PoolAssumption DEF Closed, Slots
  <2>6. ASSUME NEW v \in Workers
        PROVE  Fits(v)' /\ Called(v)' /\ Owned(v)' /\ Undisturbed(v)'
    <3>1. Undisturbed(v)'
      BY <2>5 DEF Undisturbed
    <3>2. Fits(v)'
      BY <2>3, <2>4, CallFacts DEF Fits, Alive
    <3>3. thread[v] # "unborn" => home[v] \in Slots
      BY DEF TypeInv, Wired
    <3>4. Owned(v)'
      <4>1. CASE v = w
        BY <1>0, <2>2, <2>3, <4>1 DEF Owned
      <4>2. CASE v # w
        BY <2>1, <2>2, <2>4, <3>3, <4>2, CallFacts DEF Owned, Alive
      <4>3. QED
        BY <4>1, <4>2
    <3>5. Called(v)'
      <4> SUFFICES ASSUME NEW r \in Requests, InCall(v, r)'
                   PROVE  \/ active'[home[v]] = r /\ worker'[home[v]] = v
                          \/ worker'[home[v]] # v
        BY <2>5 DEF Called
      <4>1. InCall(v, r) /\ home[v] \in Slots /\ v # None
        BY <3>3, NoneIsNeither DEF InCall, Computes, Replied, TypeInv, Wired
      <4>2. CASE home[v] = s
        BY <2>2, <4>1, <4>2
      <4>3. CASE home[v] # s
        BY <1>0, <2>2, <4>1, <4>3, CallFacts DEF Called
      <4>4. QED
        BY <4>2, <4>3
    <3>6. QED
      BY <3>1, <3>2, <3>4, <3>5
  <2>7. ASSUME NEW t \in Slots
        PROVE  WorkerFits(t)' /\ RecyclingFits(t)' /\ ActiveFits(t)'
    <3>1. /\ worker[t] \in Workers \cup {None} /\ recycling[t] \in Workers \cup {None}
          /\ WorkerFits(t) /\ RecyclingFits(t) /\ ActiveFits(t)
      BY DEF CallInv, TypeInv, TypeOK
    <3>2. CASE t # s
      <4>1. WorkerFits(t)' /\ RecyclingFits(t)'
        BY <1>0, <2>2, <2>3, <2>4, <3>1, <3>2 DEF WorkerFits, RecyclingFits
      <4>2. ActiveFits(t)'
        BY <1>0, <2>2, <2>3, <3>1, <3>2 DEF ActiveFits, Computes
      <4>3. QED
        BY <4>1, <4>2
    <3>3. CASE t = s
      BY <1>0, <2>2, <3>3 DEF WorkerFits, RecyclingFits, ActiveFits
    <3>4. QED
      BY <3>2, <3>3
  <2>8. CloseFits'
    <3>1. \A t \in Slots : t < closeAt => t # s
      BY <1>0, PoolAssumption DEF Slots
    <3>2. \A t \in Slots : t < closeAt => Empty(t)'
      BY <1>0, <2>2, <2>5, <3>1 DEF CallInv, CloseFits, Empty
    <3>3. queue' = <<>>
      BY <2>5 DEF CallInv, CloseFits
    <3>4. QED
      BY <1>0, <2>2, <2>3, <3>2, <3>3 DEF CloseFits
  <2>9. WorkConserving'
    BY <2>5 DEF WorkConserving
  <2>10. QED
    BY <2>6, <2>7, <2>8, <2>9 DEF CallInv
<1>3. QED
  BY <1>1, <1>2

LEMMA CloseSlotCall ==
    ASSUME TypeInv, WaitInv, CallInv, CloseSlot
    PROVE  CallInv'
<1>0. PICK s \in Slots : s = closeAt
  BY DEF CloseSlot, TypeInv, TypeOK
<1>1. /\ main = "close" /\ closeStep = "clear" /\ Closed
      /\ UNCHANGED <<queue, recycling, home, inbox, events>>
  BY <1>0, PoolAssumption DEF CloseSlot, CallInv, CloseFits, Closed, Slots
<1>2. /\ active'[s] = None /\ \A t \in Slots : t # s => active'[t] = active[t]
      /\ Release({active[s]} \ {None})
  BY <1>0 DEF CloseSlot, TypeInv, TypeOK
<1>3. \A t \in Slots : active'[t] # None => onWorker'[active'[t]] = onWorker[active'[t]]
  <2>1. \A t \in Slots : t # s /\ active[t] # None =>
           active[t] # active[s] /\ active[t] \in Requests
    BY DEF WaitInv, TypeInv, TypeOK
  <2>2. \A r \in Requests : r # active[s] => onWorker'[r] = onWorker[r]
    BY <1>2 DEF Release
  <2>3. QED
    BY <1>2, <2>1, <2>2
<1>4. CASE recycling[s] = None
  <2>1. StopSlotWorker(s)
    BY <1>0, <1>4 DEF CloseSlot
  <2>2. QED
    BY <1>0, <1>1, <1>2, <1>3, <1>4, <2>1, StopSlotCall
<1>5. CASE recycling[s] # None
  <2>1. /\ closeStep' = "recycle" /\ main' = "idle"
        /\ UNCHANGED <<closeAt, closeTarget, worker, thread>>
    BY <1>0, <1>5 DEF CloseSlot
  <2>2. worker[s] = None /\ active[s] = None
    BY <1>5 DEF CallInv, RecyclingFits
  <2>3. \A t \in Slots : active'[t] = active[t]
    BY <1>2, <2>2
  <2>4. Closed'
    BY <1>1, <2>1 DEF Closed
  <2>5. ASSUME NEW v \in Workers
        PROVE  Fits(v)' /\ Called(v)' /\ Owned(v)' /\ Undisturbed(v)'
    <3>1. Fits(v)' /\ Undisturbed(v)' /\ Owned(v)'
      BY <1>1, <2>1, <2>4, CallFacts DEF Fits, Undisturbed, Owned
    <3>2. \A r \in Requests : InCall(v, r)' = InCall(v, r)
      BY <1>1 DEF InCall, Computes, Replied
    <3>3. (\E r \in Requests : InCall(v, r)) => home[v] \in Slots
      BY DEF InCall, Computes, Replied, TypeInv, Wired
    <3>4. Called(v)'
      BY <1>1, <2>1, <2>3, <2>4, <3>2, <3>3, CallFacts DEF Called
    <3>5. QED
      BY <3>1, <3>4
  <2>6. ASSUME NEW t \in Slots
        PROVE  WorkerFits(t)' /\ RecyclingFits(t)' /\ ActiveFits(t)'
    BY <1>1, <1>3, <2>1, <2>3 DEF CallInv, WorkerFits, RecyclingFits, ActiveFits, Computes
  <2>7. CloseFits' /\ WorkConserving'
    <3>1. \A t \in Slots : t < closeAt => Empty(t)'
      BY <1>1, <2>1, <2>3 DEF CallInv, CloseFits, Empty
    <3>2. CloseFits'
      BY <1>0, <1>1, <1>2, <2>1, <2>2, <3>1 DEF CallInv, CloseFits
    <3>3. WorkConserving'
      BY <2>4 DEF WorkConserving
    <3>4. QED
      BY <3>2, <3>3
  <2>8. QED
    BY <2>5, <2>6, <2>7 DEF CallInv
<1>6. QED
  BY <1>4, <1>5

LEMMA ClosingCall ==
    ASSUME TypeInv, WaitInv, CallInv, Closing
    PROVE  CallInv'
<1>1. CASE CloseSlot
  BY <1>1, CloseSlotCall
<1>2. CASE CloseRecycled
  <2>1. /\ closeAt \in Slots /\ closeStep = "recycle" /\ active[closeAt] = None
        /\ recycling[closeAt] = None /\ StopSlotWorker(closeAt)
        /\ UNCHANGED <<queue, onWorker, active, recycling, home, inbox, events>>
    BY <1>2 DEF CloseRecycled, requestVars, CallInv, CloseFits, TypeInv, TypeOK
  <2>2. QED
    BY <2>1, StopSlotCall
<1>3. CASE CloseTerminated
  <2>1. /\ closeAt \in Slots /\ closeStep = "terminate" /\ thread[closeTarget] = "gone"
        /\ NextSlot /\ UNCHANGED <<queue, onWorker, active, worker, recycling, threadVars>>
    BY <1>3 DEF CloseTerminated, requestVars, slotVars, TypeInv, TypeOK
  <2>2. Closed /\ Closed' /\ closeStep' = "clear" /\ CloseFits' /\ WorkConserving'
    <3>0. PICK s \in Slots : s = closeAt
      BY <2>1
    <3>1. Empty(s)'
      BY <2>1, <3>0 DEF CallInv, CloseFits, Empty
    <3>2. \A t \in Slots : Empty(t) => Empty(t)'
      BY <2>1 DEF Empty
    <3>3. QED
      BY <2>1, <3>0, <3>1, <3>2, NextSlotCloses
  <2>3. ASSUME NEW v \in Workers
        PROVE  Fits(v)' /\ Called(v)' /\ Owned(v)' /\ Undisturbed(v)'
    <3>1. Fits(v)' /\ Called(v)' /\ Undisturbed(v)'
      BY <2>1, <2>2, CallFacts DEF Fits, Called, InCall, Computes, Replied, Undisturbed, threadVars
    <3>2. Owned(v)'
      BY <2>1, <2>2, CallFacts DEF Owned, Alive, threadVars
    <3>3. QED
      BY <3>1, <3>2
  <2>4. ASSUME NEW t \in Slots
        PROVE  WorkerFits(t)' /\ RecyclingFits(t)' /\ ActiveFits(t)'
    BY <2>1 DEF CallInv, WorkerFits, RecyclingFits, ActiveFits, Computes, threadVars
  <2>5. QED
    BY <2>2, <2>3, <2>4 DEF CallInv
<1>4. QED
  BY <1>1, <1>2, <1>3 DEF Closing

\* Where the threads, the slots and close() are, in every reachable state.
THEOREM CallInvAlways == Spec => []CallInv
<1>1. TypeInv /\ WaitInv /\ CallInv /\ [Next]_vars => CallInv'
  <2> SUFFICES ASSUME TypeInv, WaitInv, CallInv, [Next]_vars
               PROVE  CallInv'
    OBVIOUS
  <2>1. ASSUME NEW r \in Requests, Enqueue(r) \/ TimerStep(r) \/ Abort(r)
        PROVE  CallInv'
    BY <2>1, EnqueueCall, TimerCall
  <2>2. ASSUME NEW w \in Workers, ThreadStep(w) \/ EventStep(w)
        PROVE  CallInv'
    BY <2>2, ThreadStepCall, MessageCall, ErrorCall, ExitCall DEF EventStep
  <2>3. ASSUME NEW s \in Slots, RecycleDone(s)
        PROVE  CallInv'
    BY <2>3, RecycleDoneCall
  <2>4. CASE Drain
    BY <2>4, DrainCall
  <2>5. CASE CloseStart \/ Closing
    BY <2>5, CloseStartCall, ClosingCall
  <2>6. CASE UNCHANGED vars
    <3>1. UNCHANGED callVars /\ UNCHANGED <<queue, main>>
      BY <2>6 DEF vars, requestVars, callVars
    <3>2. WorkConserving'
      BY <3>1 DEF CallInv, WorkConserving, IdleSlots, Idle, Closed, callVars, slotVars, closeVars
    <3>3. QED
      BY <3>1, <3>2, QuietCall DEF CallInv, CloseFits
  <2>7. QED
    BY <2>1, <2>2, <2>3, <2>4, <2>5, <2>6 DEF Next, Finished
<1>2. QED
  BY InitCall, <1>1, TypeCorrect, WaitInvAlways, PTL DEF Spec

\* A slot is busy for a call that is under way, no worker is handed a second
\* call, and no slot idles beside a queue.
THEOREM CallsAlwaysMatch == Spec => []SlotsMatchCalls
BY CallInvAlways, TypeCorrect, CallsMatch, PTL

\* Only shutdown ends a thread inside a native call, there are no more threads
\* than slots, and close() leaves neither thread nor waiting client.
THEOREM ThreadsAlwaysSafe == Spec => []ThreadsAreSafe
BY CallInvAlways, WaitInvAlways, TypeCorrect, ThreadsEndWell, PTL

-----------------------------------------------------------------------------
(***************************************************************************)
(* The supervisor implements NoisePool, for every set of requests, pool    *)
(* size, queue bound and number of faults: each of its steps is a step of  *)
(* the pool, or one the callers do not see.  A step moves a request out of *)
(* the waiting room (Drop, Tail), into a place (Dispatched) or out of one  *)
(* (FinishActive), or answers it; WaitInv says where it is at most.        *)
(***************************************************************************)

\* The requests that hold a place.
Running == {active[s] : s \in Slots} \ {None}

PoolVars == <<Queued, Running, answer>>

LEMMA PoolAnswers ==
    /\ Pool!Refusals = {"busy", "unavailable", "aborted"}
    /\ Pool!QueueEnds = {"queue_timeout", "aborted", "unavailable"}
    /\ Pool!EarlyAnswers = {"timeout", "aborted"}
    /\ Pool!Results = {"ok", "worker_failure", "unavailable"}
BY DEF Pool!Refusals, Pool!QueueEnds, Pool!EarlyAnswers, Pool!Results

\* An instance has its own copy of what it extends.
LEMMA PoolCardinality == \A S : Pool!Cardinality(S) = Cardinality(S)
BY DEF Pool!Cardinality, Cardinality

-----------------------------------------------------------------------------
(* The waiting room and the places have bounds.                            *)

LEMMA QueuedFits ==
    ASSUME TypeInv
    PROVE  /\ Queued \subseteq Requests
           /\ IsFiniteSet(Queued) /\ Cardinality(Queued) <= Len(queue)
<1> DEFINE f == [i \in 1 .. Len(queue) |-> queue[i]]
<1>1. /\ DOMAIN queue = 1 .. Len(queue) /\ Len(queue) \in Nat
      /\ \A i \in DOMAIN queue : queue[i] \in Requests
  BY DEF TypeInv, TypeOK
<1>2. f \in Surjection(1 .. Len(queue), Queued)
  BY <1>1 DEF Surjection, Queued
<1>3. IsFiniteSet(1 .. Len(queue)) /\ Cardinality(1 .. Len(queue)) = Len(queue)
  BY <1>1, FS_Interval
<1> HIDE DEF f
<1>4. IsFiniteSet(Queued) /\ Cardinality(Queued) <= Len(queue)
  BY <1>2, <1>3, FS_Surjection
<1>5. QED
  BY <1>1, <1>4 DEF Queued

LEMMA RunningFits ==
    ASSUME TypeInv, NEW s \in Slots, active[s] = None
    PROVE  Cardinality(Running) < PoolSize
<1> DEFINE busy == {t \in Slots : active[t] # None}
           f == [t \in busy |-> active[t]]
<1>1. f \in Surjection(busy, Running)
  BY DEF Surjection, Running
<1>2. PoolSize \in Nat /\ IsFiniteSet(Slots) /\ Cardinality(Slots) = PoolSize
  BY FS_Interval, PoolAssumption DEF Slots
<1>3. /\ IsFiniteSet(Slots \ {s}) /\ Cardinality(Slots \ {s}) = PoolSize - 1
  BY <1>2, FS_RemoveElement
<1>4. busy \subseteq Slots \ {s}
  OBVIOUS
<1> HIDE DEF busy, f
<1>5. IsFiniteSet(busy) /\ Cardinality(busy) <= PoolSize - 1 /\ Cardinality(busy) \in Nat
  BY <1>3, <1>4, FS_Subset, FS_CardinalityType
<1>6. Cardinality(Running) <= Cardinality(busy) /\ IsFiniteSet(Running)
  BY <1>1, <1>5, FS_Surjection
<1>7. Cardinality(Running) \in Nat
  BY <1>6, FS_CardinalityType
<1>8. QED
  BY <1>2, <1>5, <1>6, <1>7

-----------------------------------------------------------------------------
(* How a request moves.                                                    *)

\* The head leaves the waiting room.
LEMMA HeadLeaves ==
    ASSUME TypeInv, WaitInv, queue # <<>>, queue' = Tail(queue)
    PROVE  Head(queue) \in Queued /\ Queued' = Queued \ {Head(queue)}
BY TailFacts DEF Queued

\* An entry leaves the middle of the waiting room.
LEMMA DropLeaves ==
    ASSUME TypeInv, WaitInv, NEW r \in Requests, NEW what, Drop(r, what)
    PROVE  r \in Queued /\ Queued' = Queued \ {r}
<1>1. PICK i \in DOMAIN queue : queue[i] = r /\ queue' = Splice(queue, i)
  BY DEF Drop
<1>2. /\ DOMAIN queue = 1 .. Len(queue) /\ Len(queue) \in Nat /\ i \in 1 .. Len(queue)
      /\ DOMAIN queue' = 1 .. Len(queue) - 1
      /\ \A j \in DOMAIN queue' : queue'[j] = IF j < i THEN queue[j] ELSE queue[j + 1]
  BY <1>1 DEF Splice, TypeInv, TypeOK
<1>3. \A j, k \in DOMAIN queue : queue[j] = queue[k] => j = k
  BY DEF WaitInv
<1>4. \A j \in DOMAIN queue' :
         IF j < i THEN j \in DOMAIN queue /\ j # i ELSE j + 1 \in DOMAIN queue /\ j + 1 # i
  BY <1>2
<1>5. \A j \in DOMAIN queue' : queue'[j] \in Queued \ {r}
  BY <1>1, <1>2, <1>3, <1>4 DEF Queued
<1>6. \A k \in DOMAIN queue : k < i => k \in DOMAIN queue' /\ queue'[k] = queue[k]
  BY <1>2
<1>7. \A k \in DOMAIN queue : k > i => k - 1 \in DOMAIN queue' /\ queue'[k - 1] = queue[k]
  BY <1>2
<1>8. \A k \in DOMAIN queue : queue[k] # r => queue[k] \in Queued'
  <2> SUFFICES ASSUME NEW k \in DOMAIN queue, queue[k] # r
               PROVE  queue[k] \in Queued'
    OBVIOUS
  <2>1. k < i \/ k > i
    BY <1>1, <1>2
  <2>2. QED
    BY <1>6, <1>7, <2>1 DEF Queued
<1>9. QED
  BY <1>1, <1>5, <1>8 DEF Queued

\* Who was waiting is answered and leaves: Expire.
LEMMA ExpireStep ==
    ASSUME NEW R \in SUBSET Requests, R # {}, R \subseteq Queued,
           \A r \in R : answer[r] = "pending",
           answer \in [Requests -> Answers \cup {"new", "pending"}],
           NEW why \in {"queue_timeout", "aborted", "unavailable"},
           Settle(R, why), Queued' = Queued \ R, Running' = Running
    PROVE  Pool!Next
<1>1. answer' = [r \in Requests |-> IF r \in R THEN why ELSE answer[r]]
  BY DEF Settle
<1>2. Pool!Expire(R)
  BY <1>1, PoolAnswers DEF Pool!Expire, Running
<1>3. QED
  BY <1>2 DEF Pool!Next

\* The request of a slot is settled and leaves it: Finish.
LEMMA FinishStep ==
    ASSUME TypeInv, WaitInv, NEW s \in Slots, active[s] # None,
           NEW e, e = active[s],
           NEW result \in {"ok", "worker_failure", "unavailable"},
           Settle({active[s]}, result), active' = [active EXCEPT ![s] = None],
           UNCHANGED queue
    PROVE  Pool!Next
<1>1. e \in Requests
  BY DEF TypeInv, TypeOK
<1>2. \A t \in Slots : /\ active'[t] = IF t = s THEN None ELSE active[t]
                       /\ t # s => active[t] # e
  BY DEF WaitInv, TypeInv, TypeOK
<1>3. e \in Running /\ Running' = Running \ {e}
  BY <1>2 DEF Running
<1>4. answer' = [answer EXCEPT ![e] = IF @ = "pending" THEN result ELSE @]
  BY <1>1 DEF Settle, TypeInv, TypeOK
<1>5. Queued' = Queued
  BY DEF Queued
<1>6. Pool!Finish(e)
  BY <1>3, <1>4, <1>5, PoolAnswers DEF Pool!Finish, Running
<1>7. QED
  BY <1>1, <1>6 DEF Pool!Next

\* A request in a slot is answered and keeps its place: AnswerEarly.
LEMMA EarlyStep ==
    ASSUME TypeInv, NEW r \in Requests, answer[r] = "pending",
           NEW s \in Slots, active[s] = r, NEW why \in {"timeout", "aborted"},
           Settle({r}, why), UNCHANGED <<queue, active>>
    PROVE  Pool!Next
<1>1. r \in Running /\ Running' = Running /\ Queued' = Queued
  BY PoolAssumption DEF Running, Queued
<1>2. answer' = [answer EXCEPT ![r] = why]
  BY DEF Settle, TypeInv, TypeOK
<1>3. Pool!AnswerEarly(r)
  BY <1>1, <1>2, PoolAnswers DEF Pool!AnswerEarly, Running
<1>4. QED
  BY <1>3 DEF Pool!Next

\* What the callers do not see.
LEMMA HiddenStep ==
    ASSUME UNCHANGED <<queue, active, answer>>
    PROVE  UNCHANGED Pool!vars
BY DEF Pool!vars, Queued

-----------------------------------------------------------------------------
(* Every step of the supervisor.                                           *)

LEMMA EnqueueSimulates ==
    ASSUME TypeInv, WaitInv, NEW r \in Requests, Enqueue(r)
    PROVE  [Pool!Next]_(Pool!vars)
<1>1. ASSUME NEW why \in {"busy", "unavailable", "aborted"}, Refuse(r, why)
      PROVE  Pool!Next
  <2>1. Queued' = Queued /\ Running' = Running
    BY <1>1 DEF Refuse, slotVars, Queued, Running
  <2>2. Pool!Refuse(r)
    BY <1>1, <2>1, PoolAnswers DEF Pool!Refuse, Refuse, Enqueue, Running
  <2>3. QED
    BY <2>2 DEF Pool!Next
<1>2. CASE EnqueueQueued(r)
  <2>1. /\ DOMAIN queue' = 1 .. Len(queue) + 1
        /\ \A i \in DOMAIN queue' : queue'[i] = IF i = Len(queue) + 1 THEN r ELSE queue[i]
        /\ DOMAIN queue = 1 .. Len(queue) /\ Len(queue) \in Nat
    BY <1>2 DEF EnqueueQueued, TypeInv, TypeOK
  <2>2. \A i \in DOMAIN queue : i \in DOMAIN queue' /\ queue'[i] = queue[i]
    BY <2>1
  <2>3. \A i \in DOMAIN queue' : queue'[i] = r \/ (i \in DOMAIN queue /\ queue'[i] = queue[i])
    BY <2>1
  <2>4. Len(queue) + 1 \in DOMAIN queue' /\ queue'[Len(queue) + 1] = r
    BY <2>1
  <2>5. Queued' = Queued \cup {r}
    BY <2>2, <2>3, <2>4 DEF Queued
  <2>6. Running' = Running
    BY <1>2 DEF EnqueueQueued, slotVars, Running
  <2>7. Cardinality(Queued) < MaxQueue
    BY <1>2, <2>1, QueuedFits, FS_CardinalityType, PoolAssumption DEF EnqueueQueued
  <2>8. Pool!Admit(r)
    BY <1>2, <2>5, <2>6, <2>7, PoolCardinality DEF Pool!Admit, Enqueue, EnqueueQueued, Running
  <2>9. QED
    BY <2>8 DEF Pool!Next
<1>3. QED
  BY <1>1, <1>2 DEF Enqueue, EnqueueClosed, EnqueueBusy, EnqueueAborted

LEMMA DrainSimulates ==
    ASSUME TypeInv, WaitInv, Drain
    PROVE  [Pool!Next]_(Pool!vars)
<1>1. CASE DrainEnds
  BY <1>1, HiddenStep DEF DrainEnds, requestVars, slotVars
<1>2. CASE Dispatch
  <2>1. queue # <<>> /\ queue' = Tail(queue)
    BY <1>2 DEF Dispatch, CanDispatch
  <2> PICK r : r = Head(queue)
    OBVIOUS
  <2>2. /\ r \in Requests /\ answer[r] = "pending" /\ r # None
        /\ r \in Queued /\ Queued' = Queued \ {r}
        /\ \A s \in Slots : active[s] # r
    BY <2>1, TailFacts, HeadLeaves DEF WaitInv, Queued
  <2>3. PICK s \in Slots :
           /\ FirstIdle(s)
           /\ SpawnFails(s, r) \/ \E w \in Workers : Dispatched(s, r, w) \/ PostFails(s, r, w)
    BY <1>2, <2>2 DEF Dispatch
  <2>4. CASE Settle({r}, "unavailable") /\ UNCHANGED active
    <3>1. Running' = Running
      BY <2>4 DEF Running
    <3>2. QED
      BY <2>2, <2>4, <3>1, ExpireStep DEF TypeInv, TypeOK
  <2>5. ASSUME NEW w \in Workers, Dispatched(s, r, w)
        PROVE  Pool!Next
    <3>1. active[s] = None /\ active' = [active EXCEPT ![s] = r] /\ answer' = answer
      BY <2>3, <2>5 DEF Dispatched, FirstIdle, IdleSlots, Idle
    <3>2. \A t \in Slots : active'[t] = IF t = s THEN r ELSE active[t]
      BY <3>1 DEF TypeInv, TypeOK
    <3>3. Running' = Running \cup {r}
      BY <2>2, <3>1, <3>2 DEF Running
    <3>4. Pool!Begin(r)
      BY <2>2, <3>1, <3>3, RunningFits, PoolCardinality DEF Pool!Begin, Running
    <3>5. QED
      BY <2>2, <3>4 DEF Pool!Next
  <2>6. QED
    BY <2>3, <2>4, <2>5 DEF SpawnFails, PostFails, slotVars
<1>3. QED
  BY <1>1, <1>2 DEF Drain

LEMMA EventSimulates ==
    ASSUME TypeInv, WaitInv, NEW w \in Workers, EventStep(w)
    PROVE  [Pool!Next]_(Pool!vars)
<1>1. home[w] \in Slots
  BY TakeType DEF EventStep, OnMessage, OnError, OnExit
<1>2. UNCHANGED queue
  BY DEF EventStep, OnMessage, OnError, OnExit
<1>3. \/ UNCHANGED <<requestVars, active>>
      \/ \E what \in {"ok", "worker_failure", "unavailable"} : FinishActive(home[w], w, what)
  BY DEF EventStep, OnMessage, OnError, OnExit, slotVars
<1>4. ASSUME NEW what \in {"ok", "worker_failure", "unavailable"},
             FinishActive(home[w], w, what), HoldsSlot(home[w], w)
      PROVE  Pool!Next
  BY <1>1, <1>2, <1>4, FinishStep DEF FinishActive, HoldsSlot
<1>5. QED
  BY <1>2, <1>3, <1>4, HiddenStep DEF FinishActive, requestVars

LEMMA TimerSimulates ==
    ASSUME TypeInv, WaitInv, NEW r \in Requests, TimerStep(r) \/ Abort(r)
    PROVE  [Pool!Next]_(Pool!vars)
<1>1. ASSUME NEW why \in {"queue_timeout", "aborted"}, Drop(r, why), UNCHANGED active
      PROVE  Pool!Next
  <2>1. Queued' = Queued \ {r} /\ {r} \subseteq Queued
    BY <1>1, DropLeaves
  <2>2. answer[r] = "pending" /\ Running' = Running
    BY <1>1, <2>1 DEF WaitInv, Queued, Running
  <2>3. QED
    BY <1>1, <2>1, <2>2, ExpireStep DEF Drop, TypeInv, TypeOK
<1>2. CASE WorkTimeout(r)
  <2>1. PICK s \in Slots : active[s] = r
    BY <1>2 DEF WorkTimeout, WaitInv
  <2>2. answer[r] = "pending"
    BY <1>2 DEF WorkTimeout, WaitInv
  <2>3. QED
    BY <1>2, <2>1, <2>2, EarlyStep DEF WorkTimeout, slotVars
<1>3. CASE QueueTimeout(r)
  BY <1>1, <1>3, HiddenStep DEF QueueTimeout, slotVars
<1>4. CASE Abort(r) /\ AbortActive(r)
  <2>1. PICK s \in Slots : active[s] = r
    BY <1>4 DEF AbortActive, Serves
  <2>2. answer[r] = "pending"
    BY <1>4 DEF Abort, WaitInv
  <2>3. QED
    BY <1>4, <2>1, <2>2, EarlyStep DEF Abort, AbortActive, slotVars
<1>5. CASE Abort(r) /\ AbortQueued(r)
  BY <1>1, <1>5, HiddenStep DEF Abort, AbortQueued, slotVars
<1>6. QED
  BY <1>2, <1>3, <1>4, <1>5 DEF TimerStep, Abort

LEMMA CloseSimulates ==
    ASSUME TypeInv, WaitInv, CloseStart \/ Closing
    PROVE  [Pool!Next]_(Pool!vars)
<1>1. CASE CloseStart
  <2>1. /\ queue' = <<>> /\ Settle(Queued, "unavailable") /\ UNCHANGED active
    BY <1>1 DEF CloseStart, slotVars
  <2>2. Queued' = {} /\ Running' = Running
    BY <2>1 DEF Queued, Running
  <2>3. \A r \in Queued : answer[r] = "pending"
    BY DEF WaitInv, Queued
  <2>4. CASE Queued = {}
    <3>1. answer' = answer
      BY <2>1, <2>4 DEF Settle, TypeInv, TypeOK
    <3>2. QED
      BY <2>2, <2>4, <3>1 DEF Pool!vars, Running
  <2>5. CASE Queued # {}
    BY <2>1, <2>2, <2>3, <2>5, QueuedFits, ExpireStep DEF TypeInv, TypeOK
  <2>6. QED
    BY <2>4, <2>5
<1>2. CASE CloseSlot
  <2>1. closeAt \in Slots
    BY <1>2 DEF CloseSlot, TypeInv, TypeOK
  <2>2. CASE active[closeAt] = None
    <3>1. answer' = answer /\ active' = active /\ queue' = queue
      BY <1>2, <2>1, <2>2 DEF CloseSlot, Settle, TypeInv, TypeOK
    <3>2. QED
      BY <3>1, HiddenStep
  <2>3. CASE active[closeAt] # None
    <3>1. {active[closeAt]} \ {None} = {active[closeAt]}
      BY <2>3
    <3>2. QED
      BY <1>2, <2>1, <2>3, <3>1, FinishStep DEF CloseSlot
  <2>4. QED
    BY <2>2, <2>3
<1>3. CASE CloseRecycled \/ CloseTerminated
  BY <1>3, HiddenStep DEF CloseRecycled, CloseTerminated, requestVars, slotVars
<1>4. QED
  BY <1>1, <1>2, <1>3 DEF Closing

LEMMA StepSimulates ==
    ASSUME TypeInv, WaitInv, [Next]_vars
    PROVE  [Pool!Next]_(Pool!vars)
<1>1. ASSUME NEW r \in Requests, Enqueue(r) \/ TimerStep(r) \/ Abort(r)
      PROVE  [Pool!Next]_(Pool!vars)
  BY <1>1, EnqueueSimulates, TimerSimulates
<1>2. ASSUME NEW w \in Workers, EventStep(w)
      PROVE  [Pool!Next]_(Pool!vars)
  BY <1>2, EventSimulates
<1>3. ASSUME NEW w \in Workers, ThreadStep(w)
      PROVE  [Pool!Next]_(Pool!vars)
  BY <1>3, HiddenStep DEF ThreadStep, WorkerReply, WorkerCrash, WorkerStops, ThreadEnds,
                          requestVars, slotVars
<1>4. ASSUME NEW s \in Slots, RecycleDone(s)
      PROVE  [Pool!Next]_(Pool!vars)
  BY <1>4, HiddenStep DEF RecycleDone, requestVars
<1>5. CASE Drain
  BY <1>5, DrainSimulates
<1>6. CASE CloseStart \/ Closing
  BY <1>6, CloseSimulates
<1>7. CASE UNCHANGED vars
  BY <1>7, HiddenStep DEF vars, requestVars, slotVars
<1>8. QED
  BY <1>1, <1>2, <1>3, <1>4, <1>5, <1>6, <1>7 DEF Next, Finished

\* Callers of the supervisor see what NoisePool promises them: a bounded waiting
\* room, one answer each, and a place held until its computation ends.
THEOREM SupervisorIsAPool == Spec => PoolSpec
<1>1. Init => Pool!Init
  BY DEF Init, Pool!Init, Queued, Slots
<1>2. TypeInv /\ WaitInv /\ [Next]_vars => [Pool!Next]_(Pool!vars)
  BY StepSimulates
<1>3. QED
  BY <1>1, <1>2, TypeCorrect, WaitInvAlways, PTL DEF Spec, PoolSpec, Pool!Spec
=============================================================================
