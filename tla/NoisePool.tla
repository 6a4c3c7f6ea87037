----------------------------- MODULE NoisePool -----------------------------
(***************************************************************************)
(* What the callers of NoiseOnflySupervisor are promised, with no workers, *)
(* timers or events: a bounded waiting room in front of a fixed number of  *)
(* places.  Every request is answered at most once; a place is held until  *)
(* the computation in it ends, even when its caller has already been       *)
(* answered.  NoiseSupervisor implements this specification.               *)
(***************************************************************************)
EXTENDS FiniteSets, Naturals

CONSTANTS
    Requests,   \* the requests callers may submit
    PoolSize,   \* number of places
    MaxQueue    \* capacity of the waiting room

VARIABLES
    waiting,    \* admitted requests that hold no place yet
    running,    \* requests holding a place
    answer      \* what each caller has received so far

vars == <<waiting, running, answer>>

\* Why a request is turned away at the door, and why one that was let in ends.
Refusals == {"busy", "unavailable", "aborted"}
QueueEnds == {"queue_timeout", "aborted", "unavailable"}
EarlyAnswers == {"timeout", "aborted"}
Results == {"ok", "worker_failure", "unavailable"}
Answers == Refusals \cup QueueEnds \cup EarlyAnswers \cup Results

Init ==
    /\ waiting = {}
    /\ running = {}
    /\ answer = [r \in Requests |-> "new"]

Refuse(r) ==
    /\ answer[r] = "new"
    /\ \E why \in Refusals : answer' = [answer EXCEPT ![r] = why]
    /\ UNCHANGED <<waiting, running>>

Admit(r) ==
    /\ answer[r] = "new"
    /\ Cardinality(waiting) < MaxQueue
    /\ answer' = [answer EXCEPT ![r] = "pending"]
    /\ waiting' = waiting \cup {r}
    /\ UNCHANGED running

Begin(r) ==
    /\ r \in waiting
    /\ Cardinality(running) < PoolSize
    /\ waiting' = waiting \ {r}
    /\ running' = running \cup {r}
    /\ UNCHANGED answer

\* Requests R leave the waiting room with the same answer.
Expire(R) ==
    /\ R # {}
    /\ R \subseteq waiting
    /\ waiting' = waiting \ R
    /\ \E why \in QueueEnds :
          answer' = [r \in Requests |-> IF r \in R THEN why ELSE answer[r]]
    /\ UNCHANGED running

\* The caller is answered early; the place stays taken.
AnswerEarly(r) ==
    /\ r \in running
    /\ answer[r] = "pending"
    /\ \E why \in EarlyAnswers : answer' = [answer EXCEPT ![r] = why]
    /\ UNCHANGED <<waiting, running>>

\* The computation ends; its result reaches the caller unless answered before.
Finish(r) ==
    /\ r \in running
    /\ running' = running \ {r}
    /\ \E result \in Results :
          answer' = [answer EXCEPT ![r] = IF @ = "pending" THEN result ELSE @]
    /\ UNCHANGED waiting

Next ==
    \/ \E r \in Requests :
          Refuse(r) \/ Admit(r) \/ Begin(r) \/ AnswerEarly(r) \/ Finish(r)
    \/ \E R \in SUBSET Requests : Expire(R)

Spec == Init /\ [][Next]_vars
=============================================================================
