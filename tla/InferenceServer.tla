-------------------------- MODULE InferenceServer ---------------------------
(***************************************************************************)
(* The simulated GPU: a request acquires one of MaxConcurrent streams, in  *)
(* the order of arrival, computes on a blocking thread, sleeps for its     *)
(* latency and answers, holding the stream until then.  A client that goes *)
(* away drops the handler at the await it is at; the blocking computation  *)
(* it started runs on.                                                     *)
(***************************************************************************)
EXTENDS Integers, Sequences, FiniteSets, SequencesExt

CONSTANTS Request,        \* requests, each made once
          MaxConcurrent   \* MODEL_MAX_CONCURRENT

ASSUME MaxConcurrentPositive == MaxConcurrent \in Nat \ {0}

ASSUME RequestsFinite == IsFiniteSet(Request)

VARIABLES handler,    \* where each request's handler is
          status,     \* the HTTP status answered, 0 if none
          permits,    \* concurrency_sem: permits nobody holds
          waiters,    \* the handlers waiting for one, in order
          blocking    \* computations on the blocking pool

server == <<handler, status, permits, waiters, blocking>>

Holding == {"granted", "computing", "sleeping"}

ServerInit ==
  /\ handler = [r \in Request |-> "none"]
  /\ status = [r \in Request |-> 0]
  /\ permits = MaxConcurrent
  /\ waiters = <<>>
  /\ blocking = {}

\* A bug: a permit given back while others wait is put aside for the next arrival.
KeepPermit(r, to) ==
  /\ handler' = [handler EXCEPT ![r] = to]
  /\ permits' = permits + 1
  /\ UNCHANGED waiters

\* The handler of r leaves with its permit, which goes to the first waiter if any.
Release(r, to) ==
  IF waiters = <<>>
    THEN /\ handler' = [handler EXCEPT ![r] = to]
         /\ permits' = permits + 1
         /\ UNCHANGED waiters
    ELSE /\ handler' = [handler EXCEPT ![r] = to, ![Head(waiters)] = "granted"]
         /\ waiters' = Tail(waiters)
         /\ UNCHANGED permits

Answer(r, code) == status' = [status EXCEPT ![r] = code]

\* infer, to its first await: an odd body is refused before it costs a stream.
Arrive(r, even) ==
  /\ handler[r] = "none"
  /\ \/ /\ ~even
        /\ handler' = [handler EXCEPT ![r] = "answered"]
        /\ Answer(r, 400)
        /\ UNCHANGED <<permits, waiters, blocking>>
     \/ /\ even /\ permits > 0
        /\ handler' = [handler EXCEPT ![r] = "computing"]
        /\ permits' = permits - 1
        /\ blocking' = blocking \cup {r}
        /\ UNCHANGED <<status, waiters>>
     \/ /\ even /\ permits = 0
        /\ handler' = [handler EXCEPT ![r] = "queued"]
        /\ waiters' = Append(waiters, r)
        /\ UNCHANGED <<status, permits, blocking>>

\* The handler finds that it has been granted the permit and starts to compute.
Resume(r) ==
  /\ handler[r] = "granted"
  /\ handler' = [handler EXCEPT ![r] = "computing"]
  /\ blocking' = blocking \cup {r}
  /\ UNCHANGED <<status, permits, waiters>>

\* The computation ends; a handler that is still there goes on to sleep.
Computed(r) ==
  /\ r \in blocking
  /\ blocking' = blocking \ {r}
  /\ handler' = IF handler[r] = "computing" THEN [handler EXCEPT ![r] = "sleeping"] ELSE handler
  /\ UNCHANGED <<status, permits, waiters>>

ComputePanics(r) ==
  /\ r \in blocking
  /\ blocking' = blocking \ {r}
  /\ IF handler[r] = "computing"
       THEN Release(r, "answered") /\ Answer(r, 500)
       ELSE UNCHANGED <<handler, status, permits, waiters>>

Slept(r) ==
  /\ handler[r] = "sleeping"
  /\ Release(r, "answered")
  /\ Answer(r, 200)
  /\ UNCHANGED blocking

\* A bug: the permit of a dropped handler is lost.
ClientGoneLeaks(r) ==
  /\ handler[r] \in {"queued"} \cup Holding
  /\ handler' = [handler EXCEPT ![r] = "dropped"]
  /\ waiters' = SelectSeq(waiters, LAMBDA w : w # r)
  /\ UNCHANGED <<status, permits, blocking>>

\* The client resets the stream: the handler is dropped, and its permit or its
\* place in the queue with it.
ClientGone(r) ==
  /\ \/ /\ handler[r] = "queued"
        /\ handler' = [handler EXCEPT ![r] = "dropped"]
        /\ \E i \in DOMAIN waiters : waiters[i] = r /\ waiters' = RemoveAt(waiters, i)
        /\ UNCHANGED permits
     \/ handler[r] \in Holding /\ Release(r, "dropped")
  /\ UNCHANGED <<status, blocking>>

ServerStep(r) == Resume(r) \/ Computed(r) \/ ComputePanics(r) \/ Slept(r)

-----------------------------------------------------------------------------
Streams == {r \in Request : handler[r] \in Holding}

\* Every permit is free or held by exactly one handler that is still there, the queue
\* is exactly the handlers that wait, and no stream idles while a request waits:
\* neither answers nor panics nor clients that go away in any state lose a permit.
PermitsExact ==
  /\ permits + Cardinality(Streams) = MaxConcurrent
  /\ ToSet(waiters) = {r \in Request : handler[r] = "queued"}
  /\ Cardinality(ToSet(waiters)) = Len(waiters)
  /\ waiters # <<>> => permits = 0

\* A request that queues is answered or given up: the queue always moves.
QueueMoves ==
  \A r \in Request : handler[r] = "queued" ~> handler[r] \in {"answered", "dropped"}
=============================================================================
