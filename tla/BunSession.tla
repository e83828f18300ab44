----------------------------- MODULE BunSession -----------------------------
(***************************************************************************)
(* One session of the typescript-bun gateway: the callbacks of the event   *)
(* loop (messages, the flush timer, the end of a request, drain, close),   *)
(* the bounded outbox and the backlog cap, with the time they are about.   *)
(*                                                                         *)
(* Time is discrete, a tick is the length of a frame, and instants are     *)
(* relative to the present.  lag counts the ticks that frames have waited  *)
(* through no fault of the configured waits: the loop had something due or *)
(* the client left the outbox full.                                        *)
(***************************************************************************)
EXTENDS Integers, Sequences

CONSTANTS Session,           \* the session's id
          NoConn,            \* not a session
          FlushInterval, PhaseJitter, InferenceTimeout,  \* SessionConfig, in frames
          Depth,             \* PARTIAL_CHANNEL_DEPTH
          MaxFrames,         \* bound: frames the client sends
          MaxLag             \* bound: how late the loop or the client gets

ASSUME BunAssumption ==
  /\ NoConn # Session
  /\ FlushInterval \in Nat \ {0} /\ PhaseJitter \in Nat /\ InferenceTimeout \in Nat \ {0}
  /\ Depth \in Nat \ {0}

VARIABLES
  socket,   \* "idle", "open", "streaming", "closing" (close() called), "closed"
  code,     \* close code given to the socket, 0 if none
  stuck,    \* getBufferedAmount() > 0
  drained,  \* a drain event is on its way
  wire,     \* answers the socket took
  closed,   \* SttSession.closed
  seq, buffer,
  due,      \* nextDueMs
  inflight, \* the promise: "none", "infer", "enqueue", "waiting"
  batch, answer,
  age,      \* ticks since the request was made
  running,  \* BoundedOutbox.drain is in its send loop
  queue, pending,  \* BoundedOutbox: queue, pendingBackpressure
  outClosed,       \* BoundedOutbox.closed
  arrived,  \* frames sent that the loop has not handled yet
  lag,
  answers   \* history: answers queued before the socket was closed

socketVars == <<socket, code, stuck, drained, wire>>
flushVars == <<inflight, batch, answer, age>>
outboxVars == <<running, queue, pending, outClosed, answers>>
vars == <<socketVars, closed, seq, buffer, due, flushVars, outboxVars, arrived, lag>>

NoBatch == [oldest |-> 0, newest |-> 0]
NoAudio == [conn |-> NoConn, first |-> 0, last |-> 0]

\* buildPartialMessage, buildErrorMessage
Answer(kind, b) ==
  [kind |-> kind, oldest |-> b.oldest, newest |-> b.newest,
   audio |-> IF kind = "partial" THEN [conn |-> Session, first |-> b.oldest, last |-> b.newest]
             ELSE NoAudio]

Longer(a, b) == IF a > b THEN a ELSE b
LongestWait == Longer(FlushInterval + PhaseJitter, InferenceTimeout + FlushInterval)

\* A bug: the cap has no slack for a stall.
NoSlack == LongestWait

\* maxBufferedFrames
MaxBufferedFrames == 2 * LongestWait

Init ==
  /\ socket = "idle" /\ code = 0 /\ stuck = FALSE /\ drained = FALSE /\ wire = <<>>
  /\ closed = FALSE /\ seq = 0 /\ buffer = <<>> /\ due = 0
  /\ inflight = "none" /\ batch = NoBatch /\ answer = <<>> /\ age = 0
  /\ running = FALSE /\ queue = <<>> /\ pending = 0 /\ outClosed = FALSE
  /\ arrived = 0 /\ lag = 0 /\ answers = <<>>

Over == socket \in {"closing", "closed"}
-----------------------------------------------------------------------------
(* Time and the client. *)

Late == due <= 0 \/ (inflight = "infer" /\ age >= InferenceTimeout) \/ inflight = "enqueue"
        \/ arrived > 0 \/ drained
Blocked == inflight = "waiting"

\* A tick, in which the client sends a frame or pauses.
Tick(frame) ==
  /\ ~running /\ socket = "streaming"
  /\ seq + arrived + frame <= MaxFrames
  /\ Late \/ Blocked => lag < MaxLag /\ due > -MaxLag /\ age < InferenceTimeout + MaxLag
  /\ due' = due - 1
  /\ age' = IF inflight = "infer" THEN age + 1 ELSE 0
  /\ arrived' = arrived + frame
  /\ lag' = IF buffer = <<>> /\ arrived = 0 THEN 0 ELSE lag + (IF Late \/ Blocked THEN 1 ELSE 0)
  /\ UNCHANGED <<socketVars, closed, seq, buffer, inflight, batch, answer, outboxVars>>

\* The client reads what the socket holds; the drain event follows.
ClientReads ==
  /\ ~running /\ stuck
  /\ stuck' = FALSE /\ drained' = TRUE
  /\ UNCHANGED <<socket, code, wire, closed, seq, buffer, due, flushVars, outboxVars, arrived, lag>>
-----------------------------------------------------------------------------
(* The outbox. *)

\* resolveSpace, and close for all waiters: there is one at most.
Wake == IF inflight = "waiting" THEN "enqueue" ELSE inflight

\* BoundedOutbox.close
OutboxClose ==
  /\ outClosed' = TRUE /\ queue' = <<>> /\ pending' = 0
  /\ inflight' = Wake

\* drain, to its send loop: nothing is sent before the socket has been emptied.
StartDrain(q) ==
  /\ queue' = q
  /\ IF pending > 0 /\ stuck
       THEN UNCHANGED <<running, pending>>
       ELSE running' = TRUE /\ pending' = 0

\* A bug: drain wakes the waiter when the socket is empty again, and sends nothing.
OnDrainOnlyWakes ==
  /\ ~running /\ drained
  /\ drained' = FALSE
  /\ pending' = IF stuck THEN pending ELSE 0
  /\ inflight' = IF ~outClosed /\ pending > 0 /\ ~stuck THEN Wake ELSE inflight
  /\ UNCHANGED <<socket, code, stuck, wire, closed, seq, buffer, due, batch, answer, age,
                 running, queue, outClosed, answers, arrived, lag>>

\* The drain callback.
OnDrain ==
  /\ ~running /\ drained
  /\ drained' = FALSE
  /\ IF outClosed THEN UNCHANGED <<running, queue, pending>> ELSE StartDrain(queue)
  /\ inflight' = IF ~outClosed /\ pending > 0 /\ ~stuck THEN Wake ELSE inflight
  /\ UNCHANGED <<socket, code, stuck, wire, closed, seq, buffer, due, batch, answer, age,
                 outClosed, answers, arrived, lag>>

\* One round of the send loop: sent, sent with back-pressure, or dropped by Bun,
\* which ends the connection.
SendNext(status) ==
  /\ running /\ queue # <<>>
  /\ \/ /\ status # 0
        /\ wire' = Append(wire, Head(queue))
        /\ queue' = Tail(queue)
        /\ inflight' = Wake
        /\ running' = (status > 0)
        /\ pending' = IF status < 0 THEN 1 ELSE pending
        /\ stuck' = (status < 0)
        /\ UNCHANGED <<socket, code, outClosed>>
     \/ /\ status = 0
        /\ OutboxClose
        /\ running' = FALSE
        /\ socket' = "closing" /\ code' = 1011
        /\ UNCHANGED <<wire, stuck>>
  /\ UNCHANGED <<drained, closed, seq, buffer, due, batch, answer, age, answers, arrived, lag>>

DrainEnd ==
  /\ running /\ queue = <<>>
  /\ running' = FALSE
  /\ UNCHANGED <<socketVars, closed, seq, buffer, due, flushVars, queue, pending, outClosed, answers,
                 arrived, lag>>

\* enqueue, first called or woken: look at the capacity, wait or queue and drain.
Enqueue ==
  /\ ~running /\ inflight = "enqueue"
  /\ \/ /\ outClosed
        /\ inflight' = "none" /\ answer' = <<>>
        /\ UNCHANGED <<batch, running, queue, pending, answers>>
     \/ /\ ~outClosed /\ Len(queue) + pending >= Depth
        /\ inflight' = "waiting"
        /\ UNCHANGED <<batch, answer, running, queue, pending, answers>>
     \/ /\ ~outClosed /\ Len(queue) + pending < Depth
        /\ StartDrain(queue \o answer)
        /\ answers' = IF Over THEN answers ELSE answers \o answer
        /\ inflight' = "none" /\ batch' = NoBatch /\ answer' = <<>>
  /\ UNCHANGED <<socketVars, closed, seq, buffer, due, age, outClosed, arrived, lag>>
-----------------------------------------------------------------------------
(* The session. *)

OnOpen ==
  /\ socket = "idle"
  /\ socket' = "open"
  /\ UNCHANGED <<code, stuck, drained, wire, closed, seq, buffer, due, flushVars, outboxVars,
                 arrived, lag>>

\* handleMessage: the start message, startFlushLoop.
OnStart ==
  /\ socket = "open"
  /\ socket' = "streaming"
  /\ due' \in FlushInterval .. FlushInterval + PhaseJitter
  /\ UNCHANGED <<code, stuck, drained, wire, closed, seq, buffer, flushVars, outboxVars,
                 arrived, lag>>

\* handleMessage: a frame, with room in the backlog.
OnFrame ==
  /\ ~running /\ socket = "streaming" /\ arrived > 0
  /\ Len(buffer) < MaxBufferedFrames
  /\ seq' = seq + 1 /\ buffer' = Append(buffer, seq + 1)
  /\ arrived' = arrived - 1
  /\ UNCHANGED <<socketVars, closed, due, flushVars, outboxVars, lag>>

\* SttSession.close: no timer, no request and no outbox any more; frames that were
\* not read are not read any more.
Close(s, k) ==
  /\ closed' = TRUE
  /\ socket' = s /\ code' = k
  /\ OutboxClose
  /\ due' = 0 /\ age' = 0 /\ arrived' = 0
  /\ UNCHANGED <<stuck, drained, wire, seq, buffer, batch, answer, running, answers, lag>>

\* closeWith: an unexpected message, or a frame too many.
OnRefused(m) ==
  /\ ~running
  /\ \/ m \in {"text", "frame", "badsize"} /\ socket = "open" /\ Close("closing", 1002)
     \/ m = "text" /\ socket = "streaming" /\ Close("closing", 1002)
     \/ m = "badsize" /\ socket = "streaming" /\ Close("closing", 1003)
     \/ /\ m = "frame" /\ socket = "streaming" /\ arrived > 0
        /\ Len(buffer) >= MaxBufferedFrames /\ Close("closing", 1013)

\* The close callback, for our close or the peer's.
OnClose ==
  /\ ~running /\ socket \in {"open", "streaming", "closing"}
  /\ Close("closed", code)

\* A bug: a flush takes the frames although a request is in flight.
FlushAnyway ==
  IF buffer # <<>> /\ ~closed
    THEN /\ batch' = [oldest |-> buffer[1], newest |-> buffer[Len(buffer)]]
         /\ buffer' = <<>>
         /\ inflight' = "infer" /\ age' = 0
         /\ lag' = IF arrived = 0 THEN 0 ELSE lag
    ELSE UNCHANGED <<batch, buffer, inflight, age, lag>>

\* flushDue
FlushDue ==
  IF inflight = "none" /\ buffer # <<>> /\ ~closed
    THEN /\ batch' = [oldest |-> buffer[1], newest |-> buffer[Len(buffer)]]
         /\ buffer' = <<>>
         /\ inflight' = "infer" /\ age' = 0
         /\ lag' = IF arrived = 0 THEN 0 ELSE lag
    ELSE UNCHANGED <<batch, buffer, inflight, age, lag>>

\* scheduleNextFlush: the timer fires, and is set again before the flush.
OnTimer ==
  /\ ~running /\ ~closed /\ socket \in {"streaming", "closing"} /\ due <= 0
  /\ due' = due + FlushInterval
  /\ FlushDue
  /\ UNCHANGED <<socketVars, closed, seq, answer, outboxVars, arrived>>

\* processBatch: the request ends, by itself, by its timeout or by close's abort.
ProcessBatch(kind) ==
  /\ ~running /\ inflight = "infer"
  /\ IF closed THEN inflight' = "none" /\ UNCHANGED answer
               ELSE inflight' = "enqueue" /\ answer' = <<Answer(kind, batch)>>
  /\ UNCHANGED <<socketVars, closed, seq, buffer, due, batch, age, outboxVars, arrived, lag>>
-----------------------------------------------------------------------------
Next ==
  \/ OnOpen \/ OnStart \/ OnFrame \/ OnClose \/ OnTimer \/ OnDrain \/ DrainEnd \/ Enqueue
  \/ ClientReads
  \/ \E frame \in {0, 1} : Tick(frame)
  \/ \E m \in {"text", "frame", "badsize"} : OnRefused(m)
  \/ \E kind \in {"partial", "error"} : ProcessBatch(kind)
  \/ \E status \in {-1, 0, 1} : SendNext(status)

Spec == Init /\ [][Next]_vars

\* Time passes, the loop runs every callback some day, requests have a timeout and
\* the client reads.
Fairness ==
  /\ WF_vars(Tick(0)) /\ WF_vars(ClientReads)
  /\ WF_vars(OnFrame \/ (arrived > 0 /\ OnRefused("frame"))) /\ WF_vars(OnTimer) /\ WF_vars(OnDrain) /\ WF_vars(DrainEnd)
  /\ WF_vars(Enqueue) /\ WF_vars(\E kind \in {"partial", "error"} : ProcessBatch(kind))
  /\ WF_vars(\E status \in {-1, 0, 1} : SendNext(status))

FairSpec == Spec /\ Fairness
-----------------------------------------------------------------------------
\* The session is over for the client once close() was called.
Phase == IF socket = "idle" THEN "idle"
         ELSE IF socket = "open" THEN "connected"
         ELSE IF socket = "streaming" THEN "streaming" ELSE "closed"

\* The answers sent, and those queued while there was somebody to send them to.
Produced == wire \o SubSeq(answers, Len(wire) + 1, Len(answers))

Contract == INSTANCE SttContract WITH
  Conn     <- {Session},
  phase    <- [c \in {Session} |-> Phase],
  received <- [c \in {Session} |-> seq],
  inflight <- [c \in {Session} |-> IF Over THEN NoBatch ELSE batch],
  out      <- [c \in {Session} |-> Produced],
  sent     <- [c \in {Session} |-> Len(wire)],
  code     <- [c \in {Session} |-> code]

\* The session implements the contract: a waiter of the outbox that is woken, waits
\* again or finds it closed neither loses nor reorders an answer, and nothing is sent
\* on a socket that was closed.
ImplementsContract == Contract!Spec

\* The backlog cap spares healthy sessions: 1013 is only sent when late callbacks or
\* a client that does not read have held frames up for at least the longest
\* configured wait.
CapSparesHealthy == code = 1013 => lag >= LongestWait

Reported == IF wire = <<>> THEN 0 ELSE wire[Len(wire)].newest

\* When the client pauses, which it does once it has sent MaxFrames frames, everything
\* it sent is reported, if the session lasts: the outbox's waiter is always woken, and
\* no answer is left in the queue.
CaughtUp == []<>(Reported = seq \/ socket # "streaming")
=============================================================================
