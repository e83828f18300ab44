---------------------------- MODULE JavaSession -----------------------------
(***************************************************************************)
(* One session of the java-helidon-nima gateway: Helidon's receive thread, *)
(* the writer and the flush thread.  They share the frame buffer, a        *)
(* bounded outbox, the closed flag and sendLock; whoever flips closed ends *)
(* the session and interrupts the workers.                                 *)
(*                                                                         *)
(* Only the flush thread takes the inflight slot, so its CAS never fails.  *)
(* Messages are whole: fragments change nothing until the last one.        *)
(***************************************************************************)
EXTENDS Integers, Sequences

CONSTANTS Session,     \* the session's id
          NoConn,      \* not a session
          Depth,       \* partialChannelDepth
          MaxBacklog,  \* MAX_BACKLOG_FRAMES
          MaxFrames    \* bound: frames the client sends

ASSUME JavaAssumption == NoConn # Session /\ Depth \in Nat \ {0} /\ MaxBacklog \in Nat \ {0}

VARIABLES
  rx,        \* the receive thread
  closing,   \* closeWith's code while rx closes, 0 in shutdown
  seq,       \* last sequence number given
  buffer,    \* frames not flushed yet
  closed,    \* the flag
  lock,      \* who holds sendLock
  outbox,    \* answers queued for the writer
  w, inHand, \* the writer, and the answer it took
  f, batch, answer,  \* the flush thread, the frames at inference, the answer to put
  interrupted,       \* workers whose interrupt flag is set
  wire,      \* answers written
  code,      \* close code written, 0 if none
  over,      \* the thread that flipped closed has done its part
  answers,   \* history: answers put in the outbox before that
  stranded   \* history: closeWith's write of the close frame threw or hangs

rxVars == <<rx, closing, seq, code, stranded>>
wVars == <<w, inHand, wire>>
fVars == <<f, batch, answer, buffer>>
vars == <<rxVars, wVars, fVars, closed, lock, outbox, interrupted, over, answers>>

NoBatch == [oldest |-> 0, newest |-> 0]
NoAudio == [conn |-> NoConn, first |-> 0, last |-> 0]
Workers == {"writer", "flush"}

\* PartialMessage, ErrorMessage
Answer(kind, b) ==
  [kind |-> kind, oldest |-> b.oldest, newest |-> b.newest,
   audio |-> IF kind = "partial" THEN [conn |-> Session, first |-> b.oldest, last |-> b.newest]
             ELSE NoAudio]

Init ==
  /\ rx = "idle" /\ closing = 0 /\ seq = 0 /\ code = 0 /\ stranded = FALSE
  /\ w = "none" /\ inHand = <<>> /\ wire = <<>>
  /\ f = "none" /\ batch = NoBatch /\ answer = <<>> /\ buffer = <<>>
  /\ closed = FALSE /\ lock = "free" /\ outbox = <<>> /\ interrupted = {}
  /\ over = FALSE /\ answers = <<>>

Started == f # "none"

\* A bug: only the flush thread is interrupted.
InterruptFlush == interrupted' = IF Started THEN interrupted \cup {"flush"} ELSE interrupted

InterruptWorkers == interrupted' = IF Started THEN Workers ELSE interrupted
-----------------------------------------------------------------------------
(* The receive thread.  A callback's test of closed and its effect are one  *)
(* step: what it appends is drained or forgotten either way.                *)

OnOpen ==
  /\ rx = "idle"
  /\ rx' = "ready"
  /\ UNCHANGED <<closing, seq, code, stranded, wVars, fVars, closed, lock, outbox,
                 interrupted, over, answers>>

\* onMessage: the start message; both workers are started.
OnStart ==
  /\ rx = "ready" /\ ~closed /\ ~Started
  /\ w' = "top" /\ f' = "park"
  /\ UNCHANGED <<rxVars, inHand, wire, batch, answer, buffer, closed, lock, outbox,
                 interrupted, over, answers>>

\* onMessage, append: a whole frame, with room in the backlog.
OnFrame ==
  /\ rx = "ready" /\ ~closed /\ Started /\ seq < MaxFrames
  /\ Len(buffer) < MaxBacklog
  /\ seq' = seq + 1
  /\ buffer' = Append(buffer, seq + 1)
  /\ UNCHANGED <<rx, closing, code, stranded, wVars, f, batch, answer, closed, lock, outbox,
                 interrupted, over, answers>>

\* closeWith and shutdown flip closed and go on to lockForClose.
BeginClose(k) ==
  /\ closed' = TRUE
  /\ rx' = "lock1"
  /\ closing' = k
  /\ UNCHANGED <<seq, code, stranded, wVars, fVars, lock, outbox, interrupted, over, answers>>

\* A message that ends the session with closeWith.
OnRefused(m) ==
  /\ rx = "ready" /\ ~closed
  /\ \/ m \in {"text", "frame", "badsize"} /\ ~Started /\ BeginClose(1002)
     \/ m = "text" /\ Started /\ BeginClose(1002)
     \/ m = "badsize" /\ Started /\ BeginClose(1003)
     \/ m = "frame" /\ Started /\ Len(buffer) = MaxBacklog /\ BeginClose(1013)

\* onClose, onError: shutdown, which returns at once when closed was set before;
\* then Helidon writes a close frame of its own.
OnEnd ==
  /\ rx = "ready"
  /\ \/ ~closed /\ BeginClose(0)
     \/ /\ closed /\ rx' = "helidon"
        /\ UNCHANGED <<closing, seq, code, stranded, wVars, fVars, closed, lock, outbox,
                       interrupted, over, answers>>

\* lockForClose gets the lock: closeWith writes its frame next, shutdown is done.
LockForClose ==
  /\ rx \in {"lock1", "lock2"} /\ lock = "free"
  /\ \/ /\ closing # 0
        /\ rx' = "close" /\ lock' = "rx"
        /\ UNCHANGED <<interrupted, over>>
     \/ /\ closing = 0
        /\ InterruptWorkers
        /\ rx' = "helidon" /\ over' = TRUE
        /\ UNCHANGED lock
  /\ UNCHANGED <<closing, seq, code, stranded, wVars, fVars, closed, outbox, answers>>

\* The end of closeWith or shutdown without the lock.
GiveUp ==
  /\ rx' = IF closing # 0 THEN "ready" ELSE "helidon"
  /\ closing' = 0
  /\ over' = TRUE

\* A bug: the first wait is the last.
LockTimeoutOnce ==
  /\ rx = "lock1" /\ lock = "writer"
  /\ GiveUp
  /\ UNCHANGED <<seq, code, stranded, wVars, fVars, closed, lock, outbox, interrupted, answers>>

\* lockForClose: the first wait was in vain, interrupt the workers and wait again.
LockTimeout ==
  /\ rx = "lock1" /\ lock = "writer"
  /\ rx' = "lock2"
  /\ InterruptWorkers
  /\ UNCHANGED <<closing, seq, code, stranded, wVars, fVars, closed, lock, outbox, over, answers>>

\* The second wait was in vain as well.
LockRefused ==
  /\ rx = "lock2" /\ lock = "writer"
  /\ GiveUp
  /\ UNCHANGED <<seq, code, stranded, wVars, fVars, closed, lock, outbox, interrupted, answers>>

\* session.close returns ...
CloseWritten ==
  /\ rx = "close"
  /\ code' = closing /\ closing' = 0 /\ over' = TRUE
  /\ InterruptWorkers
  /\ lock' = "free" /\ rx' = "ready"
  /\ UNCHANGED <<seq, stranded, wVars, fVars, closed, outbox, answers>>

\* ... or throws, past interruptWorkers, to Helidon, whose onError finds closed set;
\* or it never returns.
CloseFails(to) ==
  /\ rx = "close"
  /\ over' = TRUE /\ stranded' = TRUE /\ closing' = 0
  /\ rx' = to
  /\ lock' = IF to = "hung" THEN lock ELSE "free"
  /\ UNCHANGED <<seq, code, wVars, fVars, closed, outbox, interrupted, answers>>

\* onPing waits for the lock, and drops the pong or finds closed set.
OnPing ==
  /\ rx = "ready"
  /\ rx' = "ponglock"
  /\ UNCHANGED <<closing, seq, code, stranded, wVars, fVars, closed, lock, outbox,
                 interrupted, over, answers>>

PongLock ==
  /\ rx = "ponglock"
  /\ \/ lock = "free" /\ ~closed /\ rx' = "pong" /\ lock' = "rx"
     \/ lock = "free" /\ closed /\ rx' = "ready" /\ UNCHANGED lock
     \/ lock = "writer" /\ rx' = "ready" /\ UNCHANGED lock
  /\ UNCHANGED <<closing, seq, code, stranded, wVars, fVars, closed, outbox,
                 interrupted, over, answers>>

\* session.pong returns, or throws to Helidon, which calls onError.
Pong ==
  /\ rx = "pong"
  /\ lock' = "free"
  /\ \/ rx' = "ready" /\ UNCHANGED closed
     \/ rx' = "lock1" /\ closed' = TRUE
  /\ UNCHANGED <<closing, seq, code, stranded, wVars, fVars, outbox, interrupted, over, answers>>

\* Helidon has written its close frame, or failed to.
Gone ==
  /\ rx = "helidon"
  /\ rx' = "gone"
  /\ UNCHANGED <<closing, seq, code, stranded, wVars, fVars, closed, lock, outbox,
                 interrupted, over, answers>>
-----------------------------------------------------------------------------
(* The writer. *)

\* The test of writeLoop.
WriteLoop ==
  /\ w = "top"
  /\ w' = IF closed THEN "done" ELSE "take"
  /\ UNCHANGED <<rxVars, inHand, wire, fVars, closed, lock, outbox, interrupted, over, answers>>

\* outbox.take() throws when interrupted, before or while it waits.
Take ==
  /\ w = "take"
  /\ \/ /\ "writer" \in interrupted
        /\ w' = "done" /\ UNCHANGED <<inHand, outbox>>
     \/ /\ "writer" \notin interrupted /\ outbox # <<>>
        /\ w' = "lock" /\ inHand' = <<Head(outbox)>> /\ outbox' = Tail(outbox)
  /\ UNCHANGED <<rxVars, wire, fVars, closed, lock, interrupted, over, answers>>

\* The socket takes the answer at once, or the writer blocks in session.send().
Write ==
  \/ wire' = wire \o inHand /\ inHand' = <<>> /\ w' = "top" /\ UNCHANGED lock
  \/ w' = "write" /\ lock' = "writer" /\ UNCHANGED <<wire, inHand>>

\* A bug: closed is not tested again under the lock.
SendUnchecked ==
  /\ w = "lock" /\ lock = "free"
  /\ Write
  /\ UNCHANGED <<rxVars, fVars, closed, outbox, interrupted, over, answers>>

\* send gets the lock and tests closed once more.
Send ==
  /\ w = "lock" /\ lock = "free"
  /\ \/ closed /\ w' = "done" /\ UNCHANGED <<lock, wire, inHand>>
     \/ ~closed /\ Write
  /\ UNCHANGED <<rxVars, fVars, closed, outbox, interrupted, over, answers>>

\* The client reads on; an interrupt would have closed the socket.
Sent ==
  /\ w = "write" /\ "writer" \notin interrupted
  /\ wire' = wire \o inHand /\ inHand' = <<>>
  /\ w' = "top" /\ lock' = "free"
  /\ UNCHANGED <<rxVars, fVars, closed, outbox, interrupted, over, answers>>

\* session.send throws: shutdown, unless another thread has flipped closed.
SendFails ==
  /\ w = "write"
  /\ w' = "done" /\ lock' = "free"
  /\ \/ closed /\ UNCHANGED <<closed, over, interrupted>>
     \/ ~closed /\ closed' = TRUE /\ over' = TRUE /\ InterruptWorkers
  /\ UNCHANGED <<rxVars, inHand, wire, fVars, outbox, answers>>
-----------------------------------------------------------------------------
(* The flush thread. *)

\* flushLoop: the tick, or an interrupt, ends parkNanos.
FlushLoop ==
  /\ f = "park"
  /\ f' = IF closed THEN "done" ELSE "flush"
  /\ UNCHANGED <<rxVars, wVars, batch, answer, buffer, closed, lock, outbox,
                 interrupted, over, answers>>

\* tryFlush, drainBuffer
TryFlush ==
  /\ f = "flush"
  /\ \/ buffer = <<>> /\ f' = "park" /\ UNCHANGED <<batch, buffer>>
     \/ /\ buffer # <<>>
        /\ batch' = [oldest |-> buffer[1], newest |-> buffer[Len(buffer)]]
        /\ buffer' = <<>> /\ f' = "infer"
  /\ UNCHANGED <<rxVars, wVars, answer, closed, lock, outbox, interrupted, over, answers>>

\* processBatch: every failure becomes an error message.
ProcessBatch(kind) ==
  /\ f = "infer"
  /\ answer' = <<Answer(kind, batch)>>
  /\ f' = "put"
  /\ UNCHANGED <<rxVars, wVars, batch, buffer, closed, lock, outbox, interrupted, over, answers>>

\* enqueue: outbox.put() waits for room, and throws when interrupted.
Enqueue ==
  /\ f = "put"
  /\ \/ /\ "flush" \in interrupted
        /\ UNCHANGED <<outbox, batch, answers>>
     \/ /\ "flush" \notin interrupted /\ Len(outbox) < Depth
        /\ outbox' = outbox \o answer
        /\ batch' = NoBatch
        /\ answers' = IF over THEN answers ELSE answers \o answer
  /\ f' = "park" /\ answer' = <<>>
  /\ UNCHANGED <<rxVars, wVars, buffer, closed, lock, interrupted, over>>
-----------------------------------------------------------------------------
Next ==
  \/ OnOpen \/ OnStart \/ OnFrame \/ OnEnd \/ OnPing \/ PongLock \/ Pong \/ Gone
  \/ \E m \in {"text", "frame", "badsize"} : OnRefused(m)
  \/ LockForClose \/ LockTimeout \/ LockRefused \/ CloseWritten
  \/ \E to \in {"helidon", "hung"} : CloseFails(to)
  \/ WriteLoop \/ Take \/ Send \/ Sent \/ SendFails
  \/ FlushLoop \/ TryFlush \/ Enqueue
  \/ \E kind \in {"partial", "error"} : ProcessBatch(kind)

Spec == Init /\ [][Next]_vars

\* The threads are scheduled, timed waits end, sendLock serves a waiter some day, an
\* inference call has a timeout, and an interrupted write fails.  Nothing is assumed
\* of the client: it may never read, and never send.
Fairness ==
  /\ WF_vars(LockForClose) /\ WF_vars(LockTimeout) /\ WF_vars(LockRefused)
  /\ WF_vars(CloseWritten \/ \E to \in {"helidon", "hung"} : CloseFails(to))
  /\ WF_vars(WriteLoop) /\ WF_vars(Take) /\ SF_vars(Send)
  /\ WF_vars("writer" \in interrupted /\ SendFails)
  /\ WF_vars(FlushLoop) /\ WF_vars(TryFlush) /\ WF_vars(Enqueue)
  /\ WF_vars(\E kind \in {"partial", "error"} : ProcessBatch(kind))

FairSpec == Spec /\ Fairness
-----------------------------------------------------------------------------
\* The session is over for the client when the thread that ends it has done its part.
Phase == IF rx = "idle" THEN "idle"
         ELSE IF over THEN "closed"
         ELSE IF Started THEN "streaming" ELSE "connected"

\* The answers sent, and those put in the outbox while there was somebody to send them to.
Produced == wire \o SubSeq(answers, Len(wire) + 1, Len(answers))

Contract == INSTANCE SttContract WITH
  Conn     <- {Session},
  phase    <- [c \in {Session} |-> Phase],
  received <- [c \in {Session} |-> seq],
  inflight <- [c \in {Session} |-> IF over THEN NoBatch ELSE batch],
  out      <- [c \in {Session} |-> Produced],
  sent     <- [c \in {Session} |-> Len(wire)],
  code     <- [c \in {Session} |-> code]

\* The three threads implement the contract: answers tile the frames and go out in
\* order, the close code fits its cause, and no partial follows the close frame,
\* whoever closes and wherever the writer and the flush thread are at that moment.
ImplementsContract == Contract!Spec

\* Two threads never write to the socket at once, Helidon's own close frame included;
\* the only writer ever written past is one that its interrupt has cut off.
WireExclusive ==
  rx \in {"close", "pong", "helidon", "hung"} /\ w = "write" => "writer" \in interrupted

\* Once the session is closed both workers stop, although the client may never read
\* another byte; only a close frame whose write throws or hangs leaves them behind.
WorkersStop == closed ~> (w \in {"none", "done"} /\ f \in {"none", "done"}) \/ stranded
=============================================================================
