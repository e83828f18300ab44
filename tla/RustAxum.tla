------------------------------ MODULE RustAxum ------------------------------
(***************************************************************************)
(* One session of the rust-axum gateway: the socket task (handle_socket),  *)
(* which reads and writes the WebSocket, and the flush task (flush_loop),  *)
(* which it spawns and aborts, with the frame buffer and a bounded channel *)
(* between them.  Sessions share nothing but the HTTP client.              *)
(*                                                                         *)
(* A step of a task is what it does between two awaits.  The permit of     *)
(* compute_sem is taken and given back by the one loop that wants it, so   *)
(* try_acquire_owned never fails; a flush that finds the buffer empty      *)
(* changes nothing.                                                        *)
(***************************************************************************)
EXTENDS Integers, Sequences

CONSTANTS Session,    \* the session's id
          NoConn,     \* not a session
          Depth,      \* PARTIAL_CHANNEL_DEPTH
          MaxFrames   \* bound: frames the client sends

ASSUME SessionAssumption == NoConn # Session
ASSUME DepthAssumption   == Depth \in Nat \ {0}
ASSUME FramesAssumption  == MaxFrames \in Nat

VARIABLES
  \* socket task
  pc,      \* "idle", "first", "select", "recv", "send", "close", "done"
  closing, \* the close code to send, in "close"
  code,    \* the close code sent, 0 if none
  seq,     \* last sequence number given
  inHand,  \* the answer being written, in "send"
  wire,    \* answers written to the socket
  \* shared
  buffer,  \* frames not flushed yet
  chan,    \* out_tx/out_rx
  aborted, \* flusher.abort() was called
  \* flush task
  fl,      \* "none", "tick", "infer", "push", "dead"
  batch,   \* the frames at inference
  answer   \* the answer to push, in "push"

socketVars == <<pc, closing, code, seq, inHand, wire>>
flushVars  == <<fl, batch, answer>>
vars == <<pc, closing, code, seq, inHand, wire, buffer, chan, aborted, fl, batch, answer>>

NoBatch == [oldest |-> 0, newest |-> 0]
NoAudio == [conn |-> NoConn, first |-> 0, last |-> 0]

\* PartialMessage, ErrorMessage: the range, and the audio a partial was computed from.
Answer(kind, b) ==
  [kind |-> kind, oldest |-> b.oldest, newest |-> b.newest,
   audio |-> IF kind = "partial" THEN [conn |-> Session, first |-> b.oldest, last |-> b.newest]
             ELSE NoAudio]

Init ==
  /\ pc = "idle"
  /\ closing = 0
  /\ code = 0
  /\ seq = 0
  /\ inHand = <<>>
  /\ wire = <<>>
  /\ buffer = <<>>
  /\ chan = <<>>
  /\ aborted = FALSE
  /\ fl = "none"
  /\ batch = NoBatch
  /\ answer = <<>>
-----------------------------------------------------------------------------
\* The socket task.

\* on_upgrade hands the socket over.
HandleSocket ==
  /\ pc = "idle"
  /\ pc' = "first"
  /\ UNCHANGED <<closing, code, seq, inHand, wire, buffer, chan, aborted, flushVars>>

\* A bug: the flush task is left running.
ReturnNoAbort(k) ==
  /\ pc' = "done"
  /\ code' = k
  /\ UNCHANGED aborted
  /\ closing' = 0

\* The session is over without, or after, a close frame with code k: abort the flush
\* task, if there is one yet, and return, which drops both ends of the channel.
Return(k) ==
  /\ pc' = "done"
  /\ code' = k
  /\ aborted' = (fl # "none")
  /\ closing' = 0

\* send_close or socket.close is awaited.
BeginClose(k) ==
  /\ pc' = "close"
  /\ closing' = k
  /\ UNCHANGED <<code, aborted>>

\* classify_first_message: start, anything else but a ping or pong, or no peer.
FirstMessage(m) ==
  /\ pc = "first"
  /\ \/ /\ m = "start"
        /\ pc' = "select"
        /\ fl' = "tick"
        /\ UNCHANGED <<closing, code, aborted>>
     \/ /\ m \in {"text", "frame", "badsize", "close"}
        /\ BeginClose(1002)
        /\ UNCHANGED fl
     \/ /\ m = "lost"
        /\ Return(0)
        /\ UNCHANGED fl
  /\ UNCHANGED <<seq, inHand, wire, buffer, chan, batch, answer>>

\* select!, biased: out_rx.recv() is polled first ...
SelectOutbound ==
  /\ pc = "select"
  /\ chan # <<>>
  /\ pc' = "send"
  /\ inHand' = <<Head(chan)>>
  /\ chan' = Tail(chan)
  /\ UNCHANGED <<closing, code, seq, wire, buffer, aborted, flushVars>>

\* ... and socket.recv() only when it had nothing; both stay armed.
SelectInbound ==
  /\ pc = "select"
  /\ chan = <<>>
  /\ pc' = "recv"
  /\ UNCHANGED <<closing, code, seq, inHand, wire, buffer, chan, aborted, flushVars>>

\* The channel wakes the select.
Woken ==
  /\ pc = "recv"
  /\ chan # <<>>
  /\ pc' = "select"
  /\ UNCHANGED <<closing, code, seq, inHand, wire, buffer, chan, aborted, flushVars>>

\* socket.send(text).await succeeds, or fails and breaks the loop.
Sent ==
  /\ pc = "send"
  /\ \/ /\ pc' = "select"
        /\ wire' = wire \o inHand
        /\ inHand' = <<>>
        /\ UNCHANGED <<closing, code, aborted>>
     \/ /\ Return(0)
        /\ UNCHANGED <<wire, inHand>>
  /\ UNCHANGED <<seq, buffer, chan, flushVars>>

\* handle_inbound (a ping or pong changes nothing).
HandleInbound(m) ==
  /\ pc = "recv"
  /\ \/ /\ m = "frame"
        /\ seq < MaxFrames
        /\ seq' = seq + 1
        /\ buffer' = Append(buffer, seq + 1)
        /\ pc' = "select"
        /\ UNCHANGED <<closing, code, aborted>>
     \/ /\ \/ m = "badsize" /\ BeginClose(1003)
           \/ m \in {"start", "text"} /\ BeginClose(1002)
           \/ m = "close" /\ BeginClose(0)
           \/ m = "lost" /\ Return(0)
        /\ UNCHANGED <<seq, buffer>>
  /\ UNCHANGED <<inHand, wire, chan, flushVars>>

Inbound == {"start", "text", "frame", "badsize", "close", "lost"}

\* The close frame is written, or the peer is gone.
Closed ==
  /\ pc = "close"
  /\ Return(closing) \/ Return(0)
  /\ UNCHANGED <<seq, inHand, wire, buffer, chan, flushVars>>
-----------------------------------------------------------------------------
\* The flush task.  Once it is aborted no step of it begins; one that another worker
\* thread is running at that moment touches only what the socket task has given up.

\* A bug: the buffer is copied and not replaced.
TickKeepsBuffer ==
  /\ fl = "tick"
  /\ ~aborted
  /\ buffer # <<>>
  /\ batch' = [oldest |-> buffer[1], newest |-> buffer[Len(buffer)]]
  /\ fl' = "infer"
  /\ UNCHANGED <<socketVars, buffer, chan, aborted, answer>>

\* ticker.tick() fires and the buffer is not empty: take it, send the request.
Tick ==
  /\ fl = "tick"
  /\ ~aborted
  /\ buffer # <<>>
  /\ batch' = [oldest |-> buffer[1], newest |-> buffer[Len(buffer)]]
  /\ buffer' = <<>>
  /\ fl' = "infer"
  /\ UNCHANGED <<socketVars, chan, aborted, answer>>

\* request_partial returns a partial or an error.
RequestPartial(kind) ==
  /\ fl = "infer"
  /\ ~aborted
  /\ answer' = <<Answer(kind, batch)>>
  /\ fl' = "push"
  /\ UNCHANGED <<socketVars, buffer, chan, aborted, batch>>

\* A bug: an answer that finds the channel full is dropped.
PushOrDrop ==
  /\ fl = "push"
  /\ ~aborted
  /\ chan' = IF Len(chan) < Depth THEN chan \o answer ELSE chan
  /\ answer' = <<>>
  /\ batch' = NoBatch
  /\ fl' = "tick"
  /\ UNCHANGED <<socketVars, buffer, aborted>>

\* out_tx.send(text).await gets through once there is room; the permit is free again.
Push ==
  /\ fl = "push"
  /\ ~aborted
  /\ Len(chan) < Depth
  /\ chan' = chan \o answer
  /\ answer' = <<>>
  /\ batch' = NoBatch
  /\ fl' = "tick"
  /\ UNCHANGED <<socketVars, buffer, aborted>>

\* The abort takes effect at the await the task is suspended in.
Cancelled ==
  /\ aborted
  /\ fl \in {"tick", "infer", "push"}
  /\ fl' = "dead"
  /\ UNCHANGED <<socketVars, buffer, chan, aborted, batch, answer>>
-----------------------------------------------------------------------------
Next ==
  \/ HandleSocket \/ SelectOutbound \/ SelectInbound \/ Woken \/ Sent \/ Closed
  \/ \E m \in Inbound : FirstMessage(m) \/ HandleInbound(m)
  \/ Tick \/ Push \/ Cancelled
  \/ \E kind \in {"partial", "error"} : RequestPartial(kind)

Spec == Init /\ [][Next]_vars

\* Both tasks are scheduled; the HTTP client has a timeout, so a request ends; the
\* client reads, so a write ends.  Nothing is assumed of what the client sends.
Fairness ==
  /\ WF_vars(SelectOutbound) /\ WF_vars(SelectInbound) /\ WF_vars(Woken)
  /\ WF_vars(Sent) /\ WF_vars(Closed)
  /\ WF_vars(Tick) /\ WF_vars(\E kind \in {"partial", "error"} : RequestPartial(kind))
  /\ WF_vars(Push) /\ WF_vars(Cancelled)

FairSpec == Spec /\ Fairness
-----------------------------------------------------------------------------
\* The session is streaming once the flush task is spawned.
Phase == IF pc = "idle" THEN "idle"
         ELSE IF pc = "done" THEN "closed"
         ELSE IF fl = "none" THEN "connected" ELSE "streaming"

\* What the client sees of the two tasks is the contract: the answers in the channel
\* are the queued ones, and a cancelled task's batch is abandoned with the session.
Contract == INSTANCE SttContract WITH
  Conn     <- {Session},
  phase    <- [c \in {Session} |-> Phase],
  received <- [c \in {Session} |-> seq],
  inflight <- [c \in {Session} |-> IF pc = "done" THEN NoBatch ELSE batch],
  out      <- [c \in {Session} |-> wire \o inHand \o chan],
  sent     <- [c \in {Session} |-> Len(wire)],
  code     <- [c \in {Session} |-> code]

\* The two tasks implement the contract: answers tile the frames and are sent in
\* order, each partial is about its own audio, one batch at a time, the right close
\* codes, and nothing after the close although the flush task is cancelled wherever
\* it happens to wait.
ImplementsContract == Contract!Spec

Reported == IF wire = <<>> THEN 0 ELSE wire[Len(wire)].newest

\* Every frame accepted is reported to the client unless the session ends: the flush
\* task waiting for room in the channel and the socket task waiting for the socket
\* never wait for each other.
FramesReported ==
  \A n \in 1 .. MaxFrames : (seq >= n) ~> (Reported >= n \/ pc \in {"close", "done"})

\* The flush task never outlives its session.
FlusherStops == (pc = "done") ~> (fl \in {"none", "dead"})
=============================================================================
