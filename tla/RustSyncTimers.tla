--------------------------- MODULE RustSyncTimers ---------------------------
(***************************************************************************)
(* The clock of the rust-sync gateway's thread A: one connection's flush   *)
(* deadline, inference timeout and entry in the timer heap, and the poll   *)
(* that sleeps until the earliest entry.                                   *)
(*                                                                         *)
(* Time is discrete and every instant is kept relative to the present, so  *)
(* the state space is finite without a bound on the clock.  A frame is one *)
(* tick of audio.  An iteration of the loop (handlers of every connection  *)
(* together, or a late return from poll) takes at most MaxStall ticks.     *)
(***************************************************************************)
EXTENDS Integers

CONSTANTS FlushInterval,     \* config.flush_interval
          InferenceTimeout,  \* INFERENCE_TIMEOUT
          Jitter,            \* config.flush_phase_jitter
          MaxStall           \* bound: ticks one iteration of the loop can last

ASSUME TimingAssumption ==
  /\ FlushInterval \in Nat \ {0}
  /\ InferenceTimeout \in Nat \ {0}
  /\ Jitter \in Nat
  /\ MaxStall \in Nat

VARIABLES
  pc,        \* "poll" (asleep), "events", "timers"
  lag,       \* ticks since poll returned, or should have
  now,       \* the iteration's `now`, relative to the present (<= 0)
  flushIn,   \* next_flush
  batch,     \* pending: frames of the batch at inference, 0 if none
  started,   \* pending.started
  entry,     \* the connection's entry in the timer heap
  buffered,  \* Conn.meta
  arrived,   \* frames sent by the client that the loop has not read yet
  readable   \* this iteration's poll returned the connection's socket

clock == <<pc, lag, now, flushIn, batch, started, entry, buffered, arrived, readable>>

\* Conn::deadline
ConnDeadline(pend, start, flush) ==
  IF pend # 0 /\ start + InferenceTimeout < flush THEN start + InferenceTimeout ELSE flush

\* Conn::new at a time when nothing else is due; the heap gets its entry.
ClockInit ==
  /\ pc = "poll"
  /\ lag = 0
  /\ now = 0
  /\ flushIn \in FlushInterval .. FlushInterval + Jitter
  /\ batch = 0
  /\ started = 0
  /\ entry = flushIn
  /\ buffered = 0
  /\ arrived = 0
  /\ readable = FALSE

\* poll must have returned by now: its timeout ran out or a frame is there.
Due == entry <= 0 \/ arrived > 0

\* A tick of the clock, in which the client sends a frame or pauses.  Asleep in
\* poll, or busy with an iteration that may still last.
Tick(frame) ==
  /\ pc # "poll" \/ Due => lag < MaxStall
  /\ lag' = IF pc # "poll" \/ Due THEN lag + 1 ELSE 0
  /\ now' = IF pc = "poll" THEN 0 ELSE now - 1
  /\ flushIn' = flushIn - 1
  /\ started' = IF batch = 0 THEN 0 ELSE started - 1
  /\ entry' = entry - 1
  /\ arrived' = arrived + frame
  /\ UNCHANGED <<pc, batch, buffered, readable>>

\* poll returns: on time, or for another connection's or thread B's sake.
PollReturns ==
  /\ pc = "poll"
  /\ pc' = "events"
  /\ now' = 0
  /\ readable' = (arrived > 0)
  /\ UNCHANGED <<lag, flushIn, batch, started, entry, buffered, arrived>>

\* on_readable drains the socket.
ReadSocket ==
  /\ pc = "events"
  /\ readable
  /\ readable' = FALSE
  /\ buffered' = buffered + arrived
  /\ arrived' = 0
  /\ UNCHANGED <<pc, lag, now, flushIn, batch, started, entry>>

\* on_done: the answer came in time.
OnDone ==
  /\ pc = "events"
  /\ batch # 0
  /\ batch' = 0
  /\ started' = 0
  /\ UNCHANGED <<pc, lag, now, flushIn, entry, buffered, arrived, readable>>

HeapBegin ==
  /\ pc = "events"
  /\ ~readable
  /\ pc' = "timers"
  /\ UNCHANGED <<lag, now, flushIn, batch, started, entry, buffered, arrived, readable>>

\* The heap's entry is due: pop it, on_timer, push the new deadline.
Overdue == batch # 0 /\ now >= started + InferenceTimeout

\* A bug: after a timeout the next wake-up is a full interval later.
HeapTimeoutSkips ==
  /\ pc = "timers"
  /\ entry <= now
  /\ Overdue
  /\ batch' = 0
  /\ started' = 0
  /\ entry' = flushIn + FlushInterval
  /\ UNCHANGED <<pc, lag, now, flushIn, buffered, arrived, readable>>

\* A bug: a timed-out batch is put back into the buffer to be sent again.
HeapTimeoutRetries ==
  /\ pc = "timers"
  /\ entry <= now
  /\ Overdue
  /\ batch' = 0
  /\ started' = 0
  /\ buffered' = buffered + batch
  /\ entry' = ConnDeadline(0, 0, flushIn)
  /\ UNCHANGED <<pc, lag, now, flushIn, arrived, readable>>

HeapTimeout ==
  /\ pc = "timers"
  /\ entry <= now
  /\ Overdue
  /\ batch' = 0
  /\ started' = 0
  /\ entry' = ConnDeadline(0, 0, flushIn)
  /\ UNCHANGED <<pc, lag, now, flushIn, buffered, arrived, readable>>

\* A bug: the deadline pushed back forgets the request in flight.
HeapKeepForgetsTimeout ==
  /\ pc = "timers"
  /\ entry <= now
  /\ ~Overdue
  /\ \/ now < flushIn /\ UNCHANGED flushIn
     \/ /\ now >= flushIn
        /\ batch # 0 \/ buffered = 0
        /\ flushIn' = flushIn + FlushInterval
  /\ entry' = flushIn'
  /\ UNCHANGED <<pc, lag, now, batch, started, buffered, arrived, readable>>

HeapKeep ==
  /\ pc = "timers"
  /\ entry <= now
  /\ ~Overdue
  /\ \/ /\ now < flushIn
        /\ UNCHANGED flushIn
     \/ /\ now >= flushIn
        /\ batch # 0 \/ buffered = 0
        /\ flushIn' = flushIn + FlushInterval
  /\ entry' = ConnDeadline(batch, started, flushIn')
  /\ UNCHANGED <<pc, lag, now, batch, started, buffered, arrived, readable>>

HeapFlush ==
  /\ pc = "timers"
  /\ entry <= now
  /\ ~Overdue
  /\ now >= flushIn
  /\ batch = 0
  /\ buffered > 0
  /\ flushIn' = flushIn + FlushInterval
  /\ batch' = buffered
  /\ started' = now
  /\ buffered' = 0
  /\ entry' = ConnDeadline(batch', started', flushIn')
  /\ UNCHANGED <<pc, lag, now, arrived, readable>>

\* Nothing more is due at `now`; back to poll.
HeapEnd ==
  /\ pc = "timers"
  /\ entry > now
  /\ pc' = "poll"
  /\ lag' = 0
  /\ now' = 0
  /\ UNCHANGED <<flushIn, batch, started, entry, buffered, arrived, readable>>

ClockNext ==
  \/ \E frame \in {0, 1} : Tick(frame)
  \/ PollReturns \/ ReadSocket \/ OnDone
  \/ HeapBegin \/ HeapTimeout \/ HeapKeep \/ HeapFlush \/ HeapEnd

ClockSpec == ClockInit /\ [][ClockNext]_clock
-----------------------------------------------------------------------------
ClockTypeOK ==
  /\ pc \in {"poll", "events", "timers"}
  /\ lag \in 0 .. MaxStall
  /\ now \in Int
  /\ flushIn \in Int
  /\ batch \in Nat
  /\ started \in Int
  /\ entry \in Int
  /\ buffered \in Nat
  /\ arrived \in Nat
  /\ readable \in BOOLEAN

\* A connection never outlives its timer: the entry in the heap is never later
\* than the flush or the timeout it stands for, although on_done and on_timer
\* move that deadline without touching the heap.
HeapCoversDeadline == entry <= ConnDeadline(batch, started, flushIn)

\* No flush deadline passes unnoticed for longer than the iteration it falls
\* into and the one that handles it, not even while a request is in flight.
FlushNeverLate == flushIn >= -2 * MaxStall

\* Every batch is answered within INFERENCE_TIMEOUT and the loop's own delay,
\* whatever thread B and the server do.
AnswerBounded == batch # 0 => -started <= InferenceTimeout + 2 * MaxStall

\* Audio the client has sent and heard nothing about.
Owed == arrived + buffered + batch

\* The longest that a flush can be put off: by a request in flight, or at first by
\* the phase jitter.
Wait == IF Jitter > InferenceTimeout THEN Jitter ELSE InferenceTimeout

\* What the client may still be owed when it closes: the F + 2T of audio that
\* TAIL_TOLERANCE in verify.rs derives, provided the jitter is no longer than the
\* timeout, and what arrives during four iterations of the loop.
TailBound == Owed <= FlushInterval + Wait + InferenceTimeout + 4 * MaxStall
=============================================================================
