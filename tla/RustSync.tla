------------------------------ MODULE RustSync ------------------------------
(***************************************************************************)
(* The rust-sync gateway: two threads that share nothing but two channels. *)
(*                                                                         *)
(* Thread A (main.rs, session.rs) is the WebSocket loop.  One iteration    *)
(* polls, handles the ready events (accept, the result channel, sockets),  *)
(* then the due timers, then removes the connections found closed.         *)
(* Thread B (inference.rs) is the inference loop: it drives the pool's     *)
(* HTTP/1.1 sockets on their events, then drains the command channel, then *)
(* wakes A if it produced a result.                                        *)
(*                                                                         *)
(* Time is abstract here: a timer popped from the heap may or may not find *)
(* its flush or its timeout due, so every timing is covered; the module    *)
(* RustSyncTimers has the clock.  Audio is the range of frames it consists *)
(* of.  Message wording, JSON and byte offsets are left out.               *)
(***************************************************************************)
EXTENDS Integers, Sequences, FiniteSets

CONSTANTS Conn,       \* connection ids; accept hands out a new one each time
          NoConn,     \* `None` for an owner
          Slot,       \* the pool's slots
          MaxFrames   \* bound: frames a client sends on one connection

ASSUME ConnAssumption   == NoConn \notin Conn
ASSUME SlotAssumption   == IsFiniteSet(Slot) /\ Cardinality(Slot) \in Nat \ {0}
ASSUME FramesAssumption == MaxFrames \in Nat

VARIABLES
  \* thread A
  phase,     \* "none", "http", "ws", "started", "closed" (Outcome::Close was returned)
  code,      \* close code sent, 0 if none
  seq,       \* Conn.seq
  meta,      \* Conn.meta (and Conn.pcm): buffered frames
  pending,   \* Conn.pending: the batch at inference
  out,       \* answers handed to the WebSocket, in order
  conns,     \* the connection map
  closing,   \* ids to remove at the end of the iteration
  aPc,       \* "poll", "events", "drain", "timers", "closing"
  ready,     \* this iteration's poll returned the RESULT token
  \* channels
  wake,      \* A's Waker has been fired since A's last poll
  cmds,      \* A -> B
  dones,     \* B -> A
  \* thread B
  slot,      \* InferencePool.slots
  free,      \* InferencePool.free
  bPc,       \* "events", "cmds"
  produced   \* this iteration pushed a result

aVars  == <<phase, code, seq, meta, pending, out, conns, closing, aPc, ready>>
bVars  == <<slot, free, bPc, produced>>
vars   == <<phase, code, seq, meta, pending, out, conns, closing, aPc, ready,
            wake, cmds, dones, slot, free, bPc, produced>>

NoBatch == [oldest |-> 0, newest |-> 0]
NoAudio == [conn |-> NoConn, first |-> 0, last |-> 0]
Batch   == [oldest : Nat, newest : Nat]
Audio   == [conn : Conn \cup {NoConn}, first : Nat, last : Nat]

\* Batch::tag: the oldest frame's number identifies the batch on its connection.
Tag(b) == b.oldest

AudioOf(c, b) == [conn |-> c, first |-> b.oldest, last |-> b.newest]

Submit(c, b) == [op |-> "submit", conn |-> c, tag |-> Tag(b), body |-> AudioOf(c, b)]
Abort(c)     == [op |-> "abort", conn |-> c, tag |-> 0, body |-> NoAudio]
Cmd  == [op : {"submit", "abort"}, conn : Conn, tag : Nat, body : Audio]
Done == [conn : Conn, tag : Nat, ok : BOOLEAN, audio : Audio]

States == {"Disconnected", "Connecting", "Idle", "Sending", "Receiving"}
\* wire: requests written on the slot's socket whose response was not read yet.
\* resp: the bytes read so far are none, of the response waited for, or left over
\* from an earlier response.
SlotRec == [owner : Conn \cup {NoConn}, tag : Nat, req : Audio, state : States,
            sock : BOOLEAN, retried : BOOLEAN, wire : Seq(Audio), resp : {"empty", "ours", "old"}]
NewSlot == [owner |-> NoConn, tag |-> 0, req |-> NoAudio, state |-> "Disconnected",
            sock |-> FALSE, retried |-> FALSE, wire |-> <<>>, resp |-> "empty"]

\* What the methods of Slot do to a slot: build, dial, the stages of run, the two
\* outcomes of retry_or_fail and the redial, and giving the slot back.
LeftOver(b)     == IF b = "empty" THEN "empty" ELSE "old"
Built(r, m)     == [r EXCEPT !.owner = m.conn, !.tag = m.tag, !.req = m.body, !.retried = FALSE,
                             !.resp = "empty"]
Dialed(r)       == [r EXCEPT !.state = "Connecting", !.sock = TRUE]
Sending(r)      == [r EXCEPT !.state = "Sending"]
Receiving(r, w) == [r EXCEPT !.state = "Receiving", !.wire = w]
ReadPart(r)     == [r EXCEPT !.resp = "ours"]
Answered(r, w)  == [r EXCEPT !.state = "Idle", !.wire = w, !.resp = "old"]
Dropped(r)      == [r EXCEPT !.state = "Disconnected", !.wire = <<>>, !.sock = FALSE,
                             !.resp = LeftOver(@)]
Released(r)     == [r EXCEPT !.owner = NoConn]

\* A bug: the resend keeps the bytes of the response that broke off.
RedialedKeepsBytes(r) == [r EXCEPT !.state = "Connecting", !.wire = <<>>, !.retried = TRUE,
                                   !.resp = LeftOver(@)]

\* retry_or_fail's resend, on the socket that on_event then dials or fails to dial.
Redialed(r)     == [r EXCEPT !.state = "Connecting", !.wire = <<>>, !.retried = TRUE, !.resp = "empty"]
Undialed(r)     == [r EXCEPT !.state = "Sending", !.wire = <<>>, !.sock = FALSE, !.retried = TRUE,
                             !.resp = "empty"]

Message == [kind : {"partial", "error"}, oldest : Nat, newest : Nat, audio : Audio]
-----------------------------------------------------------------------------
Init ==
  /\ phase = [c \in Conn |-> "none"]
  /\ code = [c \in Conn |-> 0]
  /\ seq = [c \in Conn |-> 0]
  /\ meta = [c \in Conn |-> <<>>]
  /\ pending = [c \in Conn |-> NoBatch]
  /\ out = [c \in Conn |-> <<>>]
  /\ conns = {}
  /\ closing = {}
  /\ aPc = "poll"
  /\ ready = FALSE
  /\ wake = FALSE
  /\ cmds = <<>>
  /\ dones = <<>>
  /\ slot = [s \in Slot |-> NewSlot]
  /\ free \in [1 .. Cardinality(Slot) -> Slot]
  /\ \A s \in Slot : \E i \in DOMAIN free : free[i] = s
  /\ \A i, j \in DOMAIN free : free[i] = free[j] => i = j
  /\ bPc = "events"
  /\ produced = FALSE
-----------------------------------------------------------------------------
\* Thread A: one iteration of the loop in main.

\* poll.poll returned; the waker's event is consumed by it.
Poll ==
  /\ aPc = "poll"
  /\ aPc' = "events"
  /\ ready' = wake
  /\ wake' = FALSE
  /\ UNCHANGED <<phase, code, seq, meta, pending, out, conns, closing, cmds, dones, bVars>>

\* A bug: every protocol violation is reported as an internal error.
ShutInternalError(c, k) ==
  /\ phase' = [phase EXCEPT ![c] = "closed"]
  /\ code' = [code EXCEPT ![c] = IF k = 0 THEN 0 ELSE 1011]
  /\ closing' = closing \cup {c}

\* Outcome::Close from a handler: send the close code k, if any, and queue c for
\* removal.
Shut(c, k) ==
  /\ phase' = [phase EXCEPT ![c] = "closed"]
  /\ code' = [code EXCEPT ![c] = k]
  /\ closing' = closing \cup {c}

\* Outcome::Keep, the connection being in phase p.
Keep(c, p) ==
  /\ phase' = [phase EXCEPT ![c] = p]
  /\ UNCHANGED <<code, closing>>

\* flush_ws at the end of a handler: the write may find the peer gone.
FlushWs(c, p) == Keep(c, p) \/ Shut(c, 0)

\* accept: a fresh id; registering the socket may fail and waste it.
Accept(c) ==
  /\ aPc = "events"
  /\ phase[c] = "none"
  /\ \/ /\ phase' = [phase EXCEPT ![c] = "http"]
        /\ conns' = conns \cup {c}
     \/ /\ phase' = [phase EXCEPT ![c] = "closed"]
        /\ UNCHANGED conns
  /\ UNCHANGED <<code, seq, meta, pending, out, closing, aPc, ready, wake, cmds, dones, bVars>>

\* handshake: upgraded, or answered and dropped (NeedMore changes nothing).
Handshake(c) ==
  /\ aPc = "events"
  /\ c \in conns
  /\ phase[c] = "http"
  /\ Keep(c, "ws") \/ Shut(c, 0)
  /\ UNCHANGED <<seq, meta, pending, out, conns, aPc, ready, wake, cmds, dones, bVars>>

\* on_readable reads one message m; a burst is a run of these steps, because
\* nothing else touches the connection before the next event.
OnReadable(c, m) ==
  /\ aPc = "events"
  /\ c \in conns
  /\ \/ /\ phase[c] = "ws"
        /\ \/ m = "start" /\ FlushWs(c, "started")
           \/ m \in {"text", "frame", "badsize"} /\ Shut(c, 1002)
           \/ m \in {"close", "lost"} /\ Shut(c, 0)
        /\ UNCHANGED <<seq, meta>>
     \/ /\ phase[c] = "started"
        /\ m = "frame"
        /\ seq[c] < MaxFrames
        /\ seq' = [seq EXCEPT ![c] = @ + 1]
        /\ meta' = [meta EXCEPT ![c] = Append(@, seq[c] + 1)]
        /\ FlushWs(c, "started")
     \/ /\ phase[c] = "started"
        /\ \/ m = "badsize" /\ Shut(c, 1003)
           \/ m \in {"start", "text"} /\ Shut(c, 1002)
           \/ m \in {"close", "lost"} /\ Shut(c, 0)
        /\ UNCHANGED <<seq, meta>>
  /\ UNCHANGED <<pending, out, conns, aPc, ready, wake, cmds, dones, bVars>>

Inbound == {"start", "text", "frame", "badsize", "close", "lost"}

\* The socket became writable, or a ping was answered: flush_ws alone.
OnWritable(c) ==
  /\ aPc = "events"
  /\ c \in conns
  /\ phase[c] \in {"ws", "started"}
  /\ Shut(c, 0)
  /\ UNCHANGED <<seq, meta, pending, out, conns, aPc, ready, wake, cmds, dones, bVars>>

\* Conn::deliver: take the pending batch and hand its answer to the WebSocket.
\* Once the close handshake has begun the WebSocket refuses to write.
Deliver(c, ok, audio) ==
  /\ pending' = [pending EXCEPT ![c] = NoBatch]
  /\ IF phase[c] = "started"
     THEN /\ out' = [out EXCEPT ![c] = Append(@,
               [kind |-> IF ok THEN "partial" ELSE "error", oldest |-> pending[c].oldest,
                newest |-> pending[c].newest, audio |-> audio])]
          /\ FlushWs(c, "started")
     ELSE UNCHANGED <<out, phase, code, closing>>

\* The RESULT event: drain the channel until it is seen empty.
DrainBegin ==
  /\ aPc = "events"
  /\ ready
  /\ ready' = FALSE
  /\ aPc' = "drain"
  /\ UNCHANGED <<phase, code, seq, meta, pending, out, conns, closing, wake, cmds, dones, bVars>>

\* A bug: any result answers the batch that is pending now.
MatchesAnyTag(c, tag) == c \in conns /\ pending[c] # NoBatch

\* Conn::on_done: only the batch still pending is answered.
Matches(c, tag) == c \in conns /\ pending[c] # NoBatch /\ Tag(pending[c]) = tag

DrainOne ==
  /\ aPc = "drain"
  /\ dones # <<>>
  /\ LET d == Head(dones) IN
       IF Matches(d.conn, d.tag)
       THEN Deliver(d.conn, d.ok, d.audio)
       ELSE UNCHANGED <<pending, out, phase, code, closing>>
  /\ dones' = Tail(dones)
  /\ UNCHANGED <<seq, meta, conns, aPc, ready, wake, cmds, bVars>>

DrainEnd ==
  /\ aPc = "drain"
  /\ dones = <<>>
  /\ aPc' = "events"
  /\ UNCHANGED <<phase, code, seq, meta, pending, out, conns, closing, ready, wake, cmds, dones, bVars>>

TimersBegin ==
  /\ aPc = "events"
  /\ ~ready
  /\ aPc' = "timers"
  /\ UNCHANGED <<phase, code, seq, meta, pending, out, conns, closing, ready, wake, cmds, dones, bVars>>

\* on_timer returned Flush: submit the whole buffer, then begin_pending.  The
\* connection may already be in closing.
TimerFlush(c) ==
  /\ aPc = "timers"
  /\ c \in conns
  /\ pending[c] = NoBatch
  /\ meta[c] # <<>>
  /\ LET b == [oldest |-> meta[c][1], newest |-> meta[c][Len(meta[c])]] IN
       /\ cmds' = Append(cmds, Submit(c, b))
       /\ pending' = [pending EXCEPT ![c] = b]
  /\ meta' = [meta EXCEPT ![c] = <<>>]
  /\ UNCHANGED <<phase, code, seq, out, conns, closing, aPc, ready, wake, dones, bVars>>

\* A bug: the timeout is answered but the request is not aborted.
TimerTimeoutNoAbort(c) ==
  /\ aPc = "timers"
  /\ c \in conns
  /\ pending[c] # NoBatch
  /\ Deliver(c, FALSE, NoAudio)
  /\ UNCHANGED <<cmds, seq, meta, conns, aPc, ready, wake, dones, bVars>>

\* on_timer returned Timeout: answer with an error, then abort the request.
TimerTimeout(c) ==
  /\ aPc = "timers"
  /\ c \in conns
  /\ pending[c] # NoBatch
  /\ Deliver(c, FALSE, NoAudio)
  /\ cmds' = Append(cmds, Abort(c))
  /\ UNCHANGED <<seq, meta, conns, aPc, ready, wake, dones, bVars>>

TimersEnd ==
  /\ aPc = "timers"
  /\ aPc' = "closing"
  /\ UNCHANGED <<phase, code, seq, meta, pending, out, conns, closing, ready, wake, cmds, dones, bVars>>

\* A bug: a closing connection leaves its request running.
RemoveNoAbort(c) ==
  /\ aPc = "closing"
  /\ c \in closing
  /\ closing' = closing \ {c}
  /\ conns' = conns \ {c}
  /\ pending' = [pending EXCEPT ![c] = NoBatch]
  /\ UNCHANGED <<phase, code, seq, meta, out, aPc, ready, wake, cmds, dones, bVars>>

\* One id of closing: drop the connection; abort what it has in flight.
Remove(c) ==
  /\ aPc = "closing"
  /\ c \in closing
  /\ closing' = closing \ {c}
  /\ conns' = conns \ {c}
  /\ IF pending[c] # NoBatch
     THEN cmds' = Append(cmds, Abort(c))
     ELSE UNCHANGED cmds
  /\ pending' = [pending EXCEPT ![c] = NoBatch]
  /\ UNCHANGED <<phase, code, seq, meta, out, aPc, ready, wake, dones, bVars>>

ClosingEnd ==
  /\ aPc = "closing"
  /\ closing = {}
  /\ aPc' = "poll"
  /\ UNCHANGED <<phase, code, seq, meta, pending, out, conns, closing, ready, wake, cmds, dones, bVars>>
-----------------------------------------------------------------------------
\* Thread B: one iteration of the loop in run.

PushDone(c, t, ok, audio) ==
  /\ dones' = Append(dones, [conn |-> c, tag |-> t, ok |-> ok, audio |-> audio])
  /\ produced' = TRUE

\* A bug: the owner is read after recycle has cleared it.
FinishAfterRecycle(s, rec, ok, audio) ==
  /\ slot' = [slot EXCEPT ![s] = Released(rec)]
  /\ free' = Append(free, s)
  /\ UNCHANGED <<dones, produced>>

\* A bug: a finished slot is not pushed back on the free list.
FinishLosesSlot(s, rec, ok, audio) ==
  /\ slot' = [slot EXCEPT ![s] = Released(rec)]
  /\ PushDone(slot[s].owner, slot[s].tag, ok, audio)
  /\ UNCHANGED free

\* recycle, and the result that on_event returns for the slot's owner.
Finish(s, rec, ok, audio) ==
  /\ slot' = [slot EXCEPT ![s] = Released(rec)]
  /\ free' = Append(free, s)
  /\ IF slot[s].owner = NoConn
     THEN UNCHANGED <<dones, produced>>
     ELSE PushDone(slot[s].owner, slot[s].tag, ok, audio)

Driving(s) == bPc = "events" /\ slot[s].sock /\ slot[s].state \in {"Connecting", "Sending", "Receiving"}

\* What is on the socket once the whole request has been written.
Written(s) == IF slot[s].state = "Receiving" THEN slot[s].wire
              ELSE Append(slot[s].wire, slot[s].req)

\* run goes as far as the socket lets it: the connect completes, the request is
\* written, part of the response is read, and no complete response is there yet.
SlotAdvance(s) ==
  /\ Driving(s)
  /\ \/ /\ slot[s].state = "Connecting"
        /\ slot' = [slot EXCEPT ![s] = Sending(@)]
     \/ /\ slot[s].state # "Receiving"
        /\ slot' = [slot EXCEPT ![s] = Receiving(@, Written(s))]
     \/ /\ slot[s].state = "Receiving" /\ slot[s].resp = "empty"
        /\ slot' = [slot EXCEPT ![s] = ReadPart(@)]
  /\ UNCHANGED <<aVars, wake, cmds, dones, free, bPc, produced>>

\* run reads a complete response: the server answers requests in the order they
\* were written on the socket, with a result or with an error status.  Behind bytes
\* of an earlier response it would be parsed as something else.
SlotRespond(s) ==
  /\ Driving(s)
  /\ Written(s) # <<>>
  /\ \E ok \in BOOLEAN :
       Finish(s, Answered(slot[s], Tail(Written(s))), ok,
              IF ok /\ slot[s].resp # "old" THEN Head(Written(s)) ELSE NoAudio)
  /\ UNCHANGED <<aVars, wake, cmds, bPc>>

\* run meets an I/O error; retry_or_fail redials once on a new socket.
SlotError(s) ==
  /\ Driving(s)
  /\ \/ /\ ~slot[s].retried
        /\ slot' = [slot EXCEPT ![s] = Redialed(@)]
        /\ UNCHANGED <<free, dones, produced>>
     \/ /\ ~slot[s].retried
        /\ Finish(s, Undialed(slot[s]), FALSE, NoAudio)
     \/ /\ slot[s].retried
        /\ Finish(s, Dropped(slot[s]), FALSE, NoAudio)
  /\ UNCHANGED <<aVars, wake, cmds, bPc>>

\* The Idle probe finds that the server closed the keep-alive socket.
SlotProbe(s) ==
  /\ bPc = "events"
  /\ slot[s].sock
  /\ slot[s].state = "Idle"
  /\ slot' = [slot EXCEPT ![s] = Dropped(@)]
  /\ UNCHANGED <<aVars, wake, cmds, dones, free, bPc, produced>>

\* A bug: `produced` is reset between the socket events and the commands.
EventsEndForgets ==
  /\ bPc = "events"
  /\ bPc' = "cmds"
  /\ produced' = FALSE
  /\ UNCHANGED <<aVars, wake, cmds, dones, slot, free>>

EventsEnd ==
  /\ bPc = "events"
  /\ bPc' = "cmds"
  /\ UNCHANGED <<aVars, wake, cmds, dones, slot, free, produced>>

Last(s)  == s[Len(s)]
Front(s) == SubSeq(s, 1, Len(s) - 1)

\* submit: pop a free slot, build the request, reuse its socket or dial.
PoolSubmit(m) ==
  \/ /\ free = <<>>
     /\ PushDone(m.conn, m.tag, FALSE, NoAudio)
     /\ UNCHANGED <<slot, free>>
  \/ /\ free # <<>>
     /\ LET s == Last(free)
            built == Built(slot[s], m)
        IN \/ /\ slot[s].sock
              /\ slot' = [slot EXCEPT ![s] = Sending(built)]
              /\ free' = Front(free)
              /\ UNCHANGED <<dones, produced>>
           \/ /\ ~slot[s].sock
              /\ slot' = [slot EXCEPT ![s] = Dialed(built)]
              /\ free' = Front(free)
              /\ UNCHANGED <<dones, produced>>
           \/ /\ ~slot[s].sock
              /\ slot' = [slot EXCEPT ![s] = Released(built)]
              /\ UNCHANGED free
              /\ PushDone(m.conn, m.tag, FALSE, NoAudio)

\* A bug: an aborted slot keeps its socket for the next borrower.
PoolAbortKeepsSocket(c) ==
  /\ IF \E s \in Slot : slot[s].owner = c
     THEN \E s \in Slot :
            /\ slot[s].owner = c
            /\ slot' = [slot EXCEPT ![s] = [@ EXCEPT !.owner = NoConn, !.state = "Idle"]]
            /\ free' = Append(free, s)
     ELSE UNCHANGED <<slot, free>>
  /\ UNCHANGED <<dones, produced>>

\* abort_owner: drop the socket of the slot that c holds, if it holds one.
PoolAbort(c) ==
  /\ IF \E s \in Slot : slot[s].owner = c
     THEN \E s \in Slot :
            /\ slot[s].owner = c
            /\ slot' = [slot EXCEPT ![s] = Released(Dropped(@))]
            /\ free' = Append(free, s)
     ELSE UNCHANGED <<slot, free>>
  /\ UNCHANGED <<dones, produced>>

\* One command of the drain loop.
Command ==
  /\ bPc = "cmds"
  /\ cmds # <<>>
  /\ LET m == Head(cmds) IN
       \/ m.op = "submit" /\ PoolSubmit(m)
       \/ m.op = "abort" /\ PoolAbort(m.conn)
  /\ cmds' = Tail(cmds)
  /\ UNCHANGED <<aVars, wake, bPc>>

\* A bug: A is left to notice results at its next timer.
CommandsEndNoWake ==
  /\ bPc = "cmds"
  /\ cmds = <<>>
  /\ bPc' = "events"
  /\ produced' = FALSE
  /\ UNCHANGED <<aVars, wake, cmds, dones, slot, free>>

\* The channel was seen empty: wake A if there is something for it.
CommandsEnd ==
  /\ bPc = "cmds"
  /\ cmds = <<>>
  /\ bPc' = "events"
  /\ wake' = (wake \/ produced)
  /\ produced' = FALSE
  /\ UNCHANGED <<aVars, cmds, dones, slot, free>>
-----------------------------------------------------------------------------
ThreadA ==
  \/ Poll \/ DrainBegin \/ DrainOne \/ DrainEnd \/ TimersBegin \/ TimersEnd \/ ClosingEnd
  \/ \E c \in Conn :
       \/ Accept(c)
       \/ Handshake(c)
       \/ \E m \in Inbound : OnReadable(c, m)
       \/ OnWritable(c)
       \/ TimerFlush(c)
       \/ TimerTimeout(c)
       \/ Remove(c)

ThreadB ==
  \/ EventsEnd \/ Command \/ CommandsEnd
  \/ \E s \in Slot : SlotAdvance(s) \/ SlotRespond(s) \/ SlotError(s) \/ SlotProbe(s)

Next == ThreadA \/ ThreadB

Spec == Init /\ [][Next]_vars
-----------------------------------------------------------------------------
TypeOK ==
  /\ phase \in [Conn -> {"none", "http", "ws", "started", "closed"}]
  /\ code \in [Conn -> {0, 1002, 1003}]
  /\ seq \in [Conn -> Nat]
  /\ meta \in [Conn -> Seq(Nat)]
  /\ pending \in [Conn -> Batch]
  /\ out \in [Conn -> Seq(Message)]
  /\ conns \in SUBSET Conn
  /\ closing \in SUBSET Conn
  /\ aPc \in {"poll", "events", "drain", "timers", "closing"}
  /\ ready \in BOOLEAN
  /\ wake \in BOOLEAN
  /\ cmds \in Seq(Cmd)
  /\ dones \in Seq(Done)
  /\ slot \in [Slot -> SlotRec]
  /\ free \in Seq(Slot)
  /\ bPc \in {"events", "cmds"}
  /\ produced \in BOOLEAN

\* InferencePool: the free list holds exactly the slots nobody owns, each once,
\* so that no slot is lent twice and has_inflight counts correctly.
FreeListExact ==
  /\ \A i, j \in DOMAIN free : free[i] = free[j] => i = j
  /\ \A s \in Slot : slot[s].owner = NoConn <=> \E i \in DOMAIN free : free[i] = s

\* A request in the pool can always be driven to its end: it has a socket, which
\* carries nothing but that request, and the bytes read are of its own response.  A
\* socket kept alive for the next borrower is idle and owes no response, so the next
\* borrower never reads an older answer.
SocketClean ==
  \A s \in Slot :
    IF slot[s].owner = NoConn
    THEN slot[s].wire = <<>> /\ (slot[s].sock => slot[s].state = "Idle")
    ELSE /\ slot[s].sock
         /\ slot[s].state \in {"Connecting", "Sending", "Receiving"}
         /\ slot[s].wire = IF slot[s].state = "Receiving" THEN <<slot[s].req>> ELSE <<>>
         /\ slot[s].resp \in IF slot[s].state = "Receiving" THEN {"empty", "ours"} ELSE {"empty"}

\* One inference in flight per connection, in the pool as well as on thread A:
\* the abort of a timed-out request reaches B before the next submit.
OneSlotPerConn ==
  \A s, t \in Slot : slot[s].owner = slot[t].owner /\ slot[s].owner # NoConn => s = t

AbortQueued(c) == \E i \in DOMAIN cmds : cmds[i].op = "abort" /\ cmds[i].conn = c

\* A slot works for the batch its live owner waits for, or an abort is on its way:
\* a timeout or a close never leaks a slot, whatever the two threads do meanwhile.
NoOrphanSlot ==
  \A s \in Slot : slot[s].owner # NoConn =>
    \/ slot[s].owner \in conns /\ Tag(pending[slot[s].owner]) = slot[s].tag
    \/ AbortQueued(slot[s].owner)

\* Where the request for batch t of connection c is: in the command channel, in
\* the pool or in the result channel.
Places(c, t) ==
  {<<"cmd", i>> : i \in {k \in DOMAIN cmds : cmds[k].op = "submit" /\ cmds[k].conn = c /\ cmds[k].tag = t}}
  \cup {<<"slot", s>> : s \in {r \in Slot : slot[r].owner = c /\ slot[r].tag = t}}
  \cup {<<"done", i>> : i \in {k \in DOMAIN dones : dones[k].conn = c /\ dones[k].tag = t}}

\* The batch a connection waits for is in exactly one place: the handoff between
\* the threads neither loses nor duplicates a request or its result.
PendingInOnePlace ==
  \A c \in conns : pending[c] # NoBatch =>
    \E p \in Places(c, pending[c].oldest) : Places(c, pending[c].oldest) = {p}

\* Results in the channel are always announced: A is draining, or its poll is
\* about to return RESULT, or B has still to fire the waker.
NoLostWake ==
  dones # <<>> => wake \/ ready \/ produced \/ aPc = "drain"

\* The client's view of a connection: its phase, the batch it can still be answered
\* about, and how many answers it was sent.
ClientPhase ==
  [c \in Conn |-> IF phase[c] \in {"none", "http"} THEN "idle"
                  ELSE IF phase[c] = "ws" THEN "connected"
                  ELSE IF phase[c] = "started" THEN "streaming" ELSE "closed"]
Awaited == [c \in Conn |-> IF phase[c] = "closed" THEN NoBatch ELSE pending[c]]
Sent == [c \in Conn |-> Len(out[c])]

\* That view of the gateway is the contract of SttContract.
Contract == INSTANCE SttContract WITH
  phase    <- ClientPhase,
  received <- seq,
  inflight <- Awaited,
  out      <- out,
  sent     <- Sent,
  code     <- code

\* Every behaviour of the two threads is one the contract allows: answers tile
\* the frames, each partial is computed from its own audio, one batch at a time,
\* the right close codes, and silence after the close.
ImplementsContract == Contract!Spec
-----------------------------------------------------------------------------
\* A slot whose connection is gone comes back to the free list even if the
\* server never answers.
SlotsReclaimed ==
  \A c \in Conn : \A s \in Slot :
    (slot[s].owner = c /\ c \notin conns) ~> (slot[s].owner # c)
=============================================================================
