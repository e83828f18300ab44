# A formal model of websocket-stt-bench

TLA+ modules, TLC configurations and TLAPS proofs for the streaming
speech-to-text gateways of this repository, for the load generator, the
conformance tool and the benchmark that judge them, and for the inference server
they share.

Check a run with `tlc -config <cfg> <module>` and a proof with `tlapm <module>`,
both in this directory. `PROJECT.json` lists the runs, what each definition
models (file and lines), the hazards the properties are aimed at, and a
plausible bug for every property that the property catches.

## The system

Twelve gateways implement one contract in different runtimes. A client opens a
WebSocket, sends `start`, then numbered 20 ms frames of audio. A gateway buffers
the frames of a connection, hands everything buffered to a shared inference
server once per flush interval, at most one batch per connection at a time, and
answers each batch with a `partial` or an `error` that names the range of frames
it covers. The load generator recomputes every partial, checks that the ranges
are continuous, and checks how much audio was never answered. The bench scripts
turn its counters into a verdict and search for the highest load that passes.

| Part | State | Operations | What makes it hard |
|---|---|---|---|
| rust-sync, thread A (`main.rs`, `session.rs`) | connections, their buffers and pending batches, timer heap, closing list | accept, handshake, read, write, drain results, timers, removal | late results, timers of closing connections, heap entries against moved deadlines |
| rust-sync, thread B (`inference.rs`) | slots with HTTP sockets, free list, `produced` | drive a slot, submit, abort, wake | exhaustion, redial, keep-alive reuse, wake-ups |
| rust-axum | socket task, flush task, permit, bounded channel | receive, flush, send, abort | cancellation at any await, back-pressure |
| ocaml-oxcaml-epoll | connections, slots, timer heap with generations | epoll events, flush, timeout, retry | stale events and timers, slot reuse |
| ocaml-oxcaml, ocaml-websocket-async | flush loop, keep-alive connection, writer | flush, exchange, close | connections left with an undrained body |
| go-nethttp | reader, flusher, one goroutine per batch, writer, token | read, flush, infer, write, cancel | cancellation between any two steps |
| java-helidon-nima | receive, flush and write threads, `closed`, send lock | message, flush, send, close, shutdown | close frame against a wedged writer, backlog cap |
| cpp23-uwebsockets | loop thread, timer wheel, curl thread, idle pool | tick, submit, completion, close | completions after the close, shutdown |
| typescript-bun | flush timer, batch promise, bounded outbox | flush, infer, enqueue, drain, close | waiters and back-pressure |
| elixir-phoenix | socket process, inference task | handle_in, flush, finished | backlog cap, late task messages |
| python-fastapi | receive, flush and write tasks | receive, flush, write, teardown | teardown order |
| scala-pekko | session actor, queue, close intent | messages, flush tick, results | stash while a streamed message is collected |
| inference server | semaphore | infer | saturation |
| load generator | sessions, continuity, verification queue | send, receive, verify, finish | full queue, end of session |
| SLO verdict, ceiling search | counters, bracket | evaluate, probe, confirm | noisy points, invalid points |

Correct means: the answers on a connection tile its frames 1, 2, 3, ... in order;
a partial is computed from exactly the audio it names; one batch at a time; the
close code its cause calls for and silence afterwards; every batch is answered in
bounded time, and the audio still owed when the client leaves is bounded; shared
resources (slots, sockets, permits) are neither lost nor lent twice.

## Modules

| Module | What it is |
|---|---|
| `SttContract` | the contract as seen by a client, independent of any runtime |
| `RustSync` | the rust-sync gateway: both threads and the channels between them |
| `RustSyncReadiness` | the same with the readiness of the inference sockets: interests, edge-triggered events, registration |
| `RustSyncProofs` | type correctness, the pool, the sockets, the wake-up and the buffers, proved |
| `RustSyncHandoffProofs` | the hand-off between the threads, that the gateway implements the contract, and that no readiness is missed, proved |
| `MCRustSync` | RustSync for TLC (symmetry sets) |
| `RustSyncTimers` | the clock, deadlines and timer heap of rust-sync's thread A |
| `RustAxum` | one session of the rust-axum gateway: socket task, flush task, channel |
| `RustAxumProofs` | it implements the contract, proved |
| `JavaSession` | one session of the java-helidon-nima gateway: three threads and a lock |
| `JavaSessionProofs` | exclusive use of its socket, and that it implements the contract, proved |
| `BunSession` | one session of the typescript-bun gateway: event loop, outbox, clock |
| `BunSessionProofs` | its backlog cap, for all timing constants, and that it implements the contract, proved |
| `Verify` | the checks of one response, as operators; used by the next three |
| `Continuity` | the continuity tracker on arbitrary streams of ranges |
| `Loadgen` | the load generator: sessions, channels, verifier, main, counters, verdict |
| `LoadgenProofs` | what its summary and its verdict say, proved |
| `Judges` | load generator and conformance tool against any gateway of the contract |
| `MCJudges` | Judges for TLC (symmetry of connections) |
| `JudgesProofs` | what every implementation of the contract inherits, that it is never accused, what the tracker reports, and that rust-sync's deadlines keep the tail within bounds, proved |
| `InferenceServer` | the inference server: streams, queue, blocking computations |
| `InferBench` | the inference benchmark composed with the server |
| `InferBenchProofs` | the server's permits and the benchmark's report, proved |

### SttContract

State per connection: `phase`, `received` (frames accepted), `inflight` (the
batch at inference), `out` (answers produced), `sent` (how many of them have been
sent), `code`. The actions are `Open`, `Start`, `Frame`, `Flush`, `Respond`,
`Send` and `End`. A flush takes everything received since the last answer; an
answer is a partial with the batch's own audio or an error, sent at once
(rust-sync) or queued and sent later in order (gateways with an outbox). What is
queued when the session ends is never sent. A lost peer may end the session in
the step that discovers it. A session ends with 1002 for a protocol error, 1003
for a frame of the wrong size, 1013 for a full backlog, 1011 when an answer cannot
be sent, or without a code. Audio is the range of frames it consists of, with the connection they came
from. That is what the load generator's checksums distinguish, and it is enough
to express a mixed-up answer.

### RustSync

Thread A is the loop of `main`: `Poll`, then the events (`Accept`, `Handshake`,
`OnReadable`, `OnWritable`, and `DrainBegin`/`DrainOne`/`DrainEnd` for the
RESULT token), then the timers (`TimerFlush`, `TimerTimeout`), then the removal
of what was found closed (`Remove`). Thread B is the loop of `run`: slot events
(`SlotAdvance`, `SlotRespond`, `SlotError`, `SlotProbe`), then one `Command` per
queued command (`PoolSubmit`, `PoolAbort`), then the wake (`CommandsEnd`). Every
step of one thread may fall between two steps of the other. Within an iteration
the order of events is free, as it is for epoll.

The names of the variables are the fields of the code. `meta` stands for `meta`
and `pcm`, which are always changed together. A slot has a `wire`: the requests
written on its socket whose responses have not been read; the server answers
them in that order. This is what makes a keep-alive socket with an unread
response visible. `resp` is what the slot's response buffer holds: nothing, part of
the response to the present request (`ReadPart`), or bytes left from an earlier
socket, with which no later response parses. `build` and `retry_or_fail` clear it. The operators `Built`, `Dialed`, ... `Released` are the
updates the methods of `Slot` make.

Time is abstract in this module: in the timer phase any connection may find its
flush due or its batch overdue, so all timings are covered. Left out: HTTP head
parsing (`Handshake` has its outcomes), JSON, message wording, the byte offset
of a partial write (a slot stays in `Sending`), what makes B drive a slot (any slot
may be driven at any time; see the next module), the registrations of thread A, and
the following cases:

- after a handler has returned Close for a connection, a second event for it in
  the same iteration is not read any more. In the code the result drain can close
  a connection whose socket event follows; what is read then goes into a buffer
  that is submitted and aborted in the same iteration at most;
- a server that sends unasked bytes on an idle keep-alive socket;
- a poll that returns more than its 4096 events at once, and a failing
  `poll` call, which ends the process.

### RustSyncReadiness

mio is edge-triggered: an event is raised when a socket becomes ready for the
interest it is registered for, or is found ready when it is registered or
registered again, and it is gone once `poll` has returned it. B drives a slot only
on its event; the cap on its poll changes nothing about that. `net` is the kernel's
side of a slot's socket, `interest` its registration, `edge` the events `poll` has
yet to return, `events` those it returned. `OnEvent` drives a slot as far as its
socket lets it and `Arm` registers it for what it waits for now, which `on_event`,
`submit` and `recycle` do after every change of a slot. The two are separate steps,
so the socket may become ready in between. The kernel and the server (`Connects`,
`Drains`, `Answers`, `Breaks`) act at any time; a response arrives in two parts at
most. Everything else is a step of `RustSync` under a stronger guard.

### RustSyncTimers

One connection, the client's frames (one per tick or none) and the clock.
Instants are relative to the present, so the state space is finite without a
bound on time. The heap's entry is separate from the deadline it stands for. The
only assumption is `MaxStall`: a late return from poll and the handlers of that
iteration together last at most that many ticks. No slots and no other
connections are in it; `PollReturns` may happen at any time on their behalf.
`ConnDeadline` is `Conn::deadline`; `HeapBegin`, `HeapTimeout`, `HeapKeep`,
`HeapFlush` and `HeapEnd` are main's loop over the due entries of the heap.

### RustAxum

A session is two tokio tasks. `handle_socket` waits for the start message
(`FirstMessage`), spawns the flush task and loops over a biased select:
`SelectOutbound` takes an answer from the channel and `Sent` finishes writing it;
otherwise `SelectInbound` arms the socket, and `HandleInbound` or `Woken` follows.
`Return` aborts the flush task. `flush_loop` takes the buffer (`Tick`), waits for
the response (`RequestPartial`), waits for room in the channel (`Push`) and may be
`Cancelled` in each of these awaits. A step is what a task does between two
awaits, so the tasks interleave at every await of the source. The contract's
`out` is what is on the wire, in hand and in the channel, and `sent` is what is on
the wire.

Left out: the clock (a tick may come at any time), the semaphore, whose permit
only the one loop takes and returns, and which error it is.

### JavaSession

Three threads. Helidon's receive thread (`rx`) runs the callbacks: `OnStart`,
`OnFrame`, `OnRefused` (every message that ends in `closeWith`), `OnEnd`
(`onClose`, `onError`) and `OnPing`. The writer (`w`) is `WriteLoop`, `Take`,
`Send` and the outcome of a blocked write, `Sent` or `SendFails`; the flush thread
(`f`) is `FlushLoop`, `TryFlush`, `ProcessBatch`, `Enqueue`. They share `buffer`,
the bounded `outbox`, `closed`, `lock` (`sendLock`) and the interrupt flags.
`closeWith` and `shutdown` are one chain: flip `closed`, `LockForClose`, or
`LockTimeout` (interrupt the workers, wait again) and `LockRefused`; then
`CloseWritten` or `CloseFails`. A client may stop reading at any moment: then the
writer holds the lock in state "write".

The session is over, for the contract, when the thread that flipped `closed` has
done its part (`over`). `answers` records what was put in the outbox before that,
which is what the contract's `out` consists of; `stranded` records a close frame
whose write threw or hangs.

Assumed of the platform: a write blocked in a virtual thread fails when the thread
is interrupted (the source says so at `Session.java:267`), the HTTP client keeps
the interrupt flag, and the JVM's lock serves a waiter eventually. Left out: the
clock, the reassembly of fragments (a message is whole), a JSON marshalling
failure, which would drop an answer, and a pong that blocks.

`WorkersStop` needs its exception. `session.close` at line 259 comes before
`interruptWorkers` at line 260, inside one `try` without a `catch`. When it
throws, Helidon's `onError` finds `closed` set and returns, so a writer waiting in
`outbox.take()` is never interrupted. No document promises otherwise.

### BunSession

One event loop, so a step is a callback, and the send loop of `drain` (`running`)
is not interleaved with anything. `OnStart`, `OnFrame`, `OnRefused`, `OnTimer`,
`ProcessBatch`, `Enqueue`, `OnDrain`, `SendNext`, `DrainEnd` and `OnClose` are the
callbacks and continuations; `Tick` and `ClientReads` are the environment. The
promise `inflight` is at inference, about to enqueue, or waiting for room. A
continuation may run later than the microtask queue would run it, which covers
more schedules than Bun has.

Time is discrete, a tick is one frame, and the configured durations are whole
frames, so `Math.ceil` has nothing to round. `lag` counts the ticks in which
frames waited although something was due or the client left the outbox full; it
starts again at 0 when nothing waits. It is what "an event-loop stall" in
`config.ts` means, measured, together with the wait for a client that does not read.
`CapSparesHealthy` says that 1013 is only sent when lag has reached the longest
configured wait: a stall shorter than another full wait passes.

### Verify, Continuity, Loadgen, Judges

`Verify` has the pure checks: `Gap` and `Advance` are `Continuity::observe`,
`Valid` is `validate`, `VerifyPartial` the recomputation, `CheckTail` the end of a
session. Distinct audio is taken to have distinct values. `Continuity` feeds any
stream of ranges to the tracker (`Observe`) and compares what it reports with a
definition of tiling over the whole stream.

`Loadgen` has the session tasks (connect, start, the select loop, the close
grace, each under its own timeout and all under the session deadline), the sample
channel, `submit_verify` and its bounded queue, the verifier thread, main's
collecting, joining and printing, and the part of `eval_slo.py`'s verdict that
rests on the counters. The gateway is arbitrary. `wrong` is a history variable:
responses that were wrong, and tails that were never reported. Left out:
histograms and percentiles, CSV layout, the spreading of session starts.

`Judges` composes `SttContract` with the clients: the contract's gateway answers,
the client sends frames at its own pace and reads with any delay. A send is a write
(`SendFrame`), after which the gateway has the frame, and its completion
(`FrameSent`, or `SendFails`). The load generator counts the frame before the write;
the conformance tool after it, when the answer may be there already. It is not
accused of anything because the answer is read in the other arm of the same select,
and so not before the count (`ReadAside` is the bug of reading in a task of its
own). Only the verdicts on ranges and values are in it: not the tail at the end of a
session, error frames and deadlines, which `Loadgen` has. Of the
conformance tool it has the checker and the paced streams; the arrival times that
the cadence case measures and the scripted single-message cases are left out.

### InferenceServer, InferBench

A handler queues for one of the streams, computes on a blocking thread, sleeps
and answers; it is dropped at any await when its client leaves, while the
computation it started goes on. `Release` is the semaphore: a permit goes to the
first waiter. A waiter whose client leaves gives up its place in the queue. `InferBench` adds the benchmark's open and closed loop, its result
channel and main. `Foreign` requests share the server.

## Runs

| Run | Instance | Shows | States |
|---|---|---|---|
| `rs_handoff` | 1 connection, 2 slots, 3 frames | `OneSlotPerConn`, `NoOrphanSlot`, `PendingInOnePlace`, implements the contract | 402 000 |
| `rs_pool` | 2 connections, 1 slot, 1 frame each | `FreeListExact`, `SocketClean`, `NoLostWake`, implements the contract | 858 000 |
| `rs_live` | 1 connection, 1 slot, 2 frames, edge-triggered readiness | `NoMissedEdge`; every batch at inference is resolved without the timeout; the slot of a closed connection comes back although the server is silent | 210 000 |
| `rs_timers` | F = 3, T = 6, jitter 1, stall 1 | heap entry, flush lateness, answer time, unreported tail | 10 000 |
| `axum_session` | channel of 1 answer, 5 frames | implements the contract, `FramesReported`, `FlusherStops` | 22 000 |
| `java_session` | outbox of 1, backlog of 2, 4 frames | implements the contract, `WireExclusive`, `WorkersStop` | 120 000 |
| `bun_session` | F = T = jitter = 1, outbox of 2, 6 frames, lag up to 2 | implements the contract, `CapSparesHealthy`, `CaughtUp` | 1 455 000 |
| `lg_continuity` | up to 4 ranges over frames 0 to 4 | silent exactly on tilings; a stale or lost response is reported once | 407 000 |
| `lg_account` | 2 sessions, channels of 1, with and without verification | failures and partials are accounted for, a pass means correct, the run ends | 758 000 |
| `lg_budget` | the same with an error budget of 1 | a wrong answer that is recorded nowhere (violation, see below) | |
| `infer_bench` | 2 requests and a foreign one, 1 stream | permits exact, queue moves, report complete, benchmark ends | 136 000 |
| `judges` | 2 connections, 2 frames each, either client | a gateway of the contract is never accused of wrong ranges or values | 3 619 000 |

Three frames on one connection are three successive batches: one that times out,
one pending when the late result of the first arrives, and one that follows.
Two slots let the second batch get a slot while the first is not yet aborted.
Two connections with one slot give exhaustion and the reuse of a socket by a
stranger. In `rs_timers` the ratio T = 2F is the one of `config.rs`; two flush
deadlines can pass during a request. In `axum_session` five frames can be one
answer on the wire, one in hand, one in the channel, one waiting for room and one
frame in the buffer. In `java_session` four frames fill the writer's hand, the
outbox and the flush thread's, with one left for the backlog, or overflow the
backlog of two. In `bun_session` the longest wait is two frames and the cap four:
six frames and a lag of two are what it takes to send 1013. The outbox of two lets
an answer wait in the outbox, behind one the socket did not take,
while the next waits for room. In `lg_account` one
frame and one answer per session suffice, since a second session competes for the
one place in each channel. The slots of `rs_handoff` and the connections of
`rs_pool` and `judges` are symmetric; the runs with fairness use no symmetry.

Deadlock is checked in the rust-sync runs, whose loops never stop, and in
`lg_account` and `infer_bench`, whose end is a step of its own. Sessions, streams
of ranges and judged connections may end.

**Finding.** `lg_budget`: `process_inbound` waits for room in the sample channel
before it records what its checks found (`main.rs:1062`). If the session deadline
strikes there, the future is dropped and a wrong partial leaves no trace but one
failed session, which the error-rate gate may tolerate. `eval_slo.py:189` says
that correctness is a gate. With no error budget (`lg_account`) the property holds.

**Two comments the models do not bear out**, without consequence for a property:

- `inference.rs:561` says that capping the park "guarantees the state machines are
  pumped regularly even with no readiness event". A poll that returns without an
  event leads to no call of `on_event` (`inference.rs:513`), so it pumps none:
  `PollReturns` with `events` empty. The gateway does not depend on it. `rs_live`
  shows that no event is missed and that every batch is resolved.
- `config.ts:30` says that the cap "can never fire for a session whose requests
  finish", because frames pile up only before the first flush or while a request
  runs. They also pile up while `processBatch` waits for room in the outbox of a
  client that does not read (`session.ts:222`), as `inflight` is set until `enqueue`
  returns. To close such a session is reasonable, and `CapSparesHealthy` counts this
  wait as lag.

**Fairness.** In `RustSyncReadiness`, `Fairness` is weak fairness of the steps that
continue each thread's loop: the loops have no exit, poll has a timeout on both
threads, and the channels are drained with non-blocking calls. For B it includes `PollReturns`, `OnEvent` and `Arm`, that is, the handling
of events that were raised, and nothing about a slot without an event.
`ServerFairness`, a hypothesis of `PendingResolved` only, is about the other side:
the server accepts connections, reads requests and answers them, or the connection
breaks. Nothing is assumed of clients, of timers or of the order
of events. In `RustAxum`, the runtime polls a task that was woken, the HTTP client
has a timeout, so a request ends, and the client reads or goes away, so a write
ends: without the last, back-pressure stops the session, by design. In
`JavaSession` the client need not read: the threads are scheduled, timed waits and
inference calls end, an interrupted write fails, and the writer gets the lock if
it is free again and again (strong fairness of `Send`). In `BunSession` time
passes, the loop runs every callback, and the client reads. In `Loadgen` time
passes and the tasks, main and the verifier are scheduled; no gateway ever has to
answer. In `InferBench` computations, sleeps and client timeouts end.

## Proofs

For all sets of connections, all finite non-empty sets of slots and any number
of frames (`RustSyncProofs`):

- `TypeCorrect`: `Spec => []TypeOK`.
- `FreeListIsExact` and `SocketsAreClean`. Neither holds inductively without the
  other: whether the slot that `submit` pops is unowned is the free list's
  business, and whether it is clean the sockets'. The inductive invariant is
  `PoolInv`, their conjunction, on top of `TypeOK`. The lemmas about pushing on
  and popping from an exact free list (`FreePush`, `FreePop`) and about one slot's
  update (`UpdatePool`, `FinishPool`, `SubmitPool`, `AbortPool`) carry the steps.
- `NoWakeIsLost`: `NoLostWake` needs to know that `ready` is only ever true in
  the event phase; `WakeInv` adds it.

For the hand-off between the two threads, under the same assumptions
(`RustSyncHandoffProofs`): `OneSlotEach`, `NoSlotIsOrphan` and
`PendingIsInOnePlace`. The three are about requests that travel as a command, a slot
and an answer, so the inductive invariant `HandedOff` says of each connection c and
tag t where its request can be, on top of `TypeOK` and `PoolInv`:

- in one place at most (`Once`), and under a tag that has left the buffer (`Spent`), so
  that the tag of the next flush is nowhere yet;
- two submits of c in the channel have an abort between them (`Separated`), and a
  submit has one before it while c still has a slot (`Behind`). This is why B, which
  takes commands in order, never borrows a second slot for c (`OneSlot`);
- a submit or a slot is followed by an abort exactly when c does not wait for it
  (`Wanted`). A timeout and a close queue that abort in the step that gives the batch up;
- the request of the batch c waits for is somewhere (`Somewhere`), with the audio of
  that batch (`RightAudio`); the batch ends where the buffer begins (`BufferInv`).

The lemmas named `...View` say what an append, a take from the channel, a slot's update
and a push of an answer do to these places, and each action is then argued over places
alone. `RustSyncImplementsContract` adds `SessionInv`: the answers and the batch of a
started session tile the frames that have left the buffer. An answer that arrives for
an older batch has another tag and is a stuttering step; one that arrives for the
current batch has, by `RightAudio`, the audio the contract asks for.

For the readiness of the inference sockets (`RustSyncHandoffProofs`, where B's side of
the hand-off is): `ReadinessRefines`, `ReadySpec => Spec`, so that every theorem about
`RustSync` holds of it, and `NoEdgeMissed`. `NoMissedEdge` alone is not inductive: that
a change of the socket raises an event depends on its registration. `ReadyInv` adds
that a slot that is not about to be registered is registered for what it waits for.
While a response arrives at a slot still registered for writing, the slot is in
`arming`, and `Arm` finds the socket ready.

For all intervals, timeouts, jitters and stalls (`JudgesProofs`, where the bound on
the tail belongs to the judgement): `ClockTypeCorrect`, `HeapIsEarly`, `FlushOnTime`,
`AnsweredOnTime`, `TailIsBounded`. The inductive invariant `ClockInv` adds to the
types and to `HeapCoversDeadline` what the loop knows about its own lateness
(`LoopInv`) and how much audio can be behind a request or waiting for a flush
(`AudioInv`). The tail is at most F + T + max(T, jitter) + 4 stalls. `verify.rs`
tolerates 2F + 2T, so a jitter up to T is covered while four stalls stay below F. The
default jitter is 0.

For the contract (`JudgesProofs`): `TypeCorrect`, `AnswersTile`,
`PartialsMatchAudio`, `EndedIsSilent`: a gateway shown to implement the contract
has them.

For the clients (`JudgesProofs`): `ContractNeverAccused` (of wrong ranges or values) and
`ClientsInStep`, for any connections, frames and answers. `NeverAccused` alone is not inductive: `InStep` adds that a
client has read a prefix of what was sent, that its tracker stands at the end of
that prefix, that only frames it wrote were answered, and that the count differs from
what was written only during a send of the conformance tool, when it does not read. `JudgedIsContract` makes
the contract's theorems available: tiling gives the ranges, matching audio the
values.

For the continuity tracker (`JudgesProofs`), for streams and ranges of any length:
`SilentOnTilingsOnly`, `StaleIsReportedOnce` and `LossIsReportedOnce`. The tracker
keeps one number, the properties are about the whole stream, and none of them is
inductive: that a tiling stream was never reported says nothing of the next range.
The inductive invariant `TrackerInv` adds where the tracker stands: at the end of the
stream if it tiles (`Follows`); at the end of the stream without its stale response
(`FollowsStale`); and, after a loss, at the end of what did arrive (`FollowsLoss`).
In each of the three a range appended to the stream is either the one that continues
it, and silent, or the flaw itself. Two flaws are outside all three, which is why the
properties say nothing about them.

For the inference server and the benchmark (`InferBenchProofs`), for any finite set of
requests, any part of them foreign, and any number of streams and workers, in both
loops: `PermitsAreExact` and `ReportIsComplete`.

- `ServerInv` has the types, the queue (`QueueExact`: each handler that waits is in
  it, once, and nobody else) and the sum of free permits and handlers that hold one.
  The queue is needed for the sum: `Release` hands a permit to its head, which must
  not hold one already. `waiters # <<>> => permits = 0` is inductive because `Arrive`
  queues only at 0 and `Release` raises the count only when the queue is empty.
- `BenchInv` has the stage of each task, with its result from `returned` on
  (`BenchStages`), and the books (`BenchTally`): of each kind, what the summary counts
  and what the channel holds together are the tasks that have sent it. Main counts
  only after all tasks were joined and ends when the channel is empty, so the sum is
  then the summary alone.

For the load generator (`LoadgenProofs`), for every finite set of sessions, all
capacities, `--verify-every` and numbers of frames and answers: `LoadgenTypeCorrect`,
`SummaryCountsFailures`, `EveryPartialAccounted`, `WrongRecordedOnce` and, when the
error budget is 0, `PassIsCorrect`. With a budget the last is false, which is the
finding of `lg_budget`. The properties are about the finished run, the inductive
invariant `LoadInv` about every state before it:

- `Stages`: main joins only after every task has ended, and the queue is empty when
  the verifier has been joined, so a counter read at the end is complete;
- `Tally`: a failure counter is the number of sessions that have recorded that end. The
  timeouts of a connect, send or close are counted where they strike, the session
  deadline only when the outcome is recorded;
- `Accounted`: with every partial selected, a sample's partial is queued, verified or
  dropped;
- `Balance`: a wrong response is counted, in the hands of a session, in the queue,
  unverified, or gone with a session that was cut off or panicked. The lower bound is
  `RecordedOnce`. The upper bound gives `PassMeansCorrect`: a run that passes without a
  budget has no lost session, an empty queue and nothing unverified.

The set sizes in it change by at most one per step; `BalanceMoves` and `LedgerMoves`
do that arithmetic once.

For the backlog cap (`BunSessionProofs`): `CapSparesHealthyTheorem`, for every
interval, jitter, timeout, outbox depth and lag. The inductive invariant
`BacklogInv` bounds the frames that wait: by the age of the request while it runs,
by the timeout while its answer waits for room, and afterwards together with the
time left until the timer fires by the longest wait, in each case plus lag plus
one frame that arrives in the tick of a flush. With the backlog at twice the
longest wait and one more frame, lag is at least that wait.

For the socket of a Java session (`JavaSessionProofs`): `WireIsExclusive`, for
every outbox, backlog and number of frames. The lock alone does not give it,
because `shutdown` lets Helidon write without it. The inductive invariant
`SocketInv` has the lock discipline (`LockInv`) and what a close in progress says
of the writer (`CloseInv`): while `closed` is set and the writer is at work, the
first wait for the lock has not ended or the writer is interrupted.

For the other three gateways, that a session implements the contract:
`AxumImplementsContract` (`RustAxumProofs`, every channel depth),
`JavaImplementsContract` (`JavaSessionProofs`, every outbox and backlog) and
`BunImplementsContract` (`BunSessionProofs`, every interval, jitter, timeout and
outbox), each for every number of frames. With the theorems about the contract this
gives tiling, matching audio and silence after the end for all four models without a bound. The three
inductive invariants (`AxumInv`; `SessionInv` with `SocketInv`; `BunInv`) have the
same core. While the session is not over,

- the answers produced are those on the wire, in hand and queued, in this order;
- the buffer holds exactly the frames after the last one answered or at inference
  (`BufferInv`), so a flush takes what the contract's `Flush` takes;
- there is a batch exactly while the code has one at inference or an answer to
  queue, and the answer is about it.

They differ in why nothing reaches the client afterwards. In rust-axum every return
aborts the flush task. In Java `closed` was set before the session was over, the
writer tests it under the lock, and one that is still in the socket has been
interrupted. In Bun the outbox is closed with the socket, although timer and request
may still run when it was a dropped send that closed it. An interrupted put in Java
leaves a batch without an answer; the invariant needs that `closed` is set then, so
that no flush follows.

Assumptions: `NoConn` is not a connection; there is at least one slot and
finitely many (`from_env` takes `max(1)`); `FlushInterval` is positive (same
place, and `Math.max(1, ...)` in `session.ts`); `InferenceTimeout` is positive;
`Depth` is positive; a judged stream is at most `MAX_VERIFY_FRAMES` long; the
sessions of a load generator are finitely many, its capacities and its budget are
numbers, and `NoJob` is not a job; the bounds on a stream of ranges are numbers; the
server has at least one stream, requests are finitely many, and the foreign ones are
among them. TLC evaluates all of them in the runs.

Every safety invariant that a run checks is proved, and so are the four refinements.
`USE SMTT(30)` at the head of a proof module gives each of its steps 30 seconds of
the SMT solver; a step that names `Zenon` is first-order and goes there instead.

Only model-checked:

- the liveness properties (`PendingResolved`, `SlotsReclaimed`, `FramesReported`,
  `FlusherStops`, `WorkersStop`, `CaughtUp`, `RunEnds`, `QueueMoves`, `BenchEnds`):
  liveness under fairness is outside the prover.

## Not modelled

- **The other gateways**: go-nethttp, cpp23-uwebsockets, elixir-phoenix,
  python-fastapi, scala-pekko and the three in OCaml. Each would be one more module
  that implements `SttContract`. Elixir's backlog cap is typescript-bun's formula;
  Java's is the value of that formula at the defaults, but its client's connect and
  read timeouts follow one another, so a call may last longer than the formula
  assumes. That is listed as a hazard without a property.
- **The ceiling search** (`sweep.py`): its verdicts are noisy measurements, and
  what the search promises depends on the noise.
- **Latency** anywhere: histograms, percentiles, the latency gate of
  `eval_slo.py`, the cadence tolerances of the conformance tool.
- **The conformance tool's scripted cases** (single frame, burst, close codes):
  each is a fixed dialogue; the codes are those of `SttContract`'s `End`.
- **The stub model's statistics**: floating-point arithmetic.
- HTTP and WebSocket codecs byte by byte, configuration from the environment,
  report generation, deployment scripts.
