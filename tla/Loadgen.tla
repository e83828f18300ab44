------------------------------ MODULE Loadgen -------------------------------
(***************************************************************************)
(* The load generator: session tasks under a deadline, the bounded sample  *)
(* channel to main, the bounded queue to the verifier thread, and the      *)
(* counters main prints once everything has been joined.                   *)
(*                                                                         *)
(* The gateway is the environment: it answers anything, closes, fails or   *)
(* stalls.  Time is the phase of the run: warmup, the measured window,     *)
(* over (past end_at), late (past the session deadline).                   *)
(***************************************************************************)
EXTENDS Verify, FiniteSets

CONSTANTS Session, NoJob,
          SampleCapacity,   \* mpsc::channel(8192)
          QueueCapacity,    \* VERIFY_QUEUE_CAPACITY
          VerifyEvery,      \* values of --verify-every, 0 for no value checks
          ErrorBudget,      \* errors the error-rate gate of eval_slo lets through
          MaxFrames,        \* bound: frames a session sends
          MaxAnswers        \* bound: answers a session receives

\* VerifyJob: a partial, and what the session itself found wrong with it.
VerifyJob ==
  [session : Session,
   partial : [oldest : Nat, newest : Nat, config : BOOLEAN, sane : BOOLEAN,
              frames : Int, bytes : Int,
              audio : [conn : Session, first : Nat, last : Nat]],
   inline : SUBSET {"invalid_range", "continuity_gap", "continuity_overlap", "unsent_frame"}]

ASSUME LoadgenAssumption ==
  /\ IsFiniteSet(Session)
  /\ NoJob \notin VerifyJob
  /\ SampleCapacity \in Nat /\ QueueCapacity \in Nat /\ VerifyEvery \subseteq Nat
  /\ ErrorBudget \in Nat /\ MaxFrames \in Nat /\ MaxAnswers \in Nat

VARIABLES every,        \* --verify-every
          clock,        \* phase of the run
          pc,           \* where each session task is
          sent,         \* frames sent, sent_times.len()
          tailMeasured, \* whether the last frame was scheduled in the measured window
          last,         \* Continuity::last_newest
          nth,          \* SessionCheck::measured_partials
          inHand,       \* the measured partial whose sample is being sent
          answers,      \* answers received, for the bound
          samples,      \* samples in the channel to main
          queue,        \* jobs queued for the verifier thread
          main,         \* where main is
          count,        \* the counters of the summary
          timeouts,     \* TimeoutCounters
          cause,        \* how each session ended
          wrong         \* wrong responses received and tails never reported

session == <<pc, sent, tailMeasured, last, nth, inHand, answers, cause>>
vars == <<every, clock, session, samples, queue, main, count, timeouts, wrong>>

TimeoutKind == {"connect", "send", "close", "session"}
Counter == {"partials", "protocol", "inference", "errors", "verified", "dropped", "faults"}
Phases == <<"warmup", "measure", "over", "late">>
Sending == {"start", "sending", "close"}      \* in timed(timeouts.send, ...)
Reading == {"select", "grace"}                \* in a select! with read.next()
Running == {"asleep", "connect", "loop", "sample"} \cup Sending \cup Reading
Ended == {"returned", "recorded", "panicked"} \* run_session has dropped its senders

Add(c, k, n) == [c EXCEPT ![k] = @ + n]

\* A bug: one error for every mismatch.
RecordEach(c, mismatches) == Add(c, "errors", Cardinality(mismatches))

\* Correctness::record: one error for one response, however many mismatches.
Record(c, mismatches) == IF mismatches = {} THEN c ELSE Add(c, "errors", 1)

Init ==
  /\ every \in VerifyEvery
  /\ clock = 1
  /\ pc = [s \in Session |-> "asleep"]
  /\ sent = [s \in Session |-> 0]
  /\ tailMeasured = [s \in Session |-> FALSE]
  /\ last = [s \in Session |-> 0]
  /\ nth = [s \in Session |-> 0]
  /\ inHand = [s \in Session |-> NoJob]
  /\ answers = [s \in Session |-> 0]
  /\ samples = 0
  /\ queue = <<>>
  /\ main = "collect"
  /\ count = [k \in Counter |-> 0]
  /\ timeouts = [k \in TimeoutKind |-> 0]
  /\ cause = [s \in Session |-> "none"]
  /\ wrong = 0

Alive == main \notin {"done", "failed"}

GoTo(s, to) == pc' = [pc EXCEPT ![s] = to]

\* run_session is gone, and with it its locals and its channel senders.
Leave(s, to, why) ==
  /\ GoTo(s, to)
  /\ cause' = [cause EXCEPT ![s] = why]
  /\ inHand' = [inHand EXCEPT ![s] = NoJob]
  /\ sent' = [sent EXCEPT ![s] = 0]
  /\ tailMeasured' = [tailMeasured EXCEPT ![s] = FALSE]
  /\ last' = [last EXCEPT ![s] = 0]
  /\ nth' = [nth EXCEPT ![s] = 0]
  /\ answers' = [answers EXCEPT ![s] = 0]

\* run_session returns, or is dropped at its deadline.
Return(s, why) == Leave(s, "returned", why)

Tick ==
  /\ Alive
  /\ clock < Len(Phases)
  /\ clock' = clock + 1
  /\ UNCHANGED <<every, session, samples, queue, main, count, timeouts, wrong>>

Phase == Phases[clock]
Measured == Phase = "measure"
-----------------------------------------------------------------------------
(* A session task: connecting, the send loop, closing. *)

Advances == [asleep |-> "connect", connect |-> "start", start |-> "loop",
             sending |-> "loop", close |-> "grace"]

\* An await completes: the start time, the connect, a send.
Proceed(s) ==
  /\ pc[s] \in DOMAIN Advances
  /\ GoTo(s, Advances[pc[s]])
  /\ UNCHANGED <<every, clock, sent, tailMeasured, last, nth, inHand, answers, cause,
                 samples, queue, main, count, timeouts, wrong>>

\* timed: the connect or the send takes too long.
TimedOut(s) ==
  /\ pc[s] \in {"connect"} \cup Sending
  /\ LET kind == IF pc[s] = "connect" THEN "connect" ELSE "send" IN
       timeouts' = Add(timeouts, kind, 1) /\ Return(s, kind)
  /\ UNCHANGED <<every, clock, samples, queue, main, count, wrong>>

\* The connect, a send or a read fails.
IoError(s) ==
  /\ pc[s] \in {"connect"} \cup Sending \cup Reading
  /\ Return(s, "io")
  /\ UNCHANGED <<every, clock, samples, queue, main, count, timeouts, wrong>>

\* while Instant::now() < end_at
LoopTop(s) ==
  /\ pc[s] = "loop"
  /\ GoTo(s, IF Phase \in {"warmup", "measure"} THEN "select" ELSE "close")
  /\ UNCHANGED <<every, clock, sent, tailMeasured, last, nth, inHand, answers, cause,
                 samples, queue, main, count, timeouts, wrong>>

\* The timer arm: a frame is counted as sent before the send is awaited.  Its
\* scheduled time may lie in the past, but only moves forward.
SendFrame(s) ==
  /\ pc[s] = "select" /\ sent[s] < MaxFrames
  /\ GoTo(s, "sending")
  /\ sent' = [sent EXCEPT ![s] = @ + 1]
  /\ \E scheduled \in IF Phase = "warmup" THEN {FALSE} ELSE {TRUE, tailMeasured[s]} :
       tailMeasured' = [tailMeasured EXCEPT ![s] = scheduled]
  /\ UNCHANGED <<every, clock, last, nth, inHand, answers, cause,
                 samples, queue, main, count, timeouts, wrong>>

\* The peer closes: a failure in the send loop, the normal end while closing,
\* with the check of the tail.
PeerCloses(s) ==
  /\ pc[s] \in Reading
  /\ IF pc[s] = "select"
       THEN Return(s, "io") /\ UNCHANGED <<count, wrong>>
       ELSE LET tail == IF tailMeasured[s] THEN CheckTail(sent[s], last[s]) ELSE {} IN
            /\ Return(s, "ok")
            /\ count' = Record(count, tail)
            /\ wrong' = wrong + Cardinality(tail)
  /\ UNCHANGED <<every, clock, samples, queue, main, timeouts>>

\* The close grace runs out.
CloseGrace(s) ==
  /\ pc[s] = "grace"
  /\ timeouts' = Add(timeouts, "close", 1)
  /\ Return(s, "close")
  /\ UNCHANGED <<every, clock, samples, queue, main, count, wrong>>
-----------------------------------------------------------------------------
(* process_inbound *)

Resume(s) == GoTo(s, IF pc[s] = "select" THEN "loop" ELSE "grace")

Answered(s) ==
  /\ pc[s] \in Reading /\ answers[s] < MaxAnswers
  /\ answers' = [answers EXCEPT ![s] = @ + 1]

\* A ping, a pong: nothing to check.
Ping(s) ==
  /\ pc[s] = "select"
  /\ Resume(s)
  /\ UNCHANGED <<every, clock, sent, tailMeasured, last, nth, inHand, answers, cause,
                 samples, queue, main, count, timeouts, wrong>>

\* A message that is no response at all, at any time.
Undecodable(s) ==
  /\ Answered(s)
  /\ Resume(s)
  /\ count' = Record(count, {"malformed_message"})
  /\ wrong' = wrong + 1
  /\ UNCHANGED <<every, clock, sent, tailMeasured, last, nth, inHand, cause,
                 samples, queue, main, timeouts>>

ErrorAnswer(s, r) ==
  LET gap == IF Measured THEN Gap(last[s], r.oldest, r.newest) ELSE {} IN
  /\ Answered(s)
  /\ Resume(s)
  /\ last' = [last EXCEPT ![s] = Advance(@, r.oldest, r.newest)]
  /\ count' = Record(Add(count, "inference", 1), gap)
  /\ wrong' = wrong + Cardinality(gap)
  /\ UNCHANGED <<every, clock, sent, tailMeasured, nth, inHand, cause,
                 samples, queue, main, timeouts>>

\* A partial: an invalid one is an error at any time, others only in the measured
\* window; one whose frames were all sent goes on to its sample.
PartialAnswer(s, p) ==
  LET gap == Gap(last[s], p.oldest, p.newest)
      inline == gap \cup Unsent(p, sent[s])
      timed == Valid(p) /\ Measured /\ Unsent(p, sent[s]) = {}
      report == IF ~Valid(p) THEN gap \cup {"invalid_partial"}
                ELSE IF Measured /\ ~timed THEN inline ELSE {}
      found == IF timed THEN inline \cup VerifyPartial(s, p) ELSE report
  IN
  /\ Answered(s)
  /\ last' = [last EXCEPT ![s] = Advance(@, p.oldest, p.newest)]
  /\ count' = Record(count, report)
  /\ wrong' = wrong + (IF found = {} THEN 0 ELSE 1)
  /\ IF timed
       THEN /\ GoTo(s, "sample")
            /\ inHand' = [inHand EXCEPT ![s] = [session |-> s, partial |-> p, inline |-> inline]]
       ELSE Resume(s) /\ UNCHANGED inHand
  /\ UNCHANGED <<every, clock, sent, tailMeasured, nth, cause, samples, queue, main, timeouts>>

\* A bug: a full queue loses the job without counting it.
DropSilently(c, job) == c

\* submit_verify when the queue is full: count the drop, keep the inline findings.
DropJob(c, job) == Record(Add(c, "dropped", 1), job.inline)

\* A bug: the verifier's queue has no bound.
SubmitUnbounded(job) == queue' = Append(queue, job) /\ UNCHANGED count

Submit(job) ==
  IF Len(queue) < QueueCapacity
    THEN queue' = Append(queue, job) /\ UNCHANGED count
    ELSE queue' = queue /\ count' = DropJob(count, job)

\* The sample channel has room: the sample goes out and, with no await in between,
\* every VerifyEvery-th measured partial is submitted to the verifier.
SampleSent(s) ==
  LET job == inHand[s]
      selected == every > 0 /\ nth[s] % every = 0
  IN
  /\ pc[s] = "sample" /\ samples < SampleCapacity /\ main = "collect"
  /\ samples' = samples + 1
  /\ GoTo(s, "loop")
  /\ inHand' = [inHand EXCEPT ![s] = NoJob]
  /\ nth' = [nth EXCEPT ![s] = IF every > 0 THEN @ + 1 ELSE @]
  /\ IF selected THEN Submit(job)
                 ELSE queue' = queue /\ count' = Record(count, job.inline)
  /\ UNCHANGED <<every, clock, sent, tailMeasured, last, answers, cause, main, timeouts, wrong>>
-----------------------------------------------------------------------------
(* The end of a session task. *)

\* The whole-session deadline drops run_session at an await that is not ready.
Elapse(s) ==
  /\ Phase = "late"
  /\ pc[s] \in Running \ {"loop"}
  /\ pc[s] = "sample" => samples = SampleCapacity
  /\ Return(s, "session")
  /\ UNCHANGED <<every, clock, samples, queue, main, count, timeouts, wrong>>

\* A bug: the counters of a deadline are bumped without the failure itself.
RecordTimeoutOnly(s) ==
  /\ pc[s] = "returned"
  /\ GoTo(s, "recorded")
  /\ count' = Add(count, "protocol", IF cause[s] \in {"ok", "session"} THEN 0 ELSE 1)
  /\ timeouts' = Add(timeouts, "session", IF cause[s] = "session" THEN 1 ELSE 0)
  /\ UNCHANGED <<every, clock, sent, tailMeasured, last, nth, inHand, answers, cause,
                 samples, queue, main, wrong>>

\* record_session_outcome, after run_session is gone and its senders with it.
RecordOutcome(s) ==
  /\ pc[s] = "returned"
  /\ GoTo(s, "recorded")
  /\ count' = Add(count, "protocol", IF cause[s] = "ok" THEN 0 ELSE 1)
  /\ timeouts' = Add(timeouts, "session", IF cause[s] = "session" THEN 1 ELSE 0)
  /\ UNCHANGED <<every, clock, sent, tailMeasured, last, nth, inHand, answers, cause,
                 samples, queue, main, wrong>>

Panic(s) ==
  /\ pc[s] \in Running
  /\ Leave(s, "panicked", "panic")
  /\ UNCHANGED <<every, clock, samples, queue, main, count, timeouts, wrong>>
-----------------------------------------------------------------------------
(* The verifier thread and main. *)

\* One job of the verifier thread: inline findings and recomputed values together.
VerifyOne ==
  /\ Alive /\ queue # <<>>
  /\ LET job == Head(queue) IN
       count' = Record(Add(count, "verified", 1),
                       job.inline \cup VerifyPartial(job.session, job.partial))
  /\ queue' = Tail(queue)
  /\ UNCHANGED <<every, clock, session, samples, main, timeouts, wrong>>

Collect ==
  /\ main = "collect" /\ samples > 0
  /\ samples' = samples - 1
  /\ count' = Add(count, "partials", 1)
  /\ UNCHANGED <<every, clock, session, queue, main, timeouts, wrong>>

\* The samples file cannot be created or written: main returns an error, without a
\* summary.
CsvFails ==
  /\ main = "collect"
  /\ main' = "failed"
  /\ UNCHANGED <<every, clock, session, samples, queue, count, timeouts, wrong>>

\* A bug: a panicked task keeps its sender.
CollectEndNoPanic ==
  /\ main = "collect" /\ samples = 0
  /\ \A s \in Session : pc[s] \in Ended \ {"panicked"}
  /\ main' = "join"
  /\ UNCHANGED <<every, clock, session, samples, queue, count, timeouts, wrong>>

\* sample_rx is closed: it is empty and every run_session has returned.
CollectEnd ==
  /\ main = "collect" /\ samples = 0
  /\ \A s \in Session : pc[s] \in Ended
  /\ main' = "join"
  /\ UNCHANGED <<every, clock, session, samples, queue, count, timeouts, wrong>>

\* A bug: main takes the closed channel for the end of the tasks.
JoinNothing ==
  /\ main = "join"
  /\ main' = "finish"
  /\ UNCHANGED <<every, clock, session, samples, queue, count, timeouts, wrong>>

\* Every task is awaited; a panicked one is a harness fault.
Join ==
  /\ main = "join"
  /\ \A s \in Session : pc[s] \in {"recorded", "panicked"}
  /\ main' = "finish"
  /\ count' = Add(count, "faults", Cardinality({s \in Session : pc[s] = "panicked"}))
  /\ UNCHANGED <<every, clock, session, samples, queue, timeouts, wrong>>

\* Verifier::finish waits for the queue to drain, then the summary is printed.
Finish ==
  /\ main = "finish" /\ queue = <<>>
  /\ main' = "done"
  /\ UNCHANGED <<every, clock, session, samples, queue, count, timeouts, wrong>>

Done == ~Alive /\ UNCHANGED vars
-----------------------------------------------------------------------------
\* What a gateway may answer: any range around the frames sent, computed from the
\* right audio or from other frames, or a partial that is not valid.
Ranges == {r \in [oldest : 0 .. MaxFrames + 1, newest : 0 .. MaxFrames + 1] :
             r.newest \in {r.oldest, r.oldest + 1}}

Partial(s, r, shift, sane) ==
  [oldest |-> r.oldest, newest |-> r.newest, config |-> TRUE, sane |-> sane,
   frames |-> r.newest - r.oldest + 1, bytes |-> r.newest - r.oldest + 1,
   audio |-> [conn |-> s, first |-> r.oldest + shift, last |-> r.newest + shift]]

TaskStep(s) ==
  /\ Alive
  /\ \/ Proceed(s) \/ TimedOut(s) \/ IoError(s) \/ LoopTop(s) \/ SendFrame(s)
     \/ PeerCloses(s) \/ CloseGrace(s) \/ Ping(s) \/ Undecodable(s)
     \/ \E r \in Ranges :
          \/ ErrorAnswer(s, r)
          \/ \E shift \in {0, 1}, sane \in BOOLEAN :
               PartialAnswer(s, Partial(s, r, shift, sane))
     \/ SampleSent(s) \/ Elapse(s) \/ RecordOutcome(s) \/ Panic(s)

MainStep == Collect \/ CsvFails \/ CollectEnd \/ Join \/ Finish

Next == Tick \/ (\E s \in Session : TaskStep(s)) \/ VerifyOne \/ MainStep \/ Done

Spec == Init /\ [][Next]_vars

\* Time passes; the runtime polls the tasks and main, the OS runs the verifier.
Fairness ==
  /\ WF_vars(Tick)
  /\ \A s \in Session : /\ WF_vars(Alive /\ Elapse(s))
                        /\ WF_vars(Alive /\ SampleSent(s))
                        /\ WF_vars(Alive /\ LoopTop(s))
                        /\ WF_vars(Alive /\ RecordOutcome(s))
  /\ WF_vars(VerifyOne)
  /\ WF_vars(Collect) /\ WF_vars(CollectEnd) /\ WF_vars(Join) /\ WF_vars(Finish)

FairSpec == Spec /\ Fairness
-----------------------------------------------------------------------------
Total == LET t == timeouts IN t["connect"] + t["send"] + t["close"] + t["session"]

\* count_errors: the timeouts are part of the failed sessions.
CountErrors == Larger(count["protocol"], Total) + count["inference"]

\* verification_incomplete
VerificationIncomplete == count["dropped"] > 0 \/ count["verified"] # count["partials"]

\* The verdict PASS of eval_slo, as far as it rests on these counters.
Pass ==
  /\ main = "done"
  /\ count["faults"] = 0
  /\ CountErrors <= ErrorBudget
  /\ count["partials"] > 0
  /\ count["errors"] = 0
  /\ ~VerificationIncomplete
-----------------------------------------------------------------------------
\* The variables stay in their types and the two channels within their capacities.
TypeOK ==
  /\ clock \in 1 .. Len(Phases)
  /\ pc \in [Session -> Running \cup Ended]
  /\ sent \in [Session -> 0 .. MaxFrames]
  /\ tailMeasured \in [Session -> BOOLEAN]
  /\ last \in [Session -> 0 .. MaxFrames + 2]
  /\ nth \in [Session -> 0 .. MaxAnswers]
  /\ \A s \in Session : (inHand[s] = NoJob) = (pc[s] # "sample")
  /\ answers \in [Session -> 0 .. MaxAnswers]
  /\ samples \in 0 .. SampleCapacity
  /\ Len(queue) <= QueueCapacity
  /\ main \in {"collect", "join", "finish", "done", "failed"}
  /\ count \in [Counter -> Nat]
  /\ timeouts \in [TimeoutKind -> Nat]
  /\ cause \in [Session -> {"none", "ok", "io", "panic"} \cup TimeoutKind]

EndedBy(why) == Cardinality({s \in Session : cause[s] \in why})

\* In the summary, protocol_errors is the number of failed sessions, each timeout
\* counter the number of sessions that timeout ended, and harness_faults the number
\* of panicked tasks: nothing is read before every task has recorded its outcome.
FailuresCounted ==
  main = "done" =>
    /\ count["protocol"] = EndedBy({"io"} \cup TimeoutKind)
    /\ \A k \in TimeoutKind : timeouts[k] = EndedBy({k})
    /\ count["faults"] = EndedBy({"panic"})

\* With every partial selected, each sample main collected belongs to a partial that
\* was verified or counted as dropped: the equality verification_incomplete rests on.
PartialsAccounted ==
  main = "done" /\ every = 1 => count["partials"] = count["verified"] + count["dropped"]

\* A wrong response is recorded at most once, by the session or by the verifier.
RecordedOnce == count["errors"] <= wrong

\* A run that passes saw no wrong response in any session, of those the code means to
\* check (partials of the measured window that are verified, error frames and tails of
\* sessions that end well, anything malformed), whichever interleaving of deadlines,
\* full queues, panics and the verifier led to its summary.
PassMeansCorrect == Pass => wrong = 0

\* The run ends: the tasks, the sample channel, the verifier and main's joins never
\* wait for each other for ever.
RunEnds == <>(main \in {"done", "failed"})
=============================================================================
