---------------------------- MODULE LoadgenProofs ---------------------------
(***************************************************************************)
(* What the load generator's summary says, for any number of sessions,     *)
(* any capacities and any --verify-every: it is exact about the failures,  *)
(* it accounts for every partial, it counts no wrong response twice, and a *)
(* PASS without an error budget means that there was none.                 *)
(*                                                                         *)
(* The counters are sums over what the tasks, the two channels and the     *)
(* verifier still hold, so the invariant says where everything that is not *)
(* in a counter yet is: Tally for the sessions, Accounted for the          *)
(* partials, Balance for the wrong responses.                              *)
(***************************************************************************)
EXTENDS Loadgen, FiniteSetTheorems, TLAPS

\* More than the provers' default time, for slow machines.
USE SMTT(30)

\* A response of which a client that checks it in full finds something wrong.
Bad(job) == job.inline \cup VerifyPartial(job.session, job.partial) # {}

\* Wrong responses on their way to a counter: in the hands of a session, in the queue.
BadHands == {s \in Session : pc[s] = "sample" /\ Bad(inHand[s])}
BadIn(q) == {i \in 1 .. Len(q) : Bad(q[i])}

\* Sessions that may have taken a wrong response with them, and the samples sent or
\* collected whose partial was not verified.
Lost == {s \in Session : cause[s] \in {"session", "panic"}}
Unverified == samples + count["partials"] - count["verified"] - Len(queue)

Types ==
  /\ TypeOK
  /\ every \in Nat
  /\ wrong \in Nat
  /\ inHand \in [Session -> VerifyJob \cup {NoJob}]
  /\ queue \in Seq(VerifyJob)
  /\ \A s \in Session : nth[s] + (IF pc[s] = "sample" THEN 1 ELSE 0) <= answers[s]

\* A session has a cause once it has ended; main's stages follow the tasks' ends.
Stages ==
  /\ \A s \in Session : /\ pc[s] \in Running <=> cause[s] = "none"
                        /\ pc[s] = "panicked" <=> cause[s] = "panic"
  /\ main \in {"join", "finish", "done"} => samples = 0 /\ \A s \in Session : pc[s] \in Ended
  /\ main \in {"finish", "done"} => \A s \in Session : pc[s] \in {"recorded", "panicked"}
  /\ main = "done" => queue = <<>>

\* The failure counters while tasks are still to record their outcome.
RecordedAs(why) == {s \in Session : pc[s] = "recorded" /\ cause[s] \in why}

Tally ==
  /\ count["protocol"] = Cardinality(RecordedAs({"io"} \cup TimeoutKind))
  /\ \A k \in {"connect", "send", "close"} : timeouts[k] = EndedBy({k})
  /\ timeouts["session"] = Cardinality(RecordedAs({"session"}))
  /\ main \in {"collect", "join"} => count["faults"] = 0
  /\ main \in {"finish", "done"} => count["faults"] = EndedBy({"panic"})

\* With every partial selected, what was sampled is queued, verified or dropped.
Accounted ==
  every = 1 => samples + count["partials"] = count["verified"] + Len(queue) + count["dropped"]

\* A wrong response is recorded, on its way, unverified, or lost with its session.
Balance ==
  /\ count["errors"] + Cardinality(BadHands) + Cardinality(BadIn(queue)) <= wrong
  /\ wrong <= count["errors"] + Cardinality(BadHands) + Cardinality(BadIn(queue))
              + Unverified + Cardinality(Lost)

LoadInv == Types /\ Stages /\ Tally /\ Accounted /\ Balance
-----------------------------------------------------------------------------
(* The operators of the model. *)

\* Add changes one counter.
LEMMA AddView ==
  ASSUME NEW K, NEW c \in [K -> Nat], NEW k \in K, NEW n \in Nat
  PROVE  /\ Add(c, k, n) \in [K -> Nat]
         /\ Add(c, k, n)[k] = c[k] + n
         /\ \A j \in K \ {k} : Add(c, k, n)[j] = c[j]
BY DEF Add

\* One response adds at most one to the errors.
LEMMA RecordView ==
  ASSUME NEW c \in [Counter -> Nat], NEW m
  PROVE  /\ Record(c, m) \in [Counter -> Nat]
         /\ Record(c, m)["errors"] = c["errors"] + (IF m = {} THEN 0 ELSE 1)
         /\ \A j \in Counter \ {"errors"} : Record(c, m)[j] = c[j]
<1>1. CASE m = {}
  BY <1>1 DEF Record, Counter
<1>2. CASE m # {}
  <2>1. "errors" \in Counter /\ 1 \in Nat
    BY DEF Counter
  <2>2. Record(c, m) = Add(c, "errors", 1)
    BY <1>2 DEF Record
  <2> QED
    BY <1>2, <2>1, <2>2, AddView
<1> QED
  BY <1>1, <1>2

\* observe finds at most one thing wrong with a range, and so does check_tail.
LEMMA GapView ==
  ASSUME NEW l \in Nat, NEW o \in Nat, NEW n \in Nat
  PROVE  \/ Gap(l, o, n) = {}
         \/ \E k \in {"invalid_range", "continuity_gap", "continuity_overlap"} : Gap(l, o, n) = {k}
<1>1. CASE Malformed(o, n)
  BY <1>1 DEF Gap
<1>2. CASE ~Malformed(o, n) /\ o > l + 1
  BY <1>2 DEF Gap
<1>3. CASE ~Malformed(o, n) /\ ~(o > l + 1) /\ o < l + 1
  BY <1>3 DEF Gap
<1>4. CASE ~Malformed(o, n) /\ ~(o > l + 1) /\ ~(o < l + 1)
  BY <1>4 DEF Gap
<1> QED
  BY <1>1, <1>2, <1>3, <1>4

\* A range is reported for one reason at most, and so is a tail.
LEMMA GapCount ==
  ASSUME NEW l \in Nat, NEW o \in Nat, NEW n \in Nat
  PROVE  Cardinality(Gap(l, o, n)) = IF Gap(l, o, n) = {} THEN 0 ELSE 1
<1>1. CASE Gap(l, o, n) = {}
  BY <1>1, FS_EmptySet
<1>2. CASE \E k : Gap(l, o, n) = {k}
  <2>1. PICK k : Gap(l, o, n) = {k}
    BY <1>2
  <2>2. Cardinality({k}) = 1 /\ {k} # {}
    BY FS_Singleton, Zenon
  <2> QED
    BY <2>1, <2>2
<1> QED
  BY <1>1, <1>2, GapView, Zenon

LEMMA TailCount ==
  ASSUME NEW a, NEW b
  PROVE  Cardinality(CheckTail(a, b)) = IF CheckTail(a, b) = {} THEN 0 ELSE 1
BY FS_EmptySet, FS_Singleton DEF CheckTail, When

\* The tracker stays a frame number.
LEMMA AdvanceView ==
  ASSUME NEW l \in 0 .. MaxFrames + 2, NEW r \in Ranges
  PROVE  Advance(l, r.oldest, r.newest) \in 0 .. MaxFrames + 2
BY LoadgenAssumption DEF Advance, Larger, Ranges

-----------------------------------------------------------------------------
(* Counting sessions and jobs. *)

\* Sets of sessions can be counted.
LEMMA SessionSets == \A S \in SUBSET Session : IsFiniteSet(S) /\ Cardinality(S) \in Nat
BY LoadgenAssumption, FS_Subset, FS_CardinalityType

\* Cardinalities move by one with an element that is new, or that leaves.
LEMMA OneMore ==
  ASSUME NEW S, IsFiniteSet(S), NEW x, x \notin S
  PROVE  Cardinality(S \cup {x}) = Cardinality(S) + 1
BY FS_AddElement

LEMMA OneLess ==
  ASSUME NEW S, IsFiniteSet(S), NEW x \in S
  PROVE  Cardinality(S \ {x}) = Cardinality(S) - 1
BY FS_RemoveElement

\* The wrong responses in the queue: their number, and how Submit and VerifyOne change it.
LEMMA BadInFinite ==
  ASSUME NEW q \in Seq(VerifyJob) PROVE IsFiniteSet(BadIn(q)) /\ Cardinality(BadIn(q)) \in Nat
<1>1. IsFiniteSet(1 .. Len(q)) /\ BadIn(q) \in SUBSET (1 .. Len(q))
  BY FS_Interval DEF BadIn
<1> QED
  BY <1>1, FS_Subset, FS_CardinalityType

LEMMA BadAppend ==
  ASSUME NEW q \in Seq(VerifyJob), NEW job \in VerifyJob
  PROVE  Cardinality(BadIn(Append(q, job))) =
           Cardinality(BadIn(q)) + (IF Bad(job) THEN 1 ELSE 0)
<1> DEFINE n == Len(q) + 1
<1>1. /\ n \notin BadIn(q)
      /\ Len(Append(q, job)) = n /\ Append(q, job)[n] = job
      /\ \A i \in 1 .. Len(q) : Append(q, job)[i] = q[i]
      /\ 1 .. n = (1 .. Len(q)) \cup {n}
  BY DEF BadIn
<1>2. BadIn(Append(q, job)) = IF Bad(job) THEN BadIn(q) \cup {n} ELSE BadIn(q)
  BY <1>1 DEF BadIn
<1> QED
  BY <1>1, <1>2, BadInFinite, OneMore

LEMMA BadTail ==
  ASSUME NEW q \in Seq(VerifyJob), q # <<>>
  PROVE  Cardinality(BadIn(q)) = Cardinality(BadIn(Tail(q))) + (IF Bad(Head(q)) THEN 1 ELSE 0)
<1> DEFINE Rest == BadIn(q) \ {1}
           f == [i \in Rest |-> i - 1]
<1>1. /\ Len(q) \in Nat \ {0} /\ Len(Tail(q)) = Len(q) - 1 /\ Head(q) = q[1]
      /\ \A i \in 1 .. Len(q) - 1 : Tail(q)[i] = q[i + 1]
      /\ Tail(q) \in Seq(VerifyJob)
  OBVIOUS
<1>2. \A i \in Rest : i \in 2 .. Len(q) /\ Bad(q[i]) /\ i - 1 \in 1 .. Len(Tail(q))
                      /\ Tail(q)[i - 1] = q[i]
  BY <1>1 DEF BadIn
<1>3. \A j \in BadIn(Tail(q)) : j + 1 \in Rest /\ (j + 1) - 1 = j
  BY <1>1 DEF BadIn
<1>4. f \in Bijection(Rest, BadIn(Tail(q)))
  <2>1. f \in [Rest -> BadIn(Tail(q))]
    BY <1>2 DEF BadIn
  <2>2. \A i, j \in Rest : f[i] = f[j] => i = j
    BY <1>2
  <2>3. \A j \in BadIn(Tail(q)) : \E i \in Rest : f[i] = j
    BY <1>3
  <2> QED
    BY <2>1, <2>2, <2>3 DEF Bijection, Injection, Surjection, IsInjective
<1>5. IsFiniteSet(BadIn(q)) /\ Cardinality(BadIn(q)) \in Nat
  BY BadInFinite
<1>6. IsFiniteSet(Rest) /\ Cardinality(Rest) = IF 1 \in BadIn(q) THEN Cardinality(BadIn(q)) - 1
                                                                  ELSE Cardinality(BadIn(q))
  BY <1>5, FS_RemoveElement, Zenon
<1>7. ExistsBijection(Rest, BadIn(Tail(q)))
  BY <1>4, Zenon DEF ExistsBijection
<1>8. Cardinality(BadIn(Tail(q))) = Cardinality(Rest)
  BY <1>6, <1>7, FS_Bijection
<1>9. 1 \in BadIn(q) <=> Bad(Head(q))
  BY <1>1 DEF BadIn
<1> QED
  BY <1>5, <1>6, <1>8, <1>9
-----------------------------------------------------------------------------
(* What the steps do. *)

\* A response is judged on the spot: it is wrong or not, and recorded or not.
Judged ==
  /\ count' \in [Counter -> Nat]
  /\ \A j \in Counter \ {"errors", "inference"} : count'[j] = count[j]
  /\ \E n \in {0, 1} : count'["errors"] = count["errors"] + n /\ wrong' = wrong + n

\* Session s goes on and no session ends.
GoesOn(s) ==
  /\ pc[s] \in Running
  /\ \E to \in Running : pc' = [pc EXCEPT ![s] = to]
  /\ cause' = cause /\ timeouts' = timeouts /\ main' = main /\ every' = every

\* Session s goes on, with nothing in its hands before and after.
EmptyHanded(s) == GoesOn(s) /\ pc[s] # "sample" /\ pc'[s] # "sample" /\ inHand' = inHand

\* Session s comes to hold a partial.
Holds(s, job) ==
  /\ GoesOn(s) /\ pc[s] # "sample" /\ pc'[s] = "sample"
  /\ inHand' = [inHand EXCEPT ![s] = job]
  /\ count' = count /\ wrong' = wrong + (IF Bad(job) THEN 1 ELSE 0)

\* A response that is recorded at once adds the same to errors and to wrong.
LEMMA JudgedView ==
  ASSUME Types, NEW m, count' = Record(count, m), wrong' = wrong + (IF m = {} THEN 0 ELSE 1)
  PROVE  Judged
<1>0. count \in [Counter -> Nat]
  BY DEF Types, TypeOK
<1>1. /\ count' \in [Counter -> Nat]
      /\ count'["errors"] = count["errors"] + (IF m = {} THEN 0 ELSE 1)
      /\ \A j \in Counter \ {"errors"} : count'[j] = count[j]
  BY <1>0, RecordView
<1> QED
  BY <1>1 DEF Judged

\* A partial is recorded at once, or kept in hand until its sample has been sent.
LEMMA PartialView ==
  ASSUME Types, NEW s \in Session, NEW r \in Ranges, NEW shift \in {0, 1}, NEW sane \in BOOLEAN,
         PartialAnswer(s, Partial(s, r, shift, sane))
  PROVE  /\ Answered(s)
         /\ last' = [last EXCEPT ![s] = Advance(@, r.oldest, r.newest)]
         /\ UNCHANGED <<every, clock, sent, tailMeasured, nth, cause, samples, queue, main, timeouts>>
         /\ (Judged /\ EmptyHanded(s)) \/ (\E job \in VerifyJob : Holds(s, job))
<1> DEFINE p == Partial(s, r, shift, sane)
           gap == Gap(last[s], p.oldest, p.newest)
           inline == gap \cup Unsent(p, sent[s])
           timed == Valid(p) /\ Measured /\ Unsent(p, sent[s]) = {}
           report == IF ~Valid(p) THEN gap \cup {"invalid_partial"}
                     ELSE IF Measured /\ ~timed THEN inline ELSE {}
           found == IF timed THEN inline \cup VerifyPartial(s, p) ELSE report
           job == [session |-> s, partial |-> p, inline |-> inline]
<1>1. /\ Answered(s)
      /\ last' = [last EXCEPT ![s] = Advance(@, p.oldest, p.newest)]
      /\ count' = Record(count, report)
      /\ wrong' = wrong + (IF found = {} THEN 0 ELSE 1)
      /\ IF timed
           THEN GoTo(s, "sample") /\ inHand' = [inHand EXCEPT ![s] = job]
           ELSE Resume(s) /\ UNCHANGED inHand
      /\ UNCHANGED <<every, clock, sent, tailMeasured, nth, cause, samples, queue, main, timeouts>>
  BY Zenon DEF PartialAnswer
<1>2. /\ p.oldest = r.oldest /\ p.newest = r.newest /\ r.oldest \in Nat /\ r.newest \in Nat
      /\ p \in [oldest : Nat, newest : Nat, config : BOOLEAN, sane : BOOLEAN,
                frames : Int, bytes : Int, audio : [conn : Session, first : Nat, last : Nat]]
  BY LoadgenAssumption DEF Partial, Ranges
<1>3. pc[s] \in Reading
  BY <1>1 DEF Answered
<1>4. last[s] \in Nat /\ sent[s] \in Nat
  BY LoadgenAssumption DEF Types, TypeOK
<1>5. inline \in SUBSET {"invalid_range", "continuity_gap", "continuity_overlap", "unsent_frame"}
  BY <1>2, <1>4, GapView DEF Unsent, When
<1>6. job \in VerifyJob
  BY <1>2, <1>5 DEF VerifyJob
<1>7. Bad(job) <=> inline \cup VerifyPartial(s, p) # {}
  BY DEF Bad
<1> HIDE DEF p, gap, inline, timed, report, found, job
<1>8. CASE timed
  <2>1. report = {} /\ found = inline \cup VerifyPartial(s, p)
    BY <1>8 DEF report, found, timed
  <2>2. count' = count
    BY <1>1, <2>1 DEF Record
  <2>3. pc' = [pc EXCEPT ![s] = "sample"] /\ inHand' = [inHand EXCEPT ![s] = job]
    BY <1>1, <1>8 DEF GoTo
  <2>4. GoesOn(s) /\ pc[s] # "sample" /\ pc'[s] = "sample"
    BY <1>1, <1>3, <2>3, Zenon DEF GoesOn, Running, Reading, Types, TypeOK
  <2>5. wrong' = wrong + (IF Bad(job) THEN 1 ELSE 0)
    BY <1>1, <1>7, <2>1
  <2>6. Holds(s, job)
    BY <2>2, <2>3, <2>4, <2>5 DEF Holds
  <2> QED
    BY <1>1, <1>2, <1>6, <2>6
<1>9. CASE ~timed
  <2>1. found = report
    BY <1>9 DEF found
  <2>2. Judged
    BY <1>1, <2>1, JudgedView
  <2>3. pc' = [pc EXCEPT ![s] = IF pc[s] = "select" THEN "loop" ELSE "grace"] /\ inHand' = inHand
    BY <1>1, <1>9 DEF Resume, GoTo
  <2>4. EmptyHanded(s)
    BY <1>1, <1>3, <2>3, Zenon DEF EmptyHanded, GoesOn, Running, Reading, Types, TypeOK
  <2> QED
    BY <1>1, <1>2, <2>2, <2>4
<1> QED
  BY <1>8, <1>9

\* An error frame is recorded at once.
LEMMA ErrorView ==
  ASSUME Types, NEW s \in Session, NEW r \in Ranges, ErrorAnswer(s, r)
  PROVE  /\ Judged /\ EmptyHanded(s) /\ Answered(s)
         /\ last' = [last EXCEPT ![s] = Advance(@, r.oldest, r.newest)]
         /\ UNCHANGED <<every, clock, sent, tailMeasured, nth, cause, samples, queue, main, timeouts>>
<1> DEFINE gap == IF Measured THEN Gap(last[s], r.oldest, r.newest) ELSE {}
<1>1. /\ Answered(s) /\ Resume(s)
      /\ last' = [last EXCEPT ![s] = Advance(@, r.oldest, r.newest)]
      /\ count' = Record(Add(count, "inference", 1), gap)
      /\ wrong' = wrong + Cardinality(gap)
      /\ UNCHANGED <<every, clock, sent, tailMeasured, nth, inHand, cause, samples, queue, main, timeouts>>
  BY Zenon DEF ErrorAnswer
<1>2. Cardinality(gap) = IF gap = {} THEN 0 ELSE 1
  BY LoadgenAssumption, GapCount, FS_EmptySet DEF Types, TypeOK, Ranges
<1>3. /\ Add(count, "inference", 1) \in [Counter -> Nat]
      /\ \A j \in Counter \ {"inference"} : Add(count, "inference", 1)[j] = count[j]
  BY DEF Types, TypeOK, Counter, Add
<1> HIDE DEF gap
<1>4. /\ count' \in [Counter -> Nat]
      /\ \A j \in Counter \ {"errors", "inference"} : count'[j] = count[j]
      /\ count'["errors"] = count["errors"] + (IF gap = {} THEN 0 ELSE 1)
  BY <1>1, <1>3, RecordView DEF Counter
<1>5. Judged
  BY <1>1, <1>2, <1>4 DEF Judged
<1>6. EmptyHanded(s)
  BY <1>1, Zenon DEF EmptyHanded, GoesOn, Resume, GoTo, Answered, Running, Reading, Types, TypeOK
<1> QED
  BY <1>1, <1>5, <1>6

\* So is a response that cannot be decoded.
LEMMA UndecodableView ==
  ASSUME Types, NEW s \in Session, Undecodable(s)
  PROVE  /\ Judged /\ EmptyHanded(s) /\ Answered(s)
         /\ UNCHANGED <<every, clock, sent, tailMeasured, last, nth, cause, samples, queue, main, timeouts>>
<1>1. {"malformed_message"} # {}
  OBVIOUS
<1>2. Judged
  BY <1>1, JudgedView DEF Undecodable
<1> QED
  BY <1>2, Zenon DEF Undecodable, EmptyHanded, GoesOn, Resume, GoTo, Answered, Running, Reading, Types, TypeOK

\* The steps of a session that only move it.
LEMMA MoveView ==
  ASSUME Types, NEW s \in Session, Proceed(s) \/ LoopTop(s) \/ SendFrame(s) \/ Ping(s)
  PROVE  /\ EmptyHanded(s) /\ sent' \in [Session -> 0 .. MaxFrames]
         /\ tailMeasured' \in [Session -> BOOLEAN]
         /\ UNCHANGED <<every, clock, last, nth, inHand, answers, cause, samples, queue, main,
                        count, timeouts, wrong>>
<1>1. CASE Proceed(s)
  <2>1. /\ pc[s] \in {"asleep", "connect", "start", "sending", "close"}
        /\ Advances[pc[s]] \in {"connect", "start", "loop", "grace"}
    BY <1>1 DEF Proceed, Advances
  <2>2. PICK to \in {"connect", "start", "loop", "grace"} : pc' = [pc EXCEPT ![s] = to]
    BY <1>1, <2>1, Zenon DEF Proceed, GoTo
  <2> QED
    BY <1>1, <2>1, <2>2, Zenon DEF Proceed, EmptyHanded, GoesOn, Running, Sending, Reading, Types, TypeOK
<1>2. CASE LoopTop(s)
  BY <1>2, Zenon DEF LoopTop, EmptyHanded, GoesOn, GoTo, Running, Sending, Reading, Types, TypeOK
<1>3. CASE SendFrame(s)
  <2>1. PICK scheduled \in BOOLEAN : tailMeasured' = [tailMeasured EXCEPT ![s] = scheduled]
    <3>1. tailMeasured[s] \in BOOLEAN
      BY DEF Types, TypeOK
    <3> QED
      BY <1>3, <3>1, Zenon DEF SendFrame
  <2>2. tailMeasured' \in [Session -> BOOLEAN]
    BY <2>1, Zenon DEF Types, TypeOK
  <2>3. sent' \in [Session -> 0 .. MaxFrames]
    BY <1>3, LoadgenAssumption DEF SendFrame, Types, TypeOK
  <2> QED
    BY <1>3, <2>2, <2>3
       DEF SendFrame, EmptyHanded, GoesOn, GoTo, Running, Sending, Reading, Types, TypeOK
<1>4. CASE Ping(s)
  BY <1>4 DEF Ping, Resume, EmptyHanded, GoesOn, GoTo, Running, Sending, Reading, Types, TypeOK
<1> QED
  BY <1>1, <1>2, <1>3, <1>4
\* The three ways of a partial whose sample has been sent.
Queued(job) == Len(queue) < QueueCapacity /\ queue' = Append(queue, job) /\ count' = count

Dropped(job) ==
  /\ queue' = queue
  /\ count' \in [Counter -> Nat]
  /\ count'["dropped"] = count["dropped"] + 1
  /\ count'["errors"] = count["errors"] + (IF job.inline = {} THEN 0 ELSE 1)
  /\ \A j \in Counter \ {"errors", "dropped"} : count'[j] = count[j]

Skipped(job) ==
  /\ every # 1
  /\ queue' = queue
  /\ count' \in [Counter -> Nat]
  /\ count'["errors"] = count["errors"] + (IF job.inline = {} THEN 0 ELSE 1)
  /\ \A j \in Counter \ {"errors"} : count'[j] = count[j]

\* The sample has been sent: the partial in hand is queued, dropped or not selected.
LEMMA SampleView ==
  ASSUME Types, NEW s \in Session, SampleSent(s)
  PROVE  /\ GoesOn(s) /\ pc[s] = "sample" /\ pc'[s] = "loop" /\ inHand[s] \in VerifyJob
         /\ inHand' = [inHand EXCEPT ![s] = NoJob]
         /\ samples < SampleCapacity /\ main = "collect" /\ samples' = samples + 1
         /\ nth' = [nth EXCEPT ![s] = IF every > 0 THEN @ + 1 ELSE @]
         /\ UNCHANGED <<every, clock, sent, tailMeasured, last, answers, cause, main, timeouts, wrong>>
         /\ Queued(inHand[s]) \/ Dropped(inHand[s]) \/ Skipped(inHand[s])
<1> DEFINE job == inHand[s]
           selected == every > 0 /\ nth[s] % every = 0
<1>1. /\ pc[s] = "sample" /\ samples < SampleCapacity /\ main = "collect"
      /\ samples' = samples + 1
      /\ GoTo(s, "loop")
      /\ inHand' = [inHand EXCEPT ![s] = NoJob]
      /\ nth' = [nth EXCEPT ![s] = IF every > 0 THEN @ + 1 ELSE @]
      /\ IF selected THEN Submit(job) ELSE queue' = queue /\ count' = Record(count, job.inline)
      /\ UNCHANGED <<every, clock, sent, tailMeasured, last, answers, cause, main, timeouts, wrong>>
  BY Zenon DEF SampleSent
<1>2. GoesOn(s) /\ pc'[s] = "loop"
  BY <1>1, Zenon DEF GoesOn, GoTo, Running, Types, TypeOK
<1>3. job \in VerifyJob
  BY <1>1 DEF Types, TypeOK
<1>4. count \in [Counter -> Nat] /\ every \in Nat /\ nth[s] \in Nat
  BY LoadgenAssumption DEF Types, TypeOK
<1>5. every = 1 => selected
  BY <1>4
<1> HIDE DEF job, selected
<1>6. CASE selected /\ Len(queue) < QueueCapacity
  BY <1>1, <1>2, <1>3, <1>6 DEF Queued, Submit, job
<1>7. CASE selected /\ ~(Len(queue) < QueueCapacity)
  <2>1. queue' = queue /\ count' = Record(Add(count, "dropped", 1), job.inline)
    BY <1>1, <1>7 DEF Submit, DropJob
  <2>2. /\ Add(count, "dropped", 1) \in [Counter -> Nat]
        /\ Add(count, "dropped", 1)["dropped"] = count["dropped"] + 1
        /\ \A j \in Counter \ {"dropped"} : Add(count, "dropped", 1)[j] = count[j]
    BY <1>4 DEF Add, Counter
  <2>3. Dropped(job)
    BY <2>1, <2>2, RecordView DEF Dropped, Counter
  <2> QED
    BY <1>1, <1>2, <1>3, <2>3 DEF job
<1>8. CASE ~selected
  <2>1. every # 1 /\ queue' = queue /\ count' = Record(count, job.inline)
    BY <1>1, <1>5, <1>8
  <2>2. Skipped(job)
    BY <1>4, <2>1, RecordView DEF Skipped
  <2> QED
    BY <1>1, <1>2, <1>3, <2>2 DEF job
<1> QED
  BY <1>6, <1>7, <1>8

\* Session s ends as why says; sample: it may have had a partial in its hands.
Leaves(s, to, why) ==
  /\ pc[s] \in Running /\ Leave(s, to, why)
  /\ pc[s] = "sample" => why \in {"session", "panic"}
  /\ UNCHANGED <<every, clock, samples, queue, main>>

\* The ends of a session by what they count.
LEMMA EndView ==
  ASSUME Types, NEW s \in Session,
         TimedOut(s) \/ IoError(s) \/ PeerCloses(s) \/ CloseGrace(s) \/ Elapse(s) \/ Panic(s)
  PROVE  \/ \E k \in {"connect", "send", "close"} :
              /\ Leaves(s, "returned", k) /\ timeouts' = Add(timeouts, k, 1)
              /\ UNCHANGED <<count, wrong>>
         \/ /\ \E k \in {"ok", "io", "session"} : Leaves(s, "returned", k)
            /\ timeouts' = timeouts /\ Judged
         \/ /\ Leaves(s, "panicked", "panic")
            /\ UNCHANGED <<timeouts, count, wrong>>
<1>0. count \in [Counter -> Nat] /\ wrong \in Nat
  BY DEF Types, TypeOK
<1>1. UNCHANGED <<count, wrong>> => Judged
  BY <1>0 DEF Judged, Counter
<1>2. CASE TimedOut(s)
  <2>1. PICK k \in {"connect", "send"} : timeouts' = Add(timeouts, k, 1) /\ Return(s, k)
    BY <1>2 DEF TimedOut
  <2>2. Leaves(s, "returned", k) /\ UNCHANGED <<count, wrong>>
    BY <1>2, <2>1 DEF TimedOut, Return, Leaves, Running, Sending
  <2> QED
    BY <2>1, <2>2
<1>3. CASE IoError(s)
  <2>1. Leaves(s, "returned", "io") /\ UNCHANGED <<count, wrong, timeouts>>
    BY <1>3 DEF IoError, Return, Leaves, Running, Sending, Reading
  <2> QED
    BY <1>1, <2>1
<1>4. CASE PeerCloses(s)
  <2>1. CASE pc[s] = "select"
    <3>1. Leaves(s, "returned", "io") /\ UNCHANGED <<count, wrong, timeouts>>
      BY <1>4, <2>1 DEF PeerCloses, Return, Leaves, Running, Sending, Reading
    <3> QED
      BY <1>1, <3>1
  <2>2. CASE pc[s] # "select"
    <3> DEFINE tail == IF tailMeasured[s] THEN CheckTail(sent[s], last[s]) ELSE {}
    <3>1. /\ Return(s, "ok") /\ count' = Record(count, tail) /\ wrong' = wrong + Cardinality(tail)
          /\ UNCHANGED <<every, clock, samples, queue, main, timeouts>> /\ pc[s] \in Reading
      BY <1>4, <2>2, Zenon DEF PeerCloses
    <3>2. Cardinality(tail) = IF tail = {} THEN 0 ELSE 1
      BY TailCount, FS_EmptySet
    <3> HIDE DEF tail
    <3>3. Judged
      BY <3>1, <3>2, JudgedView
    <3>4. Leaves(s, "returned", "ok")
      BY <3>1 DEF Return, Leaves, Running, Reading
    <3> QED
      BY <3>1, <3>3, <3>4
  <2> QED
    BY <2>1, <2>2
<1>5. CASE CloseGrace(s)
  <2>1. Leaves(s, "returned", "close") /\ UNCHANGED <<count, wrong>>
    BY <1>5 DEF CloseGrace, Return, Leaves, Running, Reading
  <2> QED
    BY <1>5, <2>1 DEF CloseGrace
<1>6. CASE Elapse(s)
  <2>1. Leaves(s, "returned", "session") /\ UNCHANGED <<count, wrong, timeouts>>
    BY <1>6 DEF Elapse, Return, Leaves
  <2> QED
    BY <1>1, <2>1
<1>7. CASE Panic(s)
  BY <1>7 DEF Panic, Leaves
<1> QED
  BY <1>2, <1>3, <1>4, <1>5, <1>6, <1>7

\* The step of a task is one of these.
LEMMA TaskView ==
  ASSUME NEW s \in Session, TaskStep(s)
  PROVE  /\ main \notin {"done", "failed"}
         /\ \/ Proceed(s) \/ LoopTop(s) \/ SendFrame(s) \/ Ping(s)
            \/ Undecodable(s)
            \/ \E r \in Ranges : ErrorAnswer(s, r)
            \/ \E r \in Ranges, shift \in {0, 1}, sane \in BOOLEAN :
                 PartialAnswer(s, Partial(s, r, shift, sane))
            \/ SampleSent(s)
            \/ TimedOut(s) \/ IoError(s) \/ PeerCloses(s) \/ CloseGrace(s) \/ Elapse(s) \/ Panic(s)
            \/ RecordOutcome(s)
BY Zenon DEF TaskStep, Alive
-----------------------------------------------------------------------------
(* Types. *)

\* Types holds in every state.
LEMMA InitTypes == Init => Types
BY LoadgenAssumption
   DEF Init, Types, TypeOK, Phases, Running, Counter, TimeoutKind

LEMMA TypesStep == Types /\ [Next]_vars => Types'
<1> SUFFICES ASSUME Types, [Next]_vars PROVE Types'
  OBVIOUS
<1> USE LoadgenAssumption
<1>1. CASE UNCHANGED vars \/ Done
  BY <1>1, ZenonT(60) DEF Done, vars, session, Types, TypeOK
<1>2. CASE Tick
  BY <1>2 DEF Tick, session, Types, TypeOK
<1>3. ASSUME NEW s \in Session, Proceed(s) \/ LoopTop(s) \/ SendFrame(s) \/ Ping(s)
      PROVE  Types'
  <2>1. /\ EmptyHanded(s) /\ sent' \in [Session -> 0 .. MaxFrames]
        /\ tailMeasured' \in [Session -> BOOLEAN]
        /\ UNCHANGED <<every, clock, last, nth, inHand, answers, cause, samples, queue, main,
                       count, timeouts, wrong>>
    BY <1>3, MoveView
  <2>2. /\ pc' \in [Session -> Running \cup Ended]
        /\ \A z \in Session : /\ (inHand'[z] = NoJob) = (pc'[z] # "sample")
                              /\ nth'[z] + (IF pc'[z] = "sample" THEN 1 ELSE 0) <= answers'[z]
    BY <2>1 DEF EmptyHanded, GoesOn, Types, TypeOK
  <2> QED
    BY <2>1, <2>2, Zenon DEF Types, TypeOK
<1>4. ASSUME NEW s \in Session, EmptyHanded(s), Answered(s), Judged,
             last' \in [Session -> 0 .. MaxFrames + 2],
             UNCHANGED <<every, clock, sent, tailMeasured, nth, cause, samples, queue, main, timeouts>>
      PROVE  Types'
  <2>1. /\ pc' \in [Session -> Running \cup Ended] /\ answers' \in [Session -> 0 .. MaxAnswers]
        /\ \A z \in Session : answers[z] <= answers'[z]
    BY <1>4 DEF EmptyHanded, GoesOn, Answered, Types, TypeOK
  <2>2. \A z \in Session : /\ (inHand'[z] = NoJob) = (pc'[z] # "sample")
                           /\ nth'[z] + (IF pc'[z] = "sample" THEN 1 ELSE 0) <= answers'[z]
    BY <1>4, <2>1 DEF EmptyHanded, GoesOn, Types, TypeOK
  <2>3. count' \in [Counter -> Nat] /\ wrong' \in Nat
    BY <1>4 DEF Judged, Types
  <2> QED
    BY <1>4, <2>1, <2>2, <2>3, Zenon DEF EmptyHanded, Types, TypeOK
<1>5. ASSUME NEW s \in Session, Undecodable(s) PROVE Types'
  <2>1. last' \in [Session -> 0 .. MaxFrames + 2]
    BY <1>5, UndecodableView, Zenon DEF Types, TypeOK
  <2> QED
    BY <1>4, <1>5, <2>1, UndecodableView
<1>6. ASSUME NEW s \in Session, NEW r \in Ranges,
             last' = [last EXCEPT ![s] = Advance(@, r.oldest, r.newest)]
      PROVE  last' \in [Session -> 0 .. MaxFrames + 2]
  <2>1. Advance(last[s], r.oldest, r.newest) \in 0 .. MaxFrames + 2
    BY AdvanceView, Zenon DEF Types, TypeOK
  <2> QED
    BY <1>6, <2>1 DEF Types, TypeOK
<1>7. ASSUME NEW s \in Session, NEW r \in Ranges, ErrorAnswer(s, r) PROVE Types'
  BY <1>4, <1>6, <1>7, ErrorView
<1>8. ASSUME NEW s \in Session, NEW r \in Ranges, NEW shift \in {0, 1}, NEW sane \in BOOLEAN,
             PartialAnswer(s, Partial(s, r, shift, sane))
      PROVE  Types'
  <2>1. last' \in [Session -> 0 .. MaxFrames + 2]
    BY <1>6, <1>8, PartialView
  <2>2. CASE Judged /\ EmptyHanded(s)
    BY <1>4, <1>8, <2>1, <2>2, PartialView
  <2>3. ASSUME NEW job \in VerifyJob, Holds(s, job) PROVE Types'
    <3>1. /\ Answered(s)
          /\ UNCHANGED <<every, clock, sent, tailMeasured, nth, cause, samples, queue, main, timeouts>>
      BY <1>8, PartialView
    <3>2. wrong' \in Nat
      BY <2>3 DEF Holds, Types
    <3>3. job # NoJob
      OBVIOUS
    <3>4. /\ pc' = [pc EXCEPT ![s] = "sample"] /\ inHand' = [inHand EXCEPT ![s] = job]
          /\ answers' = [answers EXCEPT ![s] = @ + 1] /\ answers[s] < MaxAnswers
          /\ count' = count /\ pc[s] # "sample"
      BY <2>3, <3>1 DEF Holds, GoesOn, Answered, Types, TypeOK
    <3>5. /\ pc' \in [Session -> Running \cup Ended] /\ answers' \in [Session -> 0 .. MaxAnswers]
          /\ inHand' \in [Session -> VerifyJob \cup {NoJob}]
      BY <3>4 DEF Running, Types, TypeOK
    <3>6. \A z \in Session : /\ (inHand'[z] = NoJob) = (pc'[z] # "sample")
                             /\ nth'[z] + (IF pc'[z] = "sample" THEN 1 ELSE 0) <= answers'[z]
      BY <3>1, <3>3, <3>4 DEF Types, TypeOK
    <3> QED
      BY <2>1, <3>1, <3>2, <3>4, <3>5, <3>6, Zenon DEF Types, TypeOK
  <2> QED
    BY <1>8, <2>2, <2>3, PartialView
<1>9. ASSUME NEW s \in Session, SampleSent(s) PROVE Types'
  <2>1. /\ GoesOn(s) /\ pc[s] = "sample" /\ pc'[s] = "loop" /\ inHand[s] \in VerifyJob
        /\ inHand' = [inHand EXCEPT ![s] = NoJob]
        /\ samples < SampleCapacity /\ samples' = samples + 1
        /\ nth' = [nth EXCEPT ![s] = IF every > 0 THEN @ + 1 ELSE @]
        /\ UNCHANGED <<every, clock, sent, tailMeasured, last, answers, cause, main, timeouts, wrong>>
        /\ Queued(inHand[s]) \/ Dropped(inHand[s]) \/ Skipped(inHand[s])
    BY <1>9, SampleView, Zenon
  <2>2. queue \in Seq(VerifyJob) /\ Len(queue) <= QueueCapacity /\ count \in [Counter -> Nat]
    BY DEF Types, TypeOK
  <2>3. /\ queue' \in Seq(VerifyJob) /\ Len(queue') <= QueueCapacity
        /\ count' \in [Counter -> Nat]
    <3>1. CASE Queued(inHand[s])
      BY <2>1, <2>2, <3>1 DEF Queued
    <3>2. CASE Dropped(inHand[s])
      BY <2>2, <3>2 DEF Dropped
    <3>3. CASE Skipped(inHand[s])
      BY <2>2, <3>3, Zenon DEF Skipped
    <3> QED
      BY <2>1, <3>1, <3>2, <3>3, Zenon
  <2>4. samples' \in 0 .. SampleCapacity /\ inHand' \in [Session -> VerifyJob \cup {NoJob}]
    BY <2>1 DEF Types, TypeOK
  <2>5. /\ pc' \in [Session -> Running \cup Ended]
        /\ \A z \in Session : (inHand'[z] = NoJob) = (pc'[z] # "sample")
    BY <2>1 DEF GoesOn, Types, TypeOK
  <2>6. nth[s] + 1 <= answers[s] /\ answers[s] <= MaxAnswers
    BY <2>1 DEF Types, TypeOK
  <2>7. /\ nth' \in [Session -> 0 .. MaxAnswers]
        /\ \A z \in Session : nth'[z] + (IF pc'[z] = "sample" THEN 1 ELSE 0) <= answers'[z]
    BY <2>1, <2>6 DEF GoesOn, Types, TypeOK
  <2> QED
    BY <2>1, <2>3, <2>4, <2>5, <2>7, Zenon DEF Types, TypeOK
<1>10. ASSUME NEW s \in Session, NEW to \in Ended, to # "sample",
              NEW why \in {"none", "ok", "io", "panic"} \cup TimeoutKind,
              Leaves(s, to, why), timeouts' \in [TimeoutKind -> Nat],
              count' \in [Counter -> Nat], wrong' \in Nat
       PROVE  Types'
  BY <1>10 DEF Leaves, Leave, GoTo, Types, TypeOK
<1>11. ASSUME NEW s \in Session,
              TimedOut(s) \/ IoError(s) \/ PeerCloses(s) \/ CloseGrace(s) \/ Elapse(s) \/ Panic(s)
       PROVE  Types'
  <2>1. \A k \in TimeoutKind : Add(timeouts, k, 1) \in [TimeoutKind -> Nat]
    BY DEF Add, Types, TypeOK
  <2>2. Judged => count' \in [Counter -> Nat] /\ wrong' \in Nat
    BY DEF Judged, Types
  <2>3. /\ count \in [Counter -> Nat] /\ wrong \in Nat /\ timeouts \in [TimeoutKind -> Nat]
        /\ "returned" \in Ended /\ "panicked" \in Ended
    BY DEF Types, TypeOK, Ended
  <2>4. {"connect", "send", "close", "session"} = TimeoutKind
    BY DEF TimeoutKind
  <2>5. CASE \E k \in {"connect", "send", "close"} :
              /\ Leaves(s, "returned", k) /\ timeouts' = Add(timeouts, k, 1)
              /\ UNCHANGED <<count, wrong>>
    BY <1>10, <2>1, <2>3, <2>4, <2>5
  <2>6. CASE /\ \E k \in {"ok", "io", "session"} : Leaves(s, "returned", k)
             /\ timeouts' = timeouts /\ Judged
    BY <1>10, <2>2, <2>3, <2>4, <2>6
  <2>7. CASE /\ Leaves(s, "panicked", "panic")
             /\ UNCHANGED <<timeouts, count, wrong>>
    BY <1>10, <2>3, <2>7, Zenon
  <2> QED
    BY <1>11, <2>5, <2>6, <2>7, EndView
<1>12. ASSUME NEW s \in Session, RecordOutcome(s) PROVE Types'
  <2>1. count' \in [Counter -> Nat] /\ timeouts' \in [TimeoutKind -> Nat]
    <3>1. PICK i, j \in {0, 1} : /\ count' = Add(count, "protocol", i)
                                 /\ timeouts' = Add(timeouts, "session", j)
      BY <1>12, Zenon DEF RecordOutcome
    <3> QED
      BY <3>1, AddView, ZenonT(60) DEF Types, TypeOK, Counter, TimeoutKind
  <2> QED
    BY <1>12, <2>1, Zenon DEF RecordOutcome, GoTo, Ended, Types, TypeOK
<1>13. CASE VerifyOne
  <2> DEFINE m == Head(queue).inline \cup VerifyPartial(Head(queue).session, Head(queue).partial)
  <2>1. /\ count' = Record(Add(count, "verified", 1), m) /\ queue # <<>> /\ queue' = Tail(queue)
        /\ UNCHANGED <<every, clock, session, samples, main, timeouts, wrong>>
    BY <1>13, Zenon DEF VerifyOne
  <2>2. Add(count, "verified", 1) \in [Counter -> Nat]
    BY DEF Add, Counter, Types, TypeOK
  <2>3. count' \in [Counter -> Nat]
    BY <2>1, <2>2, RecordView, Zenon
  <2>4. Tail(queue) \in Seq(VerifyJob) /\ Len(Tail(queue)) <= QueueCapacity
    BY <2>1 DEF Types, TypeOK
  <2> QED
    BY <2>1, <2>3, <2>4, Zenon DEF session, Types, TypeOK
<1>14. CASE Collect
  <2>1. count' \in [Counter -> Nat] /\ samples' \in 0 .. SampleCapacity
    <3>1. count \in [Counter -> Nat] /\ "partials" \in Counter /\ 1 \in Nat
      BY DEF Counter, Types, TypeOK
    <3>2. Add(count, "partials", 1) \in [Counter -> Nat]
      BY <3>1, AddView, Zenon
    <3> QED
      BY <1>14, <3>2 DEF Collect, Types, TypeOK
  <2> QED
    BY <1>14, <2>1 DEF Collect, session, Types, TypeOK
<1>15. CASE CsvFails \/ CollectEnd \/ Finish
  BY <1>15 DEF CsvFails, CollectEnd, Finish, session, Types, TypeOK
<1>16. CASE Join
  <2>1. Cardinality({s \in Session : pc[s] = "panicked"}) \in Nat
    BY SessionSets
  <2>2. count' \in [Counter -> Nat]
    BY <1>16, <2>1 DEF Join, Add, Counter, Types, TypeOK
  <2> QED
    BY <1>16, <2>2 DEF Join, session, Types, TypeOK
<1> QED
  BY <1>1, <1>2, <1>3, <1>5, <1>7, <1>8, <1>9, <1>11, <1>12, <1>13, <1>14, <1>15, <1>16, TaskView, Zenon
     DEF Next, MainStep
-----------------------------------------------------------------------------
(* Stages. *)

\* Stages holds in every state.
LEMMA InitStages == Init => Stages
BY DEF Init, Stages, Running, Ended

LEMMA StagesStep == Types /\ Stages /\ [Next]_vars => Stages'
<1> SUFFICES ASSUME Types, Stages, [Next]_vars PROVE Stages'
  OBVIOUS
<1>1. CASE UNCHANGED vars \/ Done \/ Tick
  BY <1>1, Zenon DEF Done, Tick, vars, session, Stages
<1>2. Running \cap Ended = {}
  BY DEF Running, Sending, Reading, Ended
<1>3. ASSUME NEW s \in Session, GoesOn(s), main \notin {"done", "failed"},
             samples' = samples \/ main = "collect"
      PROVE  Stages'
  <2>1. PICK to \in Running : pc' = [pc EXCEPT ![s] = to]
    BY <1>3, Zenon DEF GoesOn
  <2>2. main' = main /\ cause' = cause /\ pc[s] \in Running
    BY <1>3 DEF GoesOn
  <2>3. main \notin {"join", "finish"}
    BY <1>2, <2>2 DEF Stages
  <2>4. "panicked" \notin Running
    BY DEF Running, Sending, Reading
  <2>5. \A z \in Session : /\ pc'[z] \in Running <=> cause'[z] = "none"
                           /\ pc'[z] = "panicked" <=> cause'[z] = "panic"
    BY <2>1, <2>2, <2>4, Zenon DEF Stages, Types, TypeOK
  <2> QED
    BY <1>3, <2>2, <2>3, <2>5 DEF Stages
<1>4. ASSUME NEW s \in Session, Proceed(s) \/ LoopTop(s) \/ SendFrame(s) \/ Ping(s),
             main \notin {"done", "failed"}
      PROVE  Stages'
  BY <1>3, <1>4, MoveView DEF EmptyHanded
<1>5. ASSUME NEW s \in Session, Undecodable(s), main \notin {"done", "failed"} PROVE Stages'
  BY <1>3, <1>5, UndecodableView, Zenon DEF EmptyHanded
<1>6. ASSUME NEW s \in Session, NEW r \in Ranges, ErrorAnswer(s, r), main \notin {"done", "failed"}
      PROVE  Stages'
  BY <1>3, <1>6, ErrorView DEF EmptyHanded
<1>7. ASSUME NEW s \in Session, NEW r \in Ranges, NEW shift \in {0, 1}, NEW sane \in BOOLEAN,
             PartialAnswer(s, Partial(s, r, shift, sane)), main \notin {"done", "failed"}
      PROVE  Stages'
  <2>1. GoesOn(s) /\ samples' = samples
    BY <1>7, PartialView, Zenon DEF EmptyHanded, Holds
  <2> QED
    BY <1>3, <1>7, <2>1, Zenon
<1>8. ASSUME NEW s \in Session, SampleSent(s), main \notin {"done", "failed"} PROVE Stages'
  BY <1>3, <1>8, SampleView
<1>9. ASSUME NEW s \in Session, NEW to \in {"returned", "panicked"}, NEW why,
             why # "none", to = "panicked" <=> why = "panic", Leaves(s, to, why)
      PROVE  Stages'
  <2>1. /\ pc' = [pc EXCEPT ![s] = to] /\ cause' = [cause EXCEPT ![s] = why]
        /\ pc[s] \in Running /\ UNCHANGED <<samples, queue, main>>
    BY <1>9 DEF Leaves, Leave, GoTo
  <2>2. to \notin Running
    BY DEF Running, Sending, Reading
  <2>3. \A z \in Session : /\ pc'[z] \in Running <=> cause'[z] = "none"
                           /\ pc'[z] = "panicked" <=> cause'[z] = "panic"
    BY <1>9, <2>1, <2>2 DEF Stages, Types, TypeOK
  <2>4. main \notin {"join", "finish", "done"}
    BY <1>2, <2>1 DEF Stages
  <2> QED
    BY <2>1, <2>3, <2>4 DEF Stages
<1>10. ASSUME NEW s \in Session,
              TimedOut(s) \/ IoError(s) \/ PeerCloses(s) \/ CloseGrace(s) \/ Elapse(s) \/ Panic(s)
       PROVE  Stages'
  <2>1. \/ \E k \in {"connect", "send", "close", "ok", "io", "session"} : Leaves(s, "returned", k)
        \/ Leaves(s, "panicked", "panic")
    BY <1>10, EndView, Zenon
  <2> QED
    BY <1>9, <2>1
<1>11. ASSUME NEW s \in Session, RecordOutcome(s), main \notin {"done", "failed"} PROVE Stages'
  <2>1. /\ pc' = [pc EXCEPT ![s] = "recorded"] /\ pc[s] = "returned"
        /\ UNCHANGED <<samples, queue, main, cause>>
    BY <1>11 DEF RecordOutcome, GoTo
  <2>2. "recorded" \notin Running /\ "returned" \notin Running /\ "recorded" \in Ended
    BY DEF Running, Sending, Reading, Ended
  <2>3. \A z \in Session : /\ pc'[z] \in Running <=> cause'[z] = "none"
                           /\ pc'[z] = "panicked" <=> cause'[z] = "panic"
                           /\ pc[z] \in Ended => pc'[z] \in Ended
    BY <2>1, <2>2 DEF Stages, Types, TypeOK
  <2>4. main # "finish"
    BY <2>1 DEF Stages
  <2> QED
    BY <1>11, <2>1, <2>3, <2>4, Zenon DEF Stages
<1>12. CASE VerifyOne
  <2>1. /\ UNCHANGED <<session, samples, main>> /\ main # "done"
    BY <1>12, Zenon DEF VerifyOne, Alive
  <2> QED
    BY <2>1 DEF Stages, session
<1>13. CASE Collect \/ CsvFails
  BY <1>13, Zenon DEF Collect, CsvFails, session, Stages
<1>14. CASE CollectEnd
  BY <1>14, Zenon DEF CollectEnd, session, Stages
<1>15. CASE Join
  BY <1>15 DEF Join, session, Stages
<1>16. CASE Finish
  BY <1>16 DEF Finish, session, Stages
<1> QED
  BY <1>1, <1>4, <1>5, <1>6, <1>7, <1>8, <1>10, <1>11, <1>12, <1>13, <1>14, <1>15, <1>16, TaskView, Zenon
     DEF Next, MainStep
-----------------------------------------------------------------------------
(* The failure counters. *)

\* Tally holds initially.
LEMMA InitTally == Init => Tally
<1> SUFFICES ASSUME Init PROVE Tally
  OBVIOUS
<1>1. /\ \A w : RecordedAs(w) = {}
      /\ \A k \in TimeoutKind : {s \in Session : cause[s] \in {k}} = {}
  BY DEF Init, RecordedAs, TimeoutKind
<1>2. Cardinality({}) = 0
  BY FS_EmptySet
<1>3. /\ count["protocol"] = 0 /\ count["faults"] = 0 /\ main = "collect"
      /\ \A k \in TimeoutKind : timeouts[k] = 0
  BY DEF Init, Counter
<1> QED
  BY <1>1, <1>2, <1>3 DEF Tally, EndedBy, TimeoutKind

\* A step that ends no session and records no outcome leaves them alone.
LEMMA TallySame ==
  ASSUME Tally, cause' = cause, timeouts' = timeouts, main' = main,
         count'["protocol"] = count["protocol"], count'["faults"] = count["faults"],
         \A s \in Session : pc'[s] = "recorded" <=> pc[s] = "recorded"
  PROVE  Tally'
<1>1. \A w : RecordedAs(w)' = RecordedAs(w)
  BY DEF RecordedAs
<1>2. \A w : EndedBy(w)' = EndedBy(w)
  BY Zenon DEF EndedBy
<1> QED
  BY <1>1, <1>2 DEF Tally

\* A step of a session that goes on leaves the tally alone.
LEMMA TallyGoesOn ==
  ASSUME Types, Tally, NEW s \in Session, GoesOn(s),
         count'["protocol"] = count["protocol"], count'["faults"] = count["faults"]
  PROVE  Tally'
<1>1. "recorded" \notin Running
  BY DEF Running, Sending, Reading
<1>2. \A z \in Session : pc'[z] = "recorded" <=> pc[z] = "recorded"
  BY <1>1 DEF GoesOn, Types, TypeOK
<1> QED
  BY <1>2, TallySame DEF GoesOn

\* A session that ends is counted under its cause alone.
LEMMA TallyLeaves ==
  ASSUME Types, Stages, Tally, main # "failed", NEW s \in Session,
         NEW to \in {"returned", "panicked"}, NEW why \in {"ok", "io", "panic"} \cup TimeoutKind,
         Leaves(s, to, why),
         \A k \in {"connect", "send", "close"} :
           timeouts'[k] = timeouts[k] + (IF k = why THEN 1 ELSE 0),
         timeouts'["session"] = timeouts["session"],
         count'["protocol"] = count["protocol"], count'["faults"] = count["faults"]
  PROVE  Tally'
<1>1. /\ pc' = [pc EXCEPT ![s] = to] /\ cause' = [cause EXCEPT ![s] = why]
      /\ pc[s] \in Running /\ main' = main
  BY DEF Leaves, Leave, GoTo
<1>2. "recorded" \notin Running /\ Running \cap Ended = {}
  BY Zenon DEF Running, Sending, Reading, Ended
<1>3. cause[s] = "none" /\ main \notin {"finish", "done"}
  BY <1>1, <1>2, Zenon DEF Stages
<1>4. \A w : RecordedAs(w)' = RecordedAs(w)
  BY <1>1, <1>2 DEF RecordedAs, Types, TypeOK
<1>5. ASSUME NEW k \in {"connect", "send", "close"}
      PROVE  EndedBy({k})' = EndedBy({k}) + (IF k = why THEN 1 ELSE 0)
  <2> DEFINE S == {z \in Session : cause[z] \in {k}}
             T == {z \in Session : cause'[z] \in {k}}
  <2>1. s \notin S /\ IsFiniteSet(S) /\ Cardinality(S) \in Nat
    BY <1>3, SessionSets, Zenon
  <2>2. T = IF k = why THEN S \cup {s} ELSE S
    BY <1>1, <1>3, Zenon DEF Types, TypeOK
  <2> HIDE DEF S, T
  <2>3. Cardinality(T) = Cardinality(S) + (IF k = why THEN 1 ELSE 0)
    BY <2>1, <2>2, OneMore
  <2> QED
    BY <2>3 DEF EndedBy, S, T
<1> QED
  BY <1>1, <1>3, <1>4, <1>5 DEF Tally

\* The recorded outcome moves the session and its counter together.
LEMMA TallyRecords ==
  ASSUME Types, Stages, Tally, main # "failed", NEW s \in Session, RecordOutcome(s)
  PROVE  Tally'
<1>1. /\ pc' = [pc EXCEPT ![s] = "recorded"] /\ pc[s] = "returned" /\ UNCHANGED <<cause, main>>
      /\ count' = Add(count, "protocol", IF cause[s] = "ok" THEN 0 ELSE 1)
      /\ timeouts' = Add(timeouts, "session", IF cause[s] = "session" THEN 1 ELSE 0)
  BY DEF RecordOutcome, GoTo
<1>2. "returned" \notin Running
  BY Zenon DEF Running, Sending, Reading
<1>3. cause[s] \in {"ok", "io"} \cup TimeoutKind /\ main \notin {"finish", "done"}
  BY <1>1, <1>2, Zenon DEF Stages, Types, TypeOK
<1>4. /\ count'["protocol"] = count["protocol"] + (IF cause[s] = "ok" THEN 0 ELSE 1)
      /\ count'["faults"] = count["faults"]
      /\ timeouts'["session"] = timeouts["session"] + (IF cause[s] = "session" THEN 1 ELSE 0)
      /\ \A k \in {"connect", "send", "close"} : timeouts'[k] = timeouts[k]
  BY <1>1, Zenon DEF Add, Counter, TimeoutKind, Types, TypeOK
<1>5. ASSUME NEW w
      PROVE  Cardinality(RecordedAs(w)') = Cardinality(RecordedAs(w)) + (IF cause[s] \in w THEN 1 ELSE 0)
  <2>1. s \notin RecordedAs(w) /\ IsFiniteSet(RecordedAs(w)) /\ Cardinality(RecordedAs(w)) \in Nat
    BY <1>1, SessionSets, Zenon DEF RecordedAs
  <2>2. RecordedAs(w)' = IF cause[s] \in w THEN RecordedAs(w) \cup {s} ELSE RecordedAs(w)
    BY <1>1 DEF RecordedAs, Types, TypeOK
  <2> QED
    BY <2>1, <2>2, OneMore
<1>6. \A w : EndedBy(w)' = EndedBy(w)
  BY <1>1 DEF EndedBy
<1>7. cause[s] \in {"io"} \cup TimeoutKind <=> cause[s] # "ok"
  BY <1>3 DEF TimeoutKind
<1>8. Cardinality(RecordedAs({"io"} \cup TimeoutKind)') =
        Cardinality(RecordedAs({"io"} \cup TimeoutKind)) + (IF cause[s] = "ok" THEN 0 ELSE 1)
  BY <1>5, <1>7
<1>9. Cardinality(RecordedAs({"session"})') =
        Cardinality(RecordedAs({"session"})) + (IF cause[s] = "session" THEN 1 ELSE 0)
  BY <1>5, Zenon
<1> QED
  BY <1>1, <1>3, <1>4, <1>6, <1>8, <1>9, Zenon DEF Tally

\* Tally holds after every step.
LEMMA TallyStep == Types /\ Stages /\ Tally /\ [Next]_vars => Tally'
<1> SUFFICES ASSUME Types, Stages, Tally, [Next]_vars PROVE Tally'
  OBVIOUS
<1>0. count \in [Counter -> Nat] /\ "protocol" \in Counter \ {"errors", "inference", "dropped"}
      /\ "faults" \in Counter \ {"errors", "inference", "dropped"}
  BY DEF Counter, Types, TypeOK
<1>1. CASE UNCHANGED vars \/ Done \/ Tick
  BY <1>1, TallySame DEF Done, Tick, vars, session
<1>2. Judged => count'["protocol"] = count["protocol"] /\ count'["faults"] = count["faults"]
  BY <1>0, Zenon DEF Judged
<1>3. ASSUME NEW s \in Session, Proceed(s) \/ LoopTop(s) \/ SendFrame(s) \/ Ping(s) PROVE Tally'
  BY <1>3, MoveView, TallyGoesOn, Zenon DEF EmptyHanded
<1>4. ASSUME NEW s \in Session, Undecodable(s) PROVE Tally'
  BY <1>2, <1>4, UndecodableView, TallyGoesOn, ZenonT(60) DEF EmptyHanded
<1>5. ASSUME NEW s \in Session, NEW r \in Ranges, ErrorAnswer(s, r) PROVE Tally'
  BY <1>2, <1>5, ErrorView, TallyGoesOn DEF EmptyHanded
<1>6. ASSUME NEW s \in Session, NEW r \in Ranges, NEW shift \in {0, 1}, NEW sane \in BOOLEAN,
             PartialAnswer(s, Partial(s, r, shift, sane))
      PROVE  Tally'
  <2>1. GoesOn(s) /\ (Judged \/ count' = count)
    BY <1>6, PartialView DEF EmptyHanded, Holds
  <2> QED
    BY <1>2, <2>1, TallyGoesOn, Zenon
<1>7. ASSUME NEW s \in Session, SampleSent(s) PROVE Tally'
  <2>1. GoesOn(s) /\ (Queued(inHand[s]) \/ Dropped(inHand[s]) \/ Skipped(inHand[s]))
    BY <1>7, SampleView, Zenon
  <2>2. count'["protocol"] = count["protocol"] /\ count'["faults"] = count["faults"]
    BY <1>0, <2>1, Zenon DEF Queued, Dropped, Skipped
  <2> QED
    BY <2>1, <2>2, TallyGoesOn, Zenon
<1>8. ASSUME NEW s \in Session, main # "failed",
             TimedOut(s) \/ IoError(s) \/ PeerCloses(s) \/ CloseGrace(s) \/ Elapse(s) \/ Panic(s)
      PROVE  Tally'
  <2>0. timeouts \in [TimeoutKind -> Nat] /\ TimeoutKind = {"connect", "send", "close", "session"}
    BY DEF TimeoutKind, Types, TypeOK
  <2>1. ASSUME NEW k \in {"connect", "send", "close"}, Leaves(s, "returned", k),
               timeouts' = Add(timeouts, k, 1), UNCHANGED <<count, wrong>>
        PROVE  Tally'
    <3>1. /\ \A j \in {"connect", "send", "close"} :
               timeouts'[j] = timeouts[j] + (IF j = k THEN 1 ELSE 0)
          /\ timeouts'["session"] = timeouts["session"]
      BY <2>0, <2>1 DEF Add
    <3> QED
      BY <1>8, <2>0, <2>1, <3>1, TallyLeaves
  <2>2. \A j \in {"connect", "send", "close"}, why \in {"ok", "io", "session", "panic"} :
          timeouts[j] = timeouts[j] + (IF j = why THEN 1 ELSE 0)
    BY <2>0
  <2>3. ASSUME NEW k \in {"ok", "io", "session"}, Leaves(s, "returned", k), timeouts' = timeouts, Judged
        PROVE  Tally'
    BY <1>2, <1>8, <2>0, <2>2, <2>3, TallyLeaves, Zenon
  <2>4. ASSUME Leaves(s, "panicked", "panic"), UNCHANGED <<timeouts, count, wrong>>
        PROVE  Tally'
    BY <1>8, <2>0, <2>2, <2>4, TallyLeaves
  <2> QED
    BY <1>8, <2>1, <2>3, <2>4, EndView, Zenon
<1>9. ASSUME NEW s \in Session, main # "failed", RecordOutcome(s) PROVE Tally'
  BY <1>9, TallyRecords, Zenon
<1>10. CASE VerifyOne
  <2> DEFINE m == Head(queue).inline \cup VerifyPartial(Head(queue).session, Head(queue).partial)
  <2>1. /\ count' = Record(Add(count, "verified", 1), m)
        /\ UNCHANGED <<session, main, timeouts>>
    BY <1>10, Zenon DEF VerifyOne
  <2> HIDE DEF m
  <2>2. /\ Add(count, "verified", 1) \in [Counter -> Nat]
        /\ Add(count, "verified", 1)["protocol"] = count["protocol"]
        /\ Add(count, "verified", 1)["faults"] = count["faults"]
    BY <1>0 DEF Add, Counter
  <2>3. count'["protocol"] = count["protocol"] /\ count'["faults"] = count["faults"]
    BY <1>0, <2>1, <2>2, RecordView
  <2> QED
    BY <2>1, <2>3, TallySame DEF session
<1>11. CASE Collect
  <2>1. count'["protocol"] = count["protocol"] /\ count'["faults"] = count["faults"]
    BY <1>0, <1>11 DEF Collect, Add
  <2> QED
    BY <1>11, <2>1, TallySame DEF Collect, session
<1>12. CASE CsvFails \/ CollectEnd \/ Finish
  <2>1. /\ UNCHANGED <<session, count, timeouts>>
        /\ main' = "failed" \/ (main = "collect" /\ main' = "join") \/ (main = "finish" /\ main' = "done")
    BY <1>12, Zenon DEF CsvFails, CollectEnd, Finish
  <2>2. /\ \A w : RecordedAs(w)' = RecordedAs(w)
        /\ \A w : EndedBy(w)' = EndedBy(w)
    BY <2>1, Zenon DEF RecordedAs, EndedBy, session
  <2> QED
    BY <2>1, <2>2 DEF Tally
<1>13. CASE Join
  <2>1. /\ UNCHANGED <<session, timeouts>> /\ main = "join" /\ main' = "finish"
        /\ count' = Add(count, "faults", Cardinality({s \in Session : pc[s] = "panicked"}))
    BY <1>13, Zenon DEF Join
  <2>2. /\ \A w : RecordedAs(w)' = RecordedAs(w)
        /\ \A w : EndedBy(w)' = EndedBy(w)
    BY <2>1 DEF RecordedAs, EndedBy, session
  <2>3. {s \in Session : pc[s] = "panicked"} = {s \in Session : cause[s] \in {"panic"}}
    BY DEF Stages
  <2>4. Cardinality({s \in Session : cause[s] \in {"panic"}}) \in Nat
    BY SessionSets, Zenon
  <2>5. count' = Add(count, "faults", EndedBy({"panic"})) /\ EndedBy({"panic"}) \in Nat
    BY <2>1, <2>3, <2>4 DEF EndedBy
  <2>6. count["faults"] = 0
    BY <2>1 DEF Tally
  <2>7. count'["protocol"] = count["protocol"] /\ count'["faults"] = EndedBy({"panic"})
    BY <1>0, <2>5, <2>6 DEF Add
  <2> QED
    BY <2>1, <2>2, <2>7 DEF Tally
<1> QED
  BY <1>1, <1>3, <1>4, <1>5, <1>6, <1>7, <1>8, <1>9, <1>10, <1>11, <1>12, <1>13, TaskView, Zenon
     DEF Next, MainStep
-----------------------------------------------------------------------------
(* The partials and the wrong responses. *)

\* Nothing has been received yet.
LEMMA InitBalance == Init => Accounted /\ Balance
<1> SUFFICES ASSUME Init PROVE Accounted /\ Balance
  OBVIOUS
<1>1. BadHands = {} /\ Lost = {} /\ BadIn(queue) = {} /\ Len(queue) = 0
  BY DEF Init, BadHands, Lost, BadIn
<1>2. Cardinality({}) = 0
  BY FS_EmptySet
<1>3. /\ samples = 0 /\ wrong = 0 /\ count["errors"] = 0 /\ count["partials"] = 0
      /\ count["verified"] = 0 /\ count["dropped"] = 0
  BY Zenon DEF Init, Counter
<1> QED
  BY <1>1, <1>2, <1>3 DEF Accounted, Balance, Unverified

\* The terms of the balance are numbers.
LEMMA BalanceTypes ==
  ASSUME Types
  PROVE  /\ count["errors"] \in Nat /\ count["partials"] \in Nat /\ count["verified"] \in Nat
         /\ count["dropped"] \in Nat /\ samples \in Nat /\ wrong \in Nat /\ Len(queue) \in Nat
         /\ IsFiniteSet(BadHands) /\ Cardinality(BadHands) \in Nat
         /\ IsFiniteSet(Lost) /\ Cardinality(Lost) \in Nat
         /\ Cardinality(BadIn(queue)) \in Nat
<1>1. BadHands \in SUBSET Session /\ Lost \in SUBSET Session
  BY DEF BadHands, Lost
<1>2. queue \in Seq(VerifyJob)
  BY DEF Types
<1>3. samples \in Nat /\ wrong \in Nat
  BY LoadgenAssumption DEF Types, TypeOK
<1> QED
  BY <1>1, <1>2, <1>3, SessionSets, BadInFinite DEF Types, TypeOK, Counter

\* What a step adds to the samples, the partials, the verified and the queue.
Adds(a, p, v, n, d) ==
  /\ every' = every
  /\ samples' = samples + a /\ count'["partials"] = count["partials"] + p
  /\ count'["verified"] = count["verified"] + v /\ Len(queue') = Len(queue) + n
  /\ every = 1 => count'["dropped"] = count["dropped"] + d

\* What a step adds to the ledger of partials, added up.
LEMMA LedgerMoves ==
  ASSUME Types, Accounted,
         NEW a \in Int, NEW p \in Int, NEW v \in Int, NEW n \in Int, NEW d \in Int,
         Adds(a, p, v, n, d), a + p = v + n + d
  PROVE  Accounted' /\ Unverified \in Int /\ Unverified' = Unverified + (a + p - v - n)
<1>1. PICK S, P, V, N, D \in Nat :
        /\ S = samples /\ P = count["partials"] /\ V = count["verified"] /\ N = Len(queue)
        /\ D = count["dropped"]
  BY BalanceTypes, Zenon
<1>2. Unverified = S + P - V - N
  BY <1>1 DEF Unverified
<1>3. Unverified' = (S + a) + (P + p) - (V + v) - (N + n)
  BY <1>1 DEF Unverified, Adds
<1>4. (S + a) + (P + p) - (V + v) - (N + n) = (S + P - V - N) + (a + p - v - n)
  OBVIOUS
<1>5. ASSUME every = 1
      PROVE  samples' + count'["partials"] = count'["verified"] + Len(queue') + count'["dropped"]
  <2>1. S + P = V + N + D
    BY <1>1, <1>5 DEF Accounted
  <2>2. (S + a) + (P + p) = (V + v) + (N + n) + (D + d)
    BY <2>1
  <2> QED
    BY <1>1, <1>5, <2>2 DEF Adds
<1>6. Accounted'
  BY <1>5 DEF Accounted, Adds
<1>7. Unverified \in Int
  BY <1>2
<1> QED
  BY <1>2, <1>3, <1>4, <1>6, <1>7

\* The difference of the counters is a number.
LEMMA UnverifiedType == Types => Unverified \in Int
<1> SUFFICES ASSUME Types PROVE Unverified \in Int
  OBVIOUS
<1>1. PICK S, P, V, N \in Nat :
        S = samples /\ P = count["partials"] /\ V = count["verified"] /\ N = Len(queue)
  BY BalanceTypes, Zenon
<1>2. Unverified = S + P - V - N
  BY <1>1 DEF Unverified
<1> QED
  BY <1>2

\* The balance is kept by a step that changes its terms in balance.
LEMMA BalanceMoves ==
  ASSUME Types, Balance,
         NEW e \in Int, NEW h \in Int, NEW q \in Int, NEW u \in Int, NEW l \in Int, NEW w \in Int,
         count'["errors"] = count["errors"] + e,
         Cardinality(BadHands') = Cardinality(BadHands) + h,
         Cardinality(BadIn(queue')) = Cardinality(BadIn(queue)) + q,
         Unverified' = Unverified + u,
         Cardinality(Lost') = Cardinality(Lost) + l,
         wrong' = wrong + w,
         e + h + q <= w, w <= e + h + q + u + l
  PROVE  Balance'
<1>1. PICK E, H, Q, L, W \in Nat :
        /\ E = count["errors"] /\ H = Cardinality(BadHands) /\ Q = Cardinality(BadIn(queue))
        /\ L = Cardinality(Lost) /\ W = wrong
  BY BalanceTypes, Zenon
<1>2. PICK U \in Int : U = Unverified
  BY UnverifiedType, Zenon
<1>3. E + H + Q <= W /\ W <= E + H + Q + U + L
  BY <1>1, <1>2, Zenon DEF Balance
<1>4. /\ (E + e) + (H + h) + (Q + q) <= W + w
      /\ W + w <= (E + e) + (H + h) + (Q + q) + (U + u) + (L + l)
  BY <1>3
<1>5. /\ count'["errors"] = E + e /\ Cardinality(BadHands') = H + h
      /\ Cardinality(BadIn(queue')) = Q + q /\ Unverified' = U + u
      /\ Cardinality(Lost') = L + l /\ wrong' = W + w
  BY <1>1, <1>2
<1> QED
  BY <1>4, <1>5 DEF Balance

\* The terms that a step leaves alone, in the form Adds and BalanceMoves take.
LEMMA Unmoved ==
  ASSUME Types
  PROVE  /\ count["errors"] = count["errors"] + 0 /\ wrong = wrong + 0
         /\ Cardinality(BadHands) = Cardinality(BadHands) + 0
         /\ Cardinality(BadIn(queue)) = Cardinality(BadIn(queue)) + 0
         /\ Unverified = Unverified + 0
         /\ Cardinality(Lost) = Cardinality(Lost) + 0
         /\ samples = samples + 0 /\ Len(queue) = Len(queue) + 0
         /\ count["partials"] = count["partials"] + 0 /\ count["verified"] = count["verified"] + 0
         /\ count["dropped"] = count["dropped"] + 0
BY BalanceTypes, UnverifiedType

\* The counters and channels the two equations are about.
Ledger == <<every, samples, queue, count["partials"], count["verified"], count["dropped"]>>

\* A step that leaves the ledger alone keeps what is read off it.
LEMMA LedgerSame ==
  ASSUME Accounted, Ledger' = Ledger
  PROVE  Accounted' /\ Unverified' = Unverified /\ BadIn(queue)' = BadIn(queue)
BY DEF Ledger, Accounted, Unverified, BadIn

\* A response judged on the spot is counted as wrong once, and recorded once if it is.
LEMMA BalanceJudged ==
  ASSUME Types, Accounted, Balance, Ledger' = Ledger, BadHands' = BadHands, Lost' = Lost,
         Judged \/ (count'["errors"] = count["errors"] /\ wrong' = wrong)
  PROVE  Accounted' /\ Balance'
<1>1. PICK n \in {0, 1} : count'["errors"] = count["errors"] + n /\ wrong' = wrong + n
  BY BalanceTypes DEF Judged
<1>2. /\ Cardinality(BadHands') = Cardinality(BadHands) + 0
      /\ Cardinality(BadIn(queue')) = Cardinality(BadIn(queue)) + 0
      /\ Unverified' = Unverified + 0 /\ Cardinality(Lost') = Cardinality(Lost) + 0
  BY LedgerSame, Unmoved
<1>3. n + 0 + 0 <= n /\ n <= n + 0 + 0 + 0 + 0 /\ n \in Int
  OBVIOUS
<1> QED
  BY <1>1, <1>2, <1>3, LedgerSame, BalanceMoves

\* A session that takes nothing in hand changes neither set of sessions.
LEMMA HandsSame ==
  ASSUME Types, NEW s \in Session, EmptyHanded(s)
  PROVE  BadHands' = BadHands /\ Lost' = Lost
BY DEF EmptyHanded, GoesOn, BadHands, Lost, Types, TypeOK

\* A partial taken in hand: if it is wrong, so is one more response and one more hand.
LEMMA BalanceHolds ==
  ASSUME Types, Accounted, Balance, NEW s \in Session, NEW job \in VerifyJob, Holds(s, job),
         UNCHANGED <<every, samples, queue>>
  PROVE  Accounted' /\ Balance'
<1>1. /\ pc' = [pc EXCEPT ![s] = "sample"] /\ pc[s] # "sample" /\ cause' = cause /\ count' = count
      /\ inHand' = [inHand EXCEPT ![s] = job] /\ wrong' = wrong + (IF Bad(job) THEN 1 ELSE 0)
  BY DEF Holds, GoesOn, Types, TypeOK
<1>2. Ledger' = Ledger /\ Lost' = Lost
  BY <1>1, Zenon DEF Ledger, Lost
<1>3. BadHands' = IF Bad(job) THEN BadHands \cup {s} ELSE BadHands
  BY <1>1, Zenon DEF BadHands, Types, TypeOK
<1>4. s \notin BadHands
  BY <1>1 DEF BadHands
<1>5. Cardinality(BadHands') = Cardinality(BadHands) + (IF Bad(job) THEN 1 ELSE 0)
  BY <1>3, <1>4, BalanceTypes, OneMore
<1>6. PICK n \in {0, 1} : n = IF Bad(job) THEN 1 ELSE 0
  BY Zenon
<1>7. /\ count'["errors"] = count["errors"] + 0
      /\ Cardinality(BadHands') = Cardinality(BadHands) + n
      /\ Cardinality(BadIn(queue')) = Cardinality(BadIn(queue)) + 0
      /\ Unverified' = Unverified + 0 /\ Cardinality(Lost') = Cardinality(Lost) + 0
      /\ wrong' = wrong + n
  BY <1>1, <1>2, <1>5, <1>6, LedgerSame, Unmoved, Zenon
<1>8. 0 + n + 0 <= n /\ n <= 0 + n + 0 + 0 + 0 /\ n \in Int
  OBVIOUS
<1> QED
  BY <1>2, <1>7, <1>8, LedgerSame, BalanceMoves

\* Its sample has been sent: the wrong one moves to the queue, a counter, or the unverified.
LEMMA BalanceSample ==
  ASSUME Types, Accounted, Balance, NEW s \in Session, SampleSent(s)
  PROVE  Accounted' /\ Balance'
<1>1. /\ GoesOn(s) /\ pc[s] = "sample" /\ pc'[s] = "loop" /\ inHand[s] \in VerifyJob
      /\ inHand' = [inHand EXCEPT ![s] = NoJob]
      /\ samples' = samples + 1 /\ UNCHANGED <<every, cause, wrong>>
      /\ Queued(inHand[s]) \/ Dropped(inHand[s]) \/ Skipped(inHand[s])
  BY SampleView, Zenon
<1>2. PICK job \in VerifyJob : job = inHand[s]
  BY <1>1, Zenon
<1>3. BadHands' = BadHands \ {s} /\ (s \in BadHands <=> Bad(job)) /\ Lost' = Lost
  BY <1>1, <1>2 DEF GoesOn, BadHands, Lost, Types, TypeOK
<1>4. Cardinality(BadHands') = Cardinality(BadHands) - (IF Bad(job) THEN 1 ELSE 0)
  <2>1. CASE Bad(job)
    BY <1>3, <2>1, BalanceTypes, OneLess, Zenon
  <2>2. CASE ~Bad(job)
    <3>1. BadHands' = BadHands
      BY <1>3, <2>2, ZenonT(60)
    <3> QED
      BY <2>2, <3>1, BalanceTypes
  <2> QED
    BY <2>1, <2>2
<1>5. job.inline # {} => Bad(job)
  BY DEF Bad
<1>bad. PICK n \in {0, 1} : n = IF Bad(job) THEN 1 ELSE 0
  BY ZenonT(60)
<1>moved. /\ Cardinality(BadHands') = Cardinality(BadHands) + (0 - n)
      /\ Cardinality(Lost') = Cardinality(Lost) + 0 /\ wrong' = wrong + 0
  BY <1>1, <1>3, <1>4, <1>bad, BalanceTypes
<1>6. CASE Queued(job)
  <2>1. queue' = Append(queue, job) /\ count' = count /\ queue \in Seq(VerifyJob)
    BY <1>6 DEF Queued, Types
  <2>2. Cardinality(BadIn(queue')) = Cardinality(BadIn(queue)) + (IF Bad(job) THEN 1 ELSE 0)
    BY <2>1, BadAppend
  <2>3. Len(queue') = Len(queue) + 1
    BY <2>1
  <2>adds. Adds(1, 0, 0, 1, 0)
    BY <1>1, <2>1, <2>3, Unmoved, Zenon DEF Adds
  <2>4. Accounted' /\ Unverified' = Unverified + 0
    BY <2>adds, LedgerMoves
  <2>5. /\ count'["errors"] = count["errors"] + 0
        /\ Cardinality(BadIn(queue')) = Cardinality(BadIn(queue)) + n
    BY <1>bad, <2>1, <2>2, BalanceTypes
  <2>6. 0 + (0 - n) + n <= 0 /\ 0 <= 0 + (0 - n) + n + 0 + 0 /\ n \in Int /\ 0 - n \in Int
    OBVIOUS
  <2> QED
    BY <1>moved, <2>4, <2>5, <2>6, BalanceMoves
<1>7. CASE Dropped(job) \/ Skipped(job)
  <2>1. /\ queue' = queue
        /\ count'["errors"] = count["errors"] + (IF job.inline = {} THEN 0 ELSE 1)
        /\ count'["partials"] = count["partials"] /\ count'["verified"] = count["verified"]
        /\ every = 1 => count'["dropped"] = count["dropped"] + 1
    BY <1>7, ZenonT(60) DEF Dropped, Skipped, Counter
  <2>adds. Adds(1, 0, 0, 0, 1)
    BY <1>1, <2>1, Unmoved DEF Adds
  <2>2. Accounted' /\ Unverified' = Unverified + 1
    BY <2>adds, LedgerMoves
  <2>3. PICK m \in {0, 1} : m = IF job.inline = {} THEN 0 ELSE 1
    BY Zenon
  <2>4. /\ count'["errors"] = count["errors"] + m
        /\ Cardinality(BadIn(queue')) = Cardinality(BadIn(queue)) + 0
    BY <2>1, <2>3, Unmoved, Zenon
  <2>5. m <= n
    BY <1>5, <1>bad, <2>3
  <2>6. /\ m + (0 - n) + 0 <= 0 /\ 0 <= m + (0 - n) + 0 + 1 + 0
        /\ m \in Int /\ 0 - n \in Int
    BY <2>5
  <2> QED
    BY <1>moved, <2>2, <2>4, <2>6, BalanceMoves
<1> QED
  BY <1>1, <1>2, <1>6, <1>7, Zenon

\* A session that ends with a partial in its hands is lost with it.
LEMMA BalanceLeaves ==
  ASSUME Types, Stages, Accounted, Balance, NEW s \in Session, NEW to, NEW why, to # "sample",
         Leaves(s, to, why), Judged \/ UNCHANGED <<count, wrong>>
  PROVE  Accounted' /\ Balance'
<1>1. /\ pc' = [pc EXCEPT ![s] = to] /\ cause' = [cause EXCEPT ![s] = why]
      /\ inHand' = [inHand EXCEPT ![s] = NoJob] /\ pc[s] \in Running
      /\ pc[s] = "sample" => why \in {"session", "panic"}
      /\ UNCHANGED <<every, samples, queue>>
  BY DEF Leaves, Leave, GoTo
<1>2. Ledger' = Ledger
  BY <1>1 DEF Ledger, Judged, Counter
<1>3. cause[s] = "none"
  BY <1>1, Zenon DEF Stages
<1>4. BadHands' = BadHands \ {s} /\ (s \in BadHands => why \in {"session", "panic"})
  BY <1>1, Zenon DEF BadHands, Types, TypeOK
<1>5. s \notin Lost /\ Lost' = IF why \in {"session", "panic"} THEN Lost \cup {s} ELSE Lost
  BY <1>1, <1>3 DEF Lost, Types, TypeOK
<1>6. Cardinality(BadHands') = Cardinality(BadHands) - (IF s \in BadHands THEN 1 ELSE 0)
  <2>1. CASE s \in BadHands
    BY <1>4, <2>1, BalanceTypes, OneLess, Zenon
  <2>2. CASE s \notin BadHands
    <3>1. BadHands' = BadHands
      BY <1>4, <2>2, Zenon
    <3> QED
      BY <2>2, <3>1, BalanceTypes
  <2> QED
    BY <2>1, <2>2, Zenon
<1>7. Cardinality(Lost') = Cardinality(Lost) + (IF why \in {"session", "panic"} THEN 1 ELSE 0)
  BY <1>5, BalanceTypes, OneMore
<1>8. PICK n \in {0, 1} : count'["errors"] = count["errors"] + n /\ wrong' = wrong + n
  BY BalanceTypes DEF Judged
<1>9. PICK h, l \in {0, 1} : /\ h = IF s \in BadHands THEN 1 ELSE 0
                             /\ l = IF why \in {"session", "panic"} THEN 1 ELSE 0
  BY Zenon
<1>10. /\ Cardinality(BadHands') = Cardinality(BadHands) + (0 - h)
       /\ Cardinality(Lost') = Cardinality(Lost) + l
       /\ Cardinality(BadIn(queue')) = Cardinality(BadIn(queue)) + 0
       /\ Unverified' = Unverified + 0
  BY <1>2, <1>6, <1>7, <1>9, LedgerSame, BalanceTypes, Unmoved
<1>11. h <= l
  BY <1>4, <1>9
<1>12. /\ n + (0 - h) + 0 <= n /\ n <= n + (0 - h) + 0 + 0 + l
       /\ n \in Int /\ 0 - h \in Int /\ l \in Int
  BY <1>11
<1> QED
  BY <1>2, <1>8, <1>10, <1>12, LedgerSame, BalanceMoves

\* The verifier records the head of the queue.
LEMMA BalanceVerify ==
  ASSUME Types, Accounted, Balance, VerifyOne
  PROVE  Accounted' /\ Balance'
<1> DEFINE m == Head(queue).inline \cup VerifyPartial(Head(queue).session, Head(queue).partial)
<1>1. /\ count' = Record(Add(count, "verified", 1), m) /\ queue # <<>> /\ queue' = Tail(queue)
      /\ UNCHANGED <<every, session, samples, wrong>>
  BY Zenon DEF VerifyOne
<1>2. m # {} <=> Bad(Head(queue))
  BY Zenon DEF Bad
<1> HIDE DEF m
<1>3. /\ Add(count, "verified", 1) \in [Counter -> Nat]
      /\ Add(count, "verified", 1)["verified"] = count["verified"] + 1
      /\ \A j \in Counter \ {"verified"} : Add(count, "verified", 1)[j] = count[j]
  BY DEF Add, Counter, Types, TypeOK
<1>4. /\ count'["errors"] = count["errors"] + (IF m = {} THEN 0 ELSE 1)
      /\ count'["verified"] = count["verified"] + 1
      /\ count'["partials"] = count["partials"] /\ count'["dropped"] = count["dropped"]
  BY <1>1, <1>3, RecordView DEF Counter
<1>5. queue \in Seq(VerifyJob) /\ Tail(queue) \in Seq(VerifyJob) /\ Len(Tail(queue)) = Len(queue) - 1
  BY <1>1 DEF Types
<1>6. Cardinality(BadIn(queue)) = Cardinality(BadIn(queue')) + (IF Bad(Head(queue)) THEN 1 ELSE 0)
  BY <1>1, <1>5, BadTail
<1>7. Cardinality(BadIn(queue')) \in Nat
  BY <1>1, <1>5, BadInFinite, Zenon
<1>8. BadHands' = BadHands /\ Lost' = Lost
  BY <1>1 DEF BadHands, Lost, session
<1>9. PICK n \in {0, 1} : n = IF Bad(Head(queue)) THEN 1 ELSE 0
  OBVIOUS
<1>adds. Adds(0, 0, 1, -1, 0)
  BY <1>1, <1>4, <1>5, BalanceTypes DEF Adds
<1>10. Accounted' /\ Unverified' = Unverified + 0
  BY <1>adds, LedgerMoves
<1>11. /\ count'["errors"] = count["errors"] + n
       /\ Cardinality(BadHands') = Cardinality(BadHands) + 0
       /\ Cardinality(Lost') = Cardinality(Lost) + 0 /\ wrong' = wrong + 0
  BY <1>1, <1>2, <1>4, <1>8, <1>9, Unmoved, Zenon
<1>12. Cardinality(BadIn(queue')) = Cardinality(BadIn(queue)) + (0 - n)
  BY <1>6, <1>7, <1>9
<1>14. n + 0 + (0 - n) <= 0 /\ 0 <= n + 0 + (0 - n) + 0 + 0 /\ n \in Int /\ 0 - n \in Int
  OBVIOUS
<1> QED
  BY <1>10, <1>11, <1>12, <1>14, BalanceMoves

\* The balance holds after every step.
LEMMA BalanceStep == Types /\ Stages /\ Accounted /\ Balance /\ [Next]_vars => Accounted' /\ Balance'
<1> SUFFICES ASSUME Types, Stages, Accounted, Balance, [Next]_vars PROVE Accounted' /\ Balance'
  OBVIOUS
<1>1. ASSUME UNCHANGED <<session, every, samples, queue, wrong>>,
             \A j \in {"errors", "partials", "verified", "dropped"} : count'[j] = count[j]
      PROVE  Accounted' /\ Balance'
  BY <1>1, BalanceJudged, Zenon DEF Ledger, BadHands, Lost, session
<1>2. CASE UNCHANGED vars \/ Done \/ Tick \/ CsvFails \/ CollectEnd \/ Finish
  BY <1>1, <1>2 DEF Done, Tick, CsvFails, CollectEnd, Finish, vars
<1>3. ASSUME NEW s \in Session, Proceed(s) \/ LoopTop(s) \/ SendFrame(s) \/ Ping(s)
      PROVE  Accounted' /\ Balance'
  <2>1. EmptyHanded(s) /\ UNCHANGED <<every, samples, queue, count, wrong>>
    BY <1>3, MoveView, Zenon
  <2> QED
    BY <2>1, HandsSame, BalanceJudged, Zenon DEF Ledger
<1>4. ASSUME NEW s \in Session, EmptyHanded(s), Judged, UNCHANGED <<every, samples, queue>>
      PROVE  Accounted' /\ Balance'
  <2>1. Ledger' = Ledger
    BY <1>4 DEF Ledger, Judged, Counter
  <2> QED
    BY <1>4, <2>1, HandsSame, BalanceJudged, Zenon
<1>5. ASSUME NEW s \in Session, Undecodable(s) PROVE Accounted' /\ Balance'
  BY <1>4, <1>5, UndecodableView, Zenon
<1>6. ASSUME NEW s \in Session, NEW r \in Ranges, ErrorAnswer(s, r) PROVE Accounted' /\ Balance'
  BY <1>4, <1>6, ErrorView, Zenon
<1>7. ASSUME NEW s \in Session, NEW r \in Ranges, NEW shift \in {0, 1}, NEW sane \in BOOLEAN,
             PartialAnswer(s, Partial(s, r, shift, sane))
      PROVE  Accounted' /\ Balance'
  <2>1. /\ (Judged /\ EmptyHanded(s)) \/ (\E job \in VerifyJob : Holds(s, job))
        /\ UNCHANGED <<every, samples, queue>>
    BY <1>7, PartialView
  <2> QED
    BY <1>4, <2>1, BalanceHolds, Zenon
<1>8. ASSUME NEW s \in Session, SampleSent(s) PROVE Accounted' /\ Balance'
  BY <1>8, BalanceSample
<1>9. ASSUME NEW s \in Session,
             TimedOut(s) \/ IoError(s) \/ PeerCloses(s) \/ CloseGrace(s) \/ Elapse(s) \/ Panic(s)
      PROVE  Accounted' /\ Balance'
  <2>1. \/ \E k \in {"connect", "send", "close"} : Leaves(s, "returned", k) /\ UNCHANGED <<count, wrong>>
        \/ \E k \in {"ok", "io", "session"} : Leaves(s, "returned", k) /\ Judged
        \/ Leaves(s, "panicked", "panic") /\ UNCHANGED <<count, wrong>>
    BY <1>9, EndView, Zenon
  <2> QED
    BY <2>1, BalanceLeaves, Zenon
<1>10. ASSUME NEW s \in Session, RecordOutcome(s) PROVE Accounted' /\ Balance'
  <2>1. /\ pc' = [pc EXCEPT ![s] = "recorded"] /\ pc[s] = "returned"
        /\ UNCHANGED <<every, inHand, cause, samples, queue, wrong>>
        /\ count' = Add(count, "protocol", IF cause[s] = "ok" THEN 0 ELSE 1)
    BY <1>10, Zenon DEF RecordOutcome, GoTo
  <2>2. \A j \in {"errors", "partials", "verified", "dropped"} : count'[j] = count[j]
    BY <2>1, Zenon DEF Add, Counter, Types, TypeOK
  <2>3. BadHands' = BadHands /\ Lost' = Lost
    BY <2>1 DEF BadHands, Lost, Types, TypeOK
  <2> QED
    BY <2>1, <2>2, <2>3, BalanceJudged, Zenon DEF Ledger
<1>11. CASE VerifyOne
  BY <1>11, BalanceVerify, Zenon
<1>12. CASE Collect
  <2>1. /\ samples' = samples - 1 /\ count' = Add(count, "partials", 1)
        /\ UNCHANGED <<every, session, queue, wrong>>
    BY <1>12, Zenon DEF Collect
  <2>2. /\ count'["partials"] = count["partials"] + 1
        /\ \A j \in {"errors", "verified", "dropped"} : count'[j] = count[j]
    BY <2>1, Zenon DEF Add, Counter, Types, TypeOK
  <2>3. BadHands' = BadHands /\ Lost' = Lost
    BY <2>1, Zenon DEF BadHands, Lost, session
  <2>4. Adds(-1, 1, 0, 0, 0)
    BY <2>1, <2>2, BalanceTypes DEF Adds
  <2>5. Accounted' /\ Unverified' = Unverified + 0
    BY <2>4, LedgerMoves
  <2>6. /\ count'["errors"] = count["errors"] + 0 /\ wrong' = wrong + 0
        /\ Cardinality(BadHands') = Cardinality(BadHands) + 0
        /\ Cardinality(BadIn(queue')) = Cardinality(BadIn(queue)) + 0
        /\ Cardinality(Lost') = Cardinality(Lost) + 0
    BY <2>1, <2>2, <2>3, Unmoved
  <2>7. 0 + 0 + 0 <= 0 /\ 0 <= 0 + 0 + 0 + 0 + 0 /\ 0 \in Int
    OBVIOUS
  <2> QED
    BY <2>5, <2>6, <2>7, BalanceMoves, Zenon
<1>13. CASE Join
  <2>1. /\ count' = Add(count, "faults", Cardinality({s \in Session : pc[s] = "panicked"}))
        /\ UNCHANGED <<every, session, samples, queue, wrong>>
    BY <1>13, Zenon DEF Join
  <2>2. \A j \in {"errors", "partials", "verified", "dropped"} : count'[j] = count[j]
    BY <2>1 DEF Add, Counter, Types, TypeOK
  <2> QED
    BY <1>1, <2>1, <2>2, Zenon
<1> QED
  BY <1>2, <1>3, <1>5, <1>6, <1>7, <1>8, <1>9, <1>10, <1>11, <1>12, <1>13, TaskView, Zenon
     DEF Next, MainStep
-----------------------------------------------------------------------------
\* The inductive invariant.
LEMMA LoadInvHolds == Spec => []LoadInv
<1>1. Init => LoadInv
  BY InitTypes, InitStages, InitTally, InitBalance DEF LoadInv
<1>2. LoadInv /\ [Next]_vars => LoadInv'
  BY TypesStep, StagesStep, TallyStep, BalanceStep DEF LoadInv
<1> QED
  BY <1>1, <1>2, PTL DEF Spec

\* The variables keep their types and the two channels stay within their capacities.
THEOREM LoadgenTypeCorrect == Spec => []TypeOK
<1>1. LoadInv => TypeOK
  BY Zenon DEF LoadInv, Types
<1> QED
  BY <1>1, LoadInvHolds, PTL

\* The summary counts every failed session once, under its cause, and every panic.
THEOREM SummaryCountsFailures == Spec => []FailuresCounted
<1>1. LoadInv => FailuresCounted
  <2> SUFFICES ASSUME LoadInv, main = "done" PROVE FailuresCounted
    BY DEF FailuresCounted
  <2>1. Types /\ Stages /\ Tally
    BY DEF LoadInv
  <2>2. \A s \in Session : pc[s] = "recorded" \/ (pc[s] = "panicked" /\ cause[s] = "panic")
    BY <2>1 DEF Stages
  <2>3. RecordedAs({"io"} \cup TimeoutKind) = {s \in Session : cause[s] \in {"io"} \cup TimeoutKind}
    BY <2>2 DEF RecordedAs, TimeoutKind
  <2>4. RecordedAs({"session"}) = {s \in Session : cause[s] \in {"session"}}
    BY <2>2, Zenon DEF RecordedAs
  <2>5. count["protocol"] = EndedBy({"io"} \cup TimeoutKind) /\ timeouts["session"] = EndedBy({"session"})
    BY <2>1, <2>3, <2>4, Zenon DEF Tally, EndedBy
  <2> QED
    BY <2>1, <2>5 DEF Tally, FailuresCounted, TimeoutKind
<1> QED
  BY <1>1, LoadInvHolds, PTL

\* With --verify-every 1, a partial main counted was verified or counted as dropped.
THEOREM EveryPartialAccounted == Spec => []PartialsAccounted
<1>1. LoadInv => PartialsAccounted
  <2> SUFFICES ASSUME LoadInv, main = "done", every = 1 PROVE PartialsAccounted
    BY DEF PartialsAccounted
  <2>1. samples = 0 /\ queue = <<>> /\ Types /\ Accounted
    BY Zenon DEF LoadInv, Stages
  <2> QED
    BY <2>1, BalanceTypes DEF Accounted, PartialsAccounted
<1> QED
  BY <1>1, LoadInvHolds, PTL

\* No wrong response is recorded twice, by the session and by the verifier.
THEOREM WrongRecordedOnce == Spec => []RecordedOnce
<1>1. LoadInv => RecordedOnce
  BY BalanceTypes DEF LoadInv, Balance, RecordedOnce
<1> QED
  BY <1>1, LoadInvHolds, PTL

\* When the error-rate gate lets no failed session through, PASS means that no response
\* in any session was wrong.  (With a budget it does not: a failed session may take a
\* wrong response with it.)
THEOREM PassIsCorrect == ErrorBudget = 0 => (Spec => []PassMeansCorrect)
<1> SUFFICES ASSUME ErrorBudget = 0 PROVE Spec => []PassMeansCorrect
  OBVIOUS
<1>1. LoadInv => PassMeansCorrect
  <2> SUFFICES ASSUME LoadInv, Pass PROVE wrong = 0
    BY DEF PassMeansCorrect
  <2>1. /\ Types /\ Stages /\ Tally /\ Balance
        /\ main = "done" /\ count["faults"] = 0 /\ CountErrors <= 0 /\ count["errors"] = 0
        /\ count["verified"] = count["partials"]
    BY DEF LoadInv, Pass, VerificationIncomplete
  <2>2. samples = 0 /\ queue = <<>>
    BY <2>1, Zenon DEF Stages
  <2>3. BadHands = {} /\ BadIn(queue) = {} /\ Len(queue) = 0
    BY <2>1, <2>2 DEF Stages, BadHands, BadIn
  <2>4. Total \in Nat /\ count["inference"] \in Nat /\ count["protocol"] \in Nat
    BY <2>1 DEF Total, Types, TypeOK, TimeoutKind, Counter
  <2>5. count["protocol"] = 0
    BY <2>1, <2>4 DEF CountErrors, Larger
  <2>6. RecordedAs({"io"} \cup TimeoutKind) = {} /\ {s \in Session : cause[s] \in {"panic"}} = {}
    <3>1. /\ Cardinality(RecordedAs({"io"} \cup TimeoutKind)) = 0
          /\ Cardinality({s \in Session : cause[s] \in {"panic"}}) = 0
      BY <2>1, <2>5 DEF Tally, EndedBy
    <3>2. RecordedAs({"io"} \cup TimeoutKind) \in SUBSET Session
      BY Zenon DEF RecordedAs
    <3> QED
      BY <3>1, <3>2, SessionSets, FS_EmptySet
  <2>7. Lost = {}
    BY <2>1, <2>6 DEF Lost, Stages, RecordedAs, TimeoutKind
  <2>8. Cardinality({}) = 0
    BY FS_EmptySet
  <2>9. Unverified = 0
    BY <2>1, <2>2, <2>3, BalanceTypes DEF Unverified
  <2>10. wrong <= 0 + 0 + 0 + 0 + 0
    BY <2>1, <2>3, <2>7, <2>8, <2>9 DEF Balance
  <2> QED
    BY <2>1, <2>10, BalanceTypes
<1> QED
  BY <1>1, LoadInvHolds, PTL
=============================================================================
