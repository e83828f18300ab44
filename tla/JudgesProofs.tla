---------------------------- MODULE JudgesProofs ----------------------------
(***************************************************************************)
(* The contract and the clients that judge it, for any number of           *)
(* connections, frames and answers.                                        *)
(* First, that the tail a gateway may leave unreported can be kept: the    *)
(* deadlines of rust-sync bound it, for every flush interval, timeout,     *)
(* jitter and bound on the loop's stalls.                                  *)
(* Second, what every gateway that implements SttContract inherits: its    *)
(* answers tile the frames, partials are computed from their own audio,    *)
(* and an ended session stays silent.                                      *)
(* Third, that a gateway that keeps the contract is never accused: what    *)
(* the clients check follows from what the contract promises.              *)
(* Last, that the continuity check reports what it should: one report for  *)
(* one flaw of a stream that tiles otherwise, none for a stream that tiles.*)
(***************************************************************************)
EXTENDS Judges, Continuity, RustSyncTimers, SequenceTheorems, TLAPS

\* More than the provers' default time, for slow machines.
USE SMTT(30)
-----------------------------------------------------------------------------
(* The clock of thread A. *)

\* The loop: `now` is no older than the iteration, the heap's entry is at most
\* one iteration older than that, and what has not been read came after `now`.
LoopInv ==
  /\ now <= 0
  /\ -now <= lag
  /\ -MaxStall <= entry + lag
  /\ pc = "timers" => ~readable
  /\ pc # "poll" /\ ~readable => arrived <= -now

\* The audio: what waits behind a request came after the request was started, and
\* what waits without one is flushed before it exceeds a timeout and an interval.
AudioInv ==
  /\ batch # 0 =>
       /\ buffered + arrived <= -started
       /\ flushIn - started <= FlushInterval + InferenceTimeout
       /\ batch <= FlushInterval + Wait + 2 * MaxStall
  /\ batch = 0 =>
       buffered + arrived + flushIn <= FlushInterval + Wait

ClockInv == ClockTypeOK /\ HeapCoversDeadline /\ LoopInv /\ AudioInv

\* A flush is put off for no less than a timeout or the phase jitter.
LEMMA WaitBound == Wait \in Nat /\ Wait >= InferenceTimeout /\ Wait >= Jitter
BY TimingAssumption DEF Wait

\* A new connection satisfies the inductive invariant.
LEMMA ClockInitially == ClockInit => ClockInv
<1> SUFFICES ASSUME ClockInit PROVE ClockInv
  OBVIOUS
<1>1. readable \in BOOLEAN /\ ~readable
  BY Zenon DEF ClockInit
<1> QED
  BY <1>1, TimingAssumption, WaitBound
     DEF ClockInit, ClockInv, ClockTypeOK, HeapCoversDeadline, ConnDeadline, LoopInv, AudioInv

\* Every step of the loop, of the client and of the clock keeps it.
LEMMA ClockStep == ClockInv /\ [ClockNext]_clock => ClockInv'
<1> SUFFICES ASSUME ClockInv, [ClockNext]_clock PROVE ClockInv'
  OBVIOUS
<1> USE TimingAssumption, WaitBound
    DEF ClockInv, ClockTypeOK, HeapCoversDeadline, ConnDeadline, LoopInv, AudioInv
<1>1. ASSUME NEW frame \in {0, 1}, Tick(frame) PROVE ClockInv'
  BY <1>1 DEF Tick, Due
<1>2. CASE PollReturns
  <2>1. readable' = (arrived > 0)
    BY <1>2, Zenon DEF PollReturns
  <2>2. readable' \in BOOLEAN
    <3>1. (arrived > 0) \in BOOLEAN
      BY SMT
    <3> QED
      BY <2>1, <3>1, Zenon
  <2>3. ~readable' => ~(arrived > 0)
    BY <2>1, Zenon
  <2> QED
    BY <1>2, <2>2, <2>3 DEF PollReturns
<1>3. CASE ReadSocket
  <2>1. readable' \in BOOLEAN /\ ~readable'
    BY <1>3, Zenon DEF ReadSocket
  <2> QED
    BY <1>3, <2>1 DEF ReadSocket
<1>4. CASE OnDone
  BY <1>4 DEF OnDone
<1>5. CASE HeapBegin
  BY <1>5 DEF HeapBegin
<1>6. CASE HeapTimeout
  BY <1>6 DEF HeapTimeout, Overdue
<1>7. CASE HeapKeep
  BY <1>7 DEF HeapKeep, Overdue
<1>8. CASE HeapFlush
  BY <1>8 DEF HeapFlush, Overdue
<1>9. CASE HeapEnd
  BY <1>9 DEF HeapEnd
<1>10. CASE UNCHANGED clock
  BY <1>10 DEF clock
<1> QED
  BY <1>1, <1>2, <1>3, <1>4, <1>5, <1>6, <1>7, <1>8, <1>9, <1>10, Zenon DEF ClockNext

\* The inductive invariant implies each bound.
LEMMA ClockBounds == ClockInv => FlushNeverLate /\ AnswerBounded /\ TailBound
BY TimingAssumption, WaitBound
   DEF ClockInv, ClockTypeOK, HeapCoversDeadline, ConnDeadline, LoopInv, AudioInv,
       FlushNeverLate, AnswerBounded, TailBound, Owed

\* The inductive invariant holds in every reachable state of the loop.
THEOREM ClockInvariant == ClockSpec => []ClockInv
BY ClockInitially, ClockStep, PTL DEF ClockSpec

\* Every variable keeps its type.
THEOREM ClockTypeCorrect == ClockSpec => []ClockTypeOK
BY ClockInvariant, PTL DEF ClockInv

\* The heap never sleeps past a connection's deadline.
THEOREM HeapIsEarly == ClockSpec => []HeapCoversDeadline
BY ClockInvariant, PTL DEF ClockInv

\* A flush deadline is handled within two iterations of the loop.
THEOREM FlushOnTime == ClockSpec => []FlushNeverLate
BY ClockInvariant, ClockBounds, PTL

\* A batch is answered within the timeout and two iterations of the loop.
THEOREM AnsweredOnTime == ClockSpec => []AnswerBounded
BY ClockInvariant, ClockBounds, PTL

\* The audio a client is owed never exceeds the load generator's F + 2T (for a jitter
\* up to the timeout) and four iterations of the loop.
THEOREM TailIsBounded == ClockSpec => []TailBound
BY ClockInvariant, ClockBounds, PTL

-----------------------------------------------------------------------------
(* What the contract promises. *)

\* The frame number that LastAnswered reads off a session's answers is a number.
LEMMA LastAnsweredType ==
  ASSUME NEW s \in Seq(Answer) PROVE LastAnswered(s) \in Nat
<1>1. CASE s = <<>>
  BY <1>1 DEF LastAnswered
<1>2. CASE s # <<>>
  <2>1. Len(s) \in 1 .. Len(s)
    BY <1>2
  <2>2. s[Len(s)] \in Answer
    BY <2>1
  <2> QED
    BY <1>2, <2>2 DEF LastAnswered, Answer
<1> QED
  BY <1>1, <1>2

\* Every variable of the contract keeps its type.
THEOREM TypeCorrect == Spec => []TypeOK
<1>1. Init => TypeOK
  BY DEF Init, TypeOK, Phases, Codes, Batch, NoBatch
<1>2. TypeOK /\ [Next]_vars => TypeOK'
  <2> SUFFICES ASSUME TypeOK, [Next]_vars PROVE TypeOK'
    OBVIOUS
  <2> USE DEF TypeOK, Phases, Codes
  <2>1. ASSUME NEW c \in Conn, Open(c) PROVE TypeOK'
    BY <2>1 DEF Open
  <2>2. ASSUME NEW c \in Conn, Start(c) PROVE TypeOK'
    BY <2>2 DEF Start
  <2>3. ASSUME NEW c \in Conn, Flush(c) PROVE TypeOK'
    <3>1. LastAnswered(out[c]) \in Nat
      BY LastAnsweredType
    <3>2. [oldest |-> LastAnswered(out[c]) + 1, newest |-> received[c]] \in Batch
      BY <3>1 DEF Batch
    <3> QED
      BY <2>3, <3>2 DEF Flush
  <2>4. ASSUME NEW c \in Conn, NEW lost \in BOOLEAN, Frame(c, lost) PROVE TypeOK'
    BY <2>4 DEF Frame, After, NoBatch, Batch
  <2>5. ASSUME NEW c \in Conn, NEW kind \in {"partial", "error"}, NEW queued \in BOOLEAN,
               NEW lost \in BOOLEAN, Respond(c, kind, queued, lost)
        PROVE TypeOK'
    <3>1. [kind |-> kind, oldest |-> inflight[c].oldest, newest |-> inflight[c].newest,
           audio |-> IF kind = "partial" THEN AudioOf(c, inflight[c]) ELSE NoAudio] \in Answer
      BY DEF Answer, Audio, AudioOf, NoAudio, Batch
    <3>2. out' \in [Conn -> Seq(Answer)]
      BY <2>5, <3>1 DEF Respond
    <3>3. sent' \in [Conn -> Nat]
      <4> HIDE DEF TypeOK, Phases, Codes
      <4>1. sent' = sent \/ sent' = [sent EXCEPT ![c] = @ + 1]
        BY <2>5, Zenon DEF Respond
      <4>2. sent \in [Conn -> Nat]
        BY DEF TypeOK
      <4>3. CASE sent' = sent
        BY <4>2, <4>3
      <4>4. CASE sent' = [sent EXCEPT ![c] = @ + 1]
        BY <4>2, <4>4
      <4> QED
        BY <4>1, <4>3, <4>4
    <3>4. phase' \in [Conn -> Phases]
      BY <2>5 DEF Respond, After
    <3> QED
      BY <2>5, <3>2, <3>3, <3>4 DEF Respond, NoBatch, Batch
  <2>6. ASSUME NEW c \in Conn, NEW k \in Codes, End(c, k) PROVE TypeOK'
    BY <2>6 DEF End, NoBatch, Batch
  <2>7. ASSUME NEW c \in Conn, Send(c) PROVE TypeOK'
    BY <2>7 DEF Send
  <2>8. CASE UNCHANGED vars
    BY <2>8 DEF vars
  <2> QED
    BY <2>1, <2>2, <2>3, <2>4, <2>5, <2>6, <2>7, <2>8 DEF Next
<1> QED
  BY <1>1, <1>2, PTL DEF Spec

-----------------------------------------------------------------------------
\* An answer that continues the sequence keeps it consecutive.
LEMMA ConsecutiveAppend ==
  ASSUME NEW s \in Seq(Answer), NEW m \in Answer,
         Consecutive(s), m.oldest = LastAnswered(s) + 1, m.oldest <= m.newest
  PROVE  /\ Consecutive(Append(s, m))
         /\ LastAnswered(Append(s, m)) = m.newest
<1> DEFINE t == Append(s, m)
<1>1. /\ t \in Seq(Answer) /\ Len(t) = Len(s) + 1 /\ t[Len(s) + 1] = m /\ t # <<>>
      /\ Len(s) \in Nat
      /\ \A i \in 1 .. Len(s) : t[i] = s[i]
      /\ DOMAIN t = 1 .. Len(s) + 1 /\ DOMAIN s = 1 .. Len(s)
  OBVIOUS
<1>2. LastAnswered(t) = m.newest
  BY <1>1 DEF LastAnswered
<1>3. \A i \in DOMAIN t : t[i].oldest <= t[i].newest
  BY <1>1 DEF Consecutive
<1>4. t[1].oldest = 1
  <2>1. CASE s = <<>>
    BY <1>1, <2>1 DEF LastAnswered
  <2>2. CASE s # <<>>
    BY <1>1, <2>2 DEF Consecutive
  <2> QED BY <2>1, <2>2
<1>5. ASSUME NEW i \in 2 .. Len(t) PROVE t[i].oldest = t[i-1].newest + 1
  <2>1. CASE i = Len(s) + 1
    <3>1. Len(s) >= 1 /\ i - 1 = Len(s)
      BY <1>1, <2>1
    <3>2. s # <<>> /\ t[i-1] = s[Len(s)]
      BY <1>1, <3>1
    <3> QED
      BY <1>1, <2>1, <3>2, Zenon DEF LastAnswered
  <2>2. CASE i # Len(s) + 1
    <3>1. i \in 2 .. Len(s) /\ t[i] = s[i] /\ t[i-1] = s[i-1]
      BY <1>1, <2>2
    <3> QED
      BY <3>1 DEF Consecutive
  <2> QED BY <2>1, <2>2
<1> HIDE DEF t
<1>6. Consecutive(t)
  BY <1>3, <1>4, <1>5 DEF Consecutive
<1> QED
  BY <1>2, <1>6 DEF t

\* Tiling as it stands is inductive once the types are known.
LEMMA TilingStep ==
  ASSUME TypeOK, Tiling, [Next]_vars PROVE Tiling'
<1> USE DEF TypeOK
<1>0. \A d \in Conn : LastAnswered(out[d]) \in Nat
  BY LastAnsweredType
<1>1. ASSUME NEW c \in Conn, Open(c) PROVE Tiling'
  BY <1>1 DEF Open, Tiling
<1>2. ASSUME NEW c \in Conn, Start(c) PROVE Tiling'
  BY <1>2 DEF Start, Tiling
<1>3. ASSUME NEW c \in Conn, Flush(c) PROVE Tiling'
  BY <1>0, <1>3 DEF Flush, Tiling, Batch
<1>4. ASSUME NEW c \in Conn, NEW lost \in BOOLEAN, Frame(c, lost) PROVE Tiling'
  BY <1>0, <1>4 DEF Frame, Tiling, Batch
<1>5. ASSUME NEW c \in Conn, NEW kind \in {"partial", "error"}, NEW queued \in BOOLEAN,
             NEW lost \in BOOLEAN, Respond(c, kind, queued, lost)
      PROVE Tiling'
  <2> DEFINE m == [kind |-> kind, oldest |-> inflight[c].oldest, newest |-> inflight[c].newest,
                   audio |-> IF kind = "partial" THEN AudioOf(c, inflight[c]) ELSE NoAudio]
  <2>1. m \in Answer
    BY DEF Answer, Audio, AudioOf, NoAudio, Batch
  <2>2. /\ inflight[c].oldest = LastAnswered(out[c]) + 1
        /\ inflight[c].oldest <= inflight[c].newest
        /\ inflight[c].newest <= received[c]
        /\ Consecutive(out[c])
    BY <1>5 DEF Respond, Tiling
  <2>3. /\ Consecutive(Append(out[c], m))
        /\ LastAnswered(Append(out[c], m)) = inflight[c].newest
    BY <2>1, <2>2, ConsecutiveAppend, Zenon
  <2>4. /\ out' = [out EXCEPT ![c] = Append(out[c], m)]
        /\ inflight' = [inflight EXCEPT ![c] = NoBatch]
        /\ received' = received
    BY <1>5 DEF Respond
  <2>5. sent' = sent \/ sent' = [sent EXCEPT ![c] = @ + 1]
    BY <1>5, Zenon DEF Respond
  <2>6. Len(Append(out[c], m)) = Len(out[c]) + 1
    BY <2>1
  <2> HIDE DEF m
  <2>7. ASSUME NEW d \in Conn PROVE sent'[d] <= Len(out'[d])
    BY <2>4, <2>5, <2>6 DEF Tiling
  <2> QED
    BY <2>2, <2>3, <2>4, <2>7 DEF Tiling
<1>6. ASSUME NEW c \in Conn, NEW k \in Codes, End(c, k) PROVE Tiling'
  BY <1>6 DEF End, Tiling
<1>7. ASSUME NEW c \in Conn, Send(c) PROVE Tiling'
  BY <1>7 DEF Send, Tiling
<1>8. CASE UNCHANGED vars
  BY <1>8 DEF vars, Tiling
<1> QED
  BY <1>1, <1>2, <1>3, <1>4, <1>5, <1>6, <1>7, <1>8 DEF Next

\* No frame is answered twice, skipped or answered out of order, in any gateway
\* that implements the contract.
THEOREM AnswersTile == Spec => []Tiling
<1>1. Init => Tiling
  <2>1. Consecutive(<<>>) /\ LastAnswered(<<>>) = 0
    BY DEF Consecutive, LastAnswered
  <2>2. ASSUME Init, NEW c \in Conn
        PROVE  out[c] = <<>> /\ inflight[c] = NoBatch /\ received[c] = 0 /\ sent[c] = 0
    BY <2>2 DEF Init
  <2>3. ASSUME Init, NEW c \in Conn
        PROVE  Consecutive(out[c]) /\ LastAnswered(out[c]) = 0
    BY <2>1, <2>2, <2>3, Zenon
  <2>4. 0 <= 0 /\ 0 <= Len(<<>>)
    OBVIOUS
  <2> QED
    BY <2>2, <2>3, <2>4, Zenon DEF Tiling
<1>2. TypeOK /\ Tiling /\ [Next]_vars => Tiling'
  BY TilingStep
<1> QED
  BY <1>1, <1>2, TypeCorrect, PTL DEF Spec

\* A partial is computed from exactly the frames of its own connection that it
\* claims, in any gateway that implements the contract.
THEOREM PartialsMatchAudio == Spec => []AudioMatches
<1>1. Init => AudioMatches
  BY DEF Init, AudioMatches
<1>2. TypeOK /\ AudioMatches /\ [Next]_vars => AudioMatches'
  <2> SUFFICES ASSUME TypeOK, AudioMatches, [Next]_vars PROVE AudioMatches'
    OBVIOUS
  <2>1. CASE UNCHANGED out
    BY <2>1 DEF AudioMatches
  <2>2. ASSUME NEW c \in Conn, NEW kind \in {"partial", "error"}, NEW queued \in BOOLEAN,
               NEW lost \in BOOLEAN, Respond(c, kind, queued, lost)
        PROVE AudioMatches'
    <3> DEFINE m == [kind |-> kind, oldest |-> inflight[c].oldest, newest |-> inflight[c].newest,
                     audio |-> IF kind = "partial" THEN AudioOf(c, inflight[c]) ELSE NoAudio]
    <3>1. m.kind = "partial" => m.audio = AudioOf(c, m)
      BY DEF AudioOf
    <3>2. out' = [out EXCEPT ![c] = Append(out[c], m)]
      BY <2>2 DEF Respond
    <3> HIDE DEF m
    <3>3. ASSUME NEW d \in Conn, NEW i \in DOMAIN out'[d], out'[d][i].kind = "partial"
          PROVE out'[d][i].audio = AudioOf(d, out'[d][i])
      <4>1. out[d] \in Seq(Answer) /\ out \in [Conn -> Seq(Answer)]
        BY DEF TypeOK
      <4>2. CASE d = c /\ i = Len(out[c]) + 1
        BY <3>1, <3>2, <3>3, <4>1, <4>2
      <4>3. CASE ~(d = c /\ i = Len(out[c]) + 1)
        <5>1. i \in DOMAIN out[d] /\ out'[d][i] = out[d][i]
          BY <3>2, <4>1, <4>3
        <5> QED
          BY <3>3, <5>1 DEF AudioMatches
      <4> QED
        BY <4>2, <4>3
    <3> QED
      BY <3>3 DEF AudioMatches
  <2> QED
    BY <2>1, <2>2 DEF Next, Open, Start, Flush, Send, Frame, End, vars
<1> QED
  BY <1>1, <1>2, TypeCorrect, PTL DEF Spec

\* A session that has ended stays ended and silent.
THEOREM EndedIsSilent == Spec => SilentAfterEnd
<1>1. TypeOK /\ [Next]_vars => [Silent]_vars
  <2> SUFFICES ASSUME TypeOK, Next PROVE Silent
    OBVIOUS
  <2>1. ASSUME NEW c \in Conn, Open(c) \/ Start(c) \/ Flush(c) \/ Send(c) PROVE Silent
    BY <2>1 DEF TypeOK, Open, Start, Flush, Send, Silent
  <2>2. ASSUME NEW c \in Conn, NEW lost \in BOOLEAN, Frame(c, lost) PROVE Silent
    BY <2>2 DEF TypeOK, Frame, After, Silent
  <2>3. ASSUME NEW c \in Conn, NEW kind \in {"partial", "error"}, NEW queued \in BOOLEAN,
               NEW lost \in BOOLEAN, Respond(c, kind, queued, lost)
        PROVE Silent
    BY <2>3 DEF TypeOK, Respond, After, Silent
  <2>4. ASSUME NEW c \in Conn, NEW k \in Codes, End(c, k) PROVE Silent
    BY <2>4 DEF TypeOK, End, Silent
  <2> QED
    BY <2>1, <2>2, <2>3, <2>4 DEF Next
<1> QED
  BY <1>1, TypeCorrect, PTL DEF Spec, SilentAfterEnd

-----------------------------------------------------------------------------
\* Watching the gateway, the clients do not change what it does: every behaviour of
\* the composition is one of the contract.
LEMMA JudgedIsContract == JudgeSpec => Spec
<1>1. JudgeInit => Init
  BY DEF JudgeInit
<1>2. [JudgeNext]_allVars => [Next]_vars
  BY ZenonT(60) DEF JudgeNext, GatewayStep, SendFrame, FrameSent, SendFails, Read, ReadClose, Deadline, Pass,
                    allVars, vars
<1> QED
  BY <1>1, <1>2, PTL DEF JudgeSpec, Spec

-----------------------------------------------------------------------------
\* Answers are only ever appended and the number sent never decreases; a new answer
\* ends at a frame that had been received.
LEMMA OutGrows ==
  ASSUME TypeOK, Tiling, Next, NEW c \in Conn
  PROVE  /\ sent[c] <= sent'[c] /\ received[c] <= received'[c]
         /\ DOMAIN out[c] \subseteq DOMAIN out'[c]
         /\ \A i \in DOMAIN out[c] : out'[c][i] = out[c][i]
         /\ \A i \in DOMAIN out'[c] \ DOMAIN out[c] : out'[c][i].newest <= received'[c]
<1> USE DEF TypeOK
<1>1. ASSUME NEW d \in Conn, Open(d) \/ Start(d) \/ Flush(d) PROVE UNCHANGED <<out, sent, received>>
  BY <1>1 DEF Open, Start, Flush
<1>2. ASSUME NEW d \in Conn, NEW k \in Codes, End(d, k) PROVE UNCHANGED <<out, sent, received>>
  BY <1>2 DEF End
<1>3. ASSUME UNCHANGED <<out, sent, received>>
      PROVE  /\ sent[c] <= sent'[c] /\ received[c] <= received'[c]
             /\ DOMAIN out[c] \subseteq DOMAIN out'[c]
             /\ \A i \in DOMAIN out[c] : out'[c][i] = out[c][i]
             /\ \A i \in DOMAIN out'[c] \ DOMAIN out[c] : out'[c][i].newest <= received'[c]
  BY <1>3
<1>4. CASE \E d \in Conn : Send(d)
  BY <1>4 DEF Send
<1>5. CASE \E d \in Conn, lost \in BOOLEAN : Frame(d, lost)
  BY <1>5 DEF Frame
<1>6. ASSUME NEW d \in Conn, NEW kind \in {"partial", "error"}, NEW queued \in BOOLEAN,
             NEW lost \in BOOLEAN, Respond(d, kind, queued, lost)
      PROVE  /\ sent[c] <= sent'[c] /\ received[c] <= received'[c]
             /\ DOMAIN out[c] \subseteq DOMAIN out'[c]
             /\ \A i \in DOMAIN out[c] : out'[c][i] = out[c][i]
             /\ \A i \in DOMAIN out'[c] \ DOMAIN out[c] : out'[c][i].newest <= received'[c]
  <2> DEFINE m == [kind |-> kind, oldest |-> inflight[d].oldest, newest |-> inflight[d].newest,
                   audio |-> IF kind = "partial" THEN AudioOf(d, inflight[d]) ELSE NoAudio]
  <2>1. /\ out' = [out EXCEPT ![d] = Append(out[d], m)]
        /\ received' = received
    BY <1>6 DEF Respond
  <2>2. m.newest <= received[d]
    BY <1>6 DEF Respond, Tiling
  <2>3. sent' = sent \/ sent' = [sent EXCEPT ![d] = @ + 1]
    BY <1>6, Zenon DEF Respond
  <2> HIDE DEF m
  <2>4. sent[c] <= sent'[c]
    <3>1. sent \in [Conn -> Nat]
      OBVIOUS
    <3>2. CASE sent' = sent
      BY <3>1, <3>2
    <3>3. CASE sent' = [sent EXCEPT ![d] = @ + 1]
      BY <3>1, <3>3
    <3> QED
      BY <2>3, <3>2, <3>3
  <2>5. received[c] <= received'[c]
    BY <2>1
  <2>6. CASE d # c
    BY <2>1, <2>4, <2>5, <2>6, Zenon
  <2>7. CASE d = c
    <3>1. out[c] \in Seq(Answer) /\ out'[c] = Append(out[c], m)
      BY <2>1, <2>7
    <3>2. /\ DOMAIN out[c] = 1 .. Len(out[c]) /\ DOMAIN out'[c] = 1 .. Len(out[c]) + 1
          /\ \A i \in 1 .. Len(out[c]) : out'[c][i] = out[c][i]
          /\ out'[c][Len(out[c]) + 1] = m /\ Len(out[c]) \in Nat
      BY <3>1
    <3>3. \A i \in DOMAIN out'[c] \ DOMAIN out[c] : i = Len(out[c]) + 1
      BY <3>2
    <3> QED
      BY <2>1, <2>2, <2>4, <2>5, <2>7, <3>2, <3>3
  <2> QED
    BY <2>6, <2>7
<1> QED
  BY <1>1, <1>2, <1>3, <1>4, <1>5, <1>6, Zenon DEF Next

\* The next answer to read continues right after the frame the tracker stands at.
LEMMA NextContinues ==
  ASSUME TypeOK, Tiling, JudgeTypeOK, InStep, NEW c \in Conn, got[c] < sent[c], ~sending[c]
  PROVE  LET m == out[c][got[c] + 1] IN
         /\ m \in Answer
         /\ got[c] + 1 \in DOMAIN out[c]
         /\ m.oldest = last[c] + 1 /\ m.oldest <= m.newest
         /\ m.newest <= framesSent[c] /\ framesSent[c] <= MaxVerify
<1>1. /\ out[c] \in Seq(Answer) /\ sent[c] \in Nat /\ got[c] \in Nat /\ sent[c] <= Len(out[c])
      /\ Consecutive(out[c]) /\ received[c] \in Nat /\ framesSent[c] \in Nat
      /\ posted[c] \in 0 .. MaxFrames
  BY DEF TypeOK, JudgeTypeOK, Tiling
<1>2. got[c] + 1 \in 1 .. Len(out[c]) /\ DOMAIN out[c] = 1 .. Len(out[c]) /\ out[c] # <<>>
  BY <1>1
<1>3. out[c][got[c] + 1] \in Answer
  BY <1>1, <1>2
<1>4. out[c][got[c] + 1].oldest <= out[c][got[c] + 1].newest
  BY <1>1, <1>2 DEF Consecutive
<1>5. out[c][got[c] + 1].oldest = last[c] + 1
  <2>1. CASE got[c] = 0
    BY <1>1, <1>2, <2>1 DEF Consecutive, InStep
  <2>2. CASE got[c] # 0
    <3>1. got[c] + 1 \in 2 .. Len(out[c]) /\ (got[c] + 1) - 1 = got[c]
      BY <1>1, <1>2, <2>2
    <3>2. out[c][got[c] + 1].oldest = out[c][got[c]].newest + 1
      BY <1>1, <3>1, Zenon DEF Consecutive
    <3> QED
      BY <2>2, <3>2 DEF InStep
  <2> QED
    BY <2>1, <2>2
<1>8. posted[c] = framesSent[c]
  BY <1>1 DEF InStep
<1>6. out[c][got[c] + 1].newest <= received[c] /\ received[c] <= framesSent[c]
  BY <1>2, <1>8 DEF InStep
<1>7. framesSent[c] <= MaxVerify
  BY <1>1, <1>8, RangesVerifiable
<1> QED
  BY <1>1, <1>2, <1>3, <1>4, <1>5, <1>6, <1>7 DEF Answer

\* Such an answer passes every check of both clients.
LEMMA NothingToReport ==
  ASSUME TypeOK, Tiling, AudioMatches, JudgeTypeOK, InStep, NEW c \in Conn, got[c] < sent[c],
         ~sending[c]
  PROVE  Verdict(c, out[c][got[c] + 1]) \in {"streaming", "error"}
<1> DEFINE m == out[c][got[c] + 1]
<1>1. /\ m \in Answer /\ got[c] + 1 \in DOMAIN out[c]
      /\ m.oldest = last[c] + 1 /\ m.oldest <= m.newest
      /\ m.newest <= framesSent[c] /\ framesSent[c] <= MaxVerify
  BY NextContinues
<1>2. /\ m.oldest \in Nat /\ m.newest \in Nat /\ last[c] \in Nat /\ m.oldest # 0
      /\ framesSent[c] \in Nat /\ MaxVerify \in Nat /\ m.kind \in {"partial", "error"}
  BY <1>1, RangesVerifiable DEF Answer, JudgeTypeOK
<1>3. m.kind = "partial" => m.audio = AudioOf(c, m)
  BY <1>1 DEF AudioMatches
<1> HIDE DEF m
<1>4. ~Malformed(m.oldest, m.newest)
  BY <1>1, <1>2 DEF Malformed
<1>5. Gap(last[c], m.oldest, m.newest) = {}
  BY <1>1, <1>2, <1>4 DEF Gap
<1>6. ASSUME m.kind = "partial" PROVE Check(c, AsPartial(m)) = {}
  <2> DEFINE p == AsPartial(m)
  <2>1. /\ p.oldest = m.oldest /\ p.newest = m.newest /\ p.config = TRUE /\ p.sane = TRUE
        /\ p.frames = m.newest - m.oldest + 1 /\ p.bytes = m.newest - m.oldest + 1
        /\ p.audio = [conn |-> c, first |-> m.oldest, last |-> m.newest]
    BY <1>3, <1>6 DEF AsPartial, AudioOf
  <2> HIDE DEF p
  <2>2. Gap(last[c], p.oldest, p.newest) = {} /\ ~Malformed(p.oldest, p.newest)
    BY <1>4, <1>5, <2>1, Zenon
  <2>3. p.frames > 0 /\ p.bytes > 0 /\ p.sane
    BY <1>1, <1>2, <2>1
  <2>4. Valid(p)
    BY <2>2, <2>3, Zenon DEF Valid
  <2>5. Unsent(p, framesSent[c]) = {}
    BY <1>1, <1>2, <2>1 DEF Unsent, When
  <2>6. ~(p.newest - p.oldest + 1 > MaxVerify)
    BY <1>1, <1>2, <2>1
  <2>7. VerifyPartial(c, p) = {}
    <3>1. p.frames = p.newest - p.oldest + 1 /\ p.bytes = p.newest - p.oldest + 1
          /\ p.audio = [conn |-> c, first |-> p.oldest, last |-> p.newest]
      BY <2>1
    <3> QED
      BY <2>1, <2>2, <2>6, <3>1 DEF VerifyPartial, When
  <2> QED
    BY <2>2, <2>4, <2>5, <2>7, Zenon DEF Check, When, p
<1>7. Verdict(c, m) \in {"streaming", "error"}
  BY <1>2, <1>5, <1>6 DEF Verdict
<1> QED
  BY <1>7 DEF m

-----------------------------------------------------------------------------
\* The strengthening is preserved by every step of the gateway and of a client.
LEMMA JudgeStep ==
  ASSUME TypeOK, TypeOK', Tiling, AudioMatches, JudgeTypeOK, InStep, NeverAccused,
         [JudgeNext]_allVars
  PROVE  JudgeTypeOK' /\ InStep' /\ NeverAccused'
<1>1. CASE GatewayStep
  <2>1. Next /\ UNCHANGED judge /\ \A c \in Conn : received'[c] <= posted[c]
    BY <1>1 DEF GatewayStep
  <2>2. JudgeTypeOK' /\ NeverAccused'
    BY <2>1, Zenon DEF judge, JudgeTypeOK, NeverAccused
  <2>3. ASSUME NEW c \in Conn
        PROVE  /\ got'[c] <= sent'[c]
               /\ last'[c] = IF got'[c] = 0 THEN 0 ELSE out'[c][got'[c]].newest
               /\ received'[c] <= posted'[c]
               /\ \A i \in DOMAIN out'[c] : out'[c][i].newest <= received'[c]
    <3>1. /\ got'[c] = got[c] /\ last'[c] = last[c] /\ posted'[c] = posted[c]
          /\ received'[c] <= posted[c]
      BY <2>1 DEF judge
    <3>2. /\ got[c] \in Nat /\ sent[c] \in Nat /\ sent'[c] \in Nat /\ out[c] \in Seq(Answer)
          /\ received[c] \in Nat /\ received'[c] \in Nat /\ out'[c] \in Seq(Answer)
      BY Zenon DEF TypeOK, JudgeTypeOK
    <3>3. /\ sent[c] <= sent'[c] /\ received[c] <= received'[c]
          /\ DOMAIN out[c] \subseteq DOMAIN out'[c]
          /\ \A i \in DOMAIN out[c] : out'[c][i] = out[c][i]
          /\ \A i \in DOMAIN out'[c] \ DOMAIN out[c] : out'[c][i].newest <= received'[c]
      BY <2>1, OutGrows
    <3>4. /\ got[c] <= sent[c] /\ sent[c] <= Len(out[c])
          /\ last[c] = IF got[c] = 0 THEN 0 ELSE out[c][got[c]].newest
          /\ \A i \in DOMAIN out[c] : out[c][i].newest <= received[c]
      BY DEF InStep, Tiling
    <3>5. got[c] # 0 => out'[c][got[c]] = out[c][got[c]]
      BY <3>2, <3>3, <3>4
    <3>6. ASSUME NEW i \in DOMAIN out'[c] PROVE out'[c][i].newest <= received'[c]
      <4>1. CASE i \in DOMAIN out[c]
        <5>1. out'[c][i] = out[c][i] /\ out[c][i].newest <= received[c] /\ out[c][i] \in Answer
          BY <3>2, <3>3, <3>4, <4>1
        <5>2. out[c][i].newest \in Nat
          BY <5>1 DEF Answer
        <5> QED
          BY <3>2, <3>3, <5>1, <5>2
      <4>2. CASE i \notin DOMAIN out[c]
        BY <3>3, <4>2, Zenon
      <4> QED
        BY <4>1, <4>2
    <3> QED
      BY <3>1, <3>2, <3>3, <3>4, <3>5, <3>6
  <2>4. \A c \in Conn :
           posted'[c] = framesSent'[c] + (IF sending'[c] /\ ~CountsFirst(c)' THEN 1 ELSE 0)
    BY <2>1, Zenon DEF judge, InStep, CountsFirst
  <2> QED
    BY <2>2, <2>3, <2>4, Zenon DEF InStep
<1>2. ASSUME NEW c \in Conn, SendFrame(c) \/ FrameSent(c) PROVE JudgeTypeOK' /\ InStep' /\ NeverAccused'
  <2>0. /\ framesSent[c] \in Nat /\ posted[c] \in 0 .. MaxFrames /\ received[c] \in Nat
        /\ received[c] <= posted[c] /\ CountsFirst(c) \in BOOLEAN
        /\ posted[c] = framesSent[c] + (IF sending[c] /\ ~CountsFirst(c) THEN 1 ELSE 0)
    BY DEF TypeOK, JudgeTypeOK, InStep, CountsFirst
  <2>1. /\ UNCHANGED <<vars, tool, got, last, outcome>>
        /\ \E n, p, b : /\ framesSent' = [framesSent EXCEPT ![c] = n]
                         /\ posted' = [posted EXCEPT ![c] = p]
                         /\ sending' = [sending EXCEPT ![c] = b]
                         /\ n \in Nat /\ p \in 0 .. MaxFrames /\ b \in BOOLEAN /\ posted[c] <= p
                         /\ p = n + (IF b /\ ~CountsFirst(c) THEN 1 ELSE 0)
    <3>1. /\ [framesSent EXCEPT ![c] = framesSent[c]] = framesSent
          /\ [posted EXCEPT ![c] = posted[c]] = posted
      BY DEF JudgeTypeOK
    <3>2. CASE SendFrame(c)
      <4>1. /\ UNCHANGED <<vars, tool, got, last, outcome>> /\ ~sending[c] /\ posted[c] < MaxFrames
            /\ posted' = [posted EXCEPT ![c] = posted[c] + 1]
            /\ sending' = [sending EXCEPT ![c] = TRUE]
            /\ framesSent' = IF CountsFirst(c) THEN [framesSent EXCEPT ![c] = framesSent[c] + 1]
                                               ELSE framesSent
        BY <3>2, Zenon DEF SendFrame, Counted
      <4>2. /\ posted[c] + 1 \in 0 .. MaxFrames /\ posted[c] <= posted[c] + 1
            /\ posted[c] = framesSent[c] /\ framesSent[c] + 1 \in Nat
        BY <2>0, <4>1, RangesVerifiable
      <4>3. CASE CountsFirst(c)
        <5>1. posted[c] + 1 = (framesSent[c] + 1) + (IF TRUE /\ ~CountsFirst(c) THEN 1 ELSE 0)
          BY <2>0, <4>2, <4>3
        <5> QED
          BY <4>1, <4>2, <4>3, <5>1, Zenon
      <4>4. CASE ~CountsFirst(c)
        <5>1. posted[c] + 1 = framesSent[c] + (IF TRUE /\ ~CountsFirst(c) THEN 1 ELSE 0)
          BY <2>0, <4>2, <4>4
        <5> QED
          BY <2>0, <3>1, <4>1, <4>2, <4>4, <5>1, Zenon
      <4> QED
        BY <4>3, <4>4, Zenon
    <3>3. CASE FrameSent(c)
      <4>1. /\ UNCHANGED <<vars, tool, got, last, outcome>> /\ sending[c] /\ posted' = posted
            /\ sending' = [sending EXCEPT ![c] = FALSE]
            /\ framesSent' = IF CountsFirst(c) THEN framesSent
                             ELSE [framesSent EXCEPT ![c] = framesSent[c] + 1]
        BY <3>3, Zenon DEF FrameSent, Counted
      <4>2. posted[c] <= posted[c] /\ framesSent[c] + 1 \in Nat
        BY <2>0
      <4>3. CASE CountsFirst(c)
        <5>1. posted[c] = framesSent[c] + (IF FALSE /\ ~CountsFirst(c) THEN 1 ELSE 0)
          BY <2>0, <4>3
        <5> QED
          BY <2>0, <3>1, <4>1, <4>2, <4>3, <5>1, Zenon
      <4>4. CASE ~CountsFirst(c)
        <5>1. posted[c] = (framesSent[c] + 1) + (IF FALSE /\ ~CountsFirst(c) THEN 1 ELSE 0)
          BY <2>0, <4>1, <4>4
        <5> QED
          BY <2>0, <3>1, <4>1, <4>2, <4>4, <5>1, Zenon
      <4> QED
        BY <4>3, <4>4, Zenon
    <3> QED
      BY <1>2, <3>2, <3>3, Zenon
  <2>2. PICK n, p, b : /\ framesSent' = [framesSent EXCEPT ![c] = n]
                       /\ posted' = [posted EXCEPT ![c] = p]
                       /\ sending' = [sending EXCEPT ![c] = b]
                       /\ n \in Nat /\ p \in 0 .. MaxFrames /\ b \in BOOLEAN /\ posted[c] <= p
                       /\ p = n + (IF b /\ ~CountsFirst(c) THEN 1 ELSE 0)
    BY <2>1, Zenon
  <2>3. framesSent' \in [Conn -> Nat] /\ posted' \in [Conn -> 0 .. MaxFrames]
        /\ sending' \in [Conn -> BOOLEAN]
    BY <2>2, Zenon DEF JudgeTypeOK
  <2>4. ASSUME NEW d \in Conn
        PROVE  /\ received[d] <= posted'[d]
               /\ posted'[d] = framesSent'[d] + (IF sending'[d] /\ ~CountsFirst(d)' THEN 1 ELSE 0)
    <3>0. CountsFirst(d)' = CountsFirst(d)
      BY <2>1, Zenon DEF CountsFirst
    <3>1. CASE d = c
      <4>1. framesSent'[c] = n /\ posted'[c] = p /\ sending'[c] = b
        BY <2>2, Zenon DEF JudgeTypeOK
      <4>2. received[c] <= p
        BY <2>0, <2>2
      <4> QED
        BY <2>2, <3>0, <3>1, <4>1, <4>2, Zenon
    <3>2. CASE d # c
      <4>1. framesSent'[d] = framesSent[d] /\ posted'[d] = posted[d] /\ sending'[d] = sending[d]
        BY <2>2, <3>2, Zenon DEF JudgeTypeOK
      <4> QED
        BY <3>0, <4>1, Zenon DEF InStep
    <3> QED
      BY <3>1, <3>2, Zenon
  <2> QED
    BY <2>1, <2>3, <2>4, Zenon DEF JudgeTypeOK, InStep, NeverAccused, vars
<1>3. ASSUME NEW c \in Conn, Read(c) PROVE JudgeTypeOK' /\ InStep' /\ NeverAccused'
  <2> DEFINE m == out[c][got[c] + 1]
  <2>1. /\ got[c] < sent[c] /\ ~sending[c] /\ got' = [got EXCEPT ![c] = @ + 1]
        /\ last' = [last EXCEPT ![c] = Advance(@, m.oldest, m.newest)]
        /\ outcome' = [outcome EXCEPT ![c] = Verdict(c, m)]
        /\ UNCHANGED <<vars, tool, framesSent, posted, sending>>
    BY <1>3, Zenon DEF Read
  <2>2. Verdict(c, m) \in {"streaming", "error"}
    BY <2>1, NothingToReport, Zenon
  <2>3. /\ m \in Answer /\ got[c] + 1 \in DOMAIN out[c]
        /\ m.oldest = last[c] + 1 /\ m.oldest <= m.newest
    BY <2>1, NextContinues, Zenon
  <2>4. /\ m.oldest \in Nat /\ m.newest \in Nat /\ last[c] \in Nat /\ got[c] \in Nat
        /\ sent[c] \in Nat
    BY <2>3, Zenon DEF Answer, JudgeTypeOK, TypeOK
  <2>5. Advance(last[c], m.oldest, m.newest) = m.newest
    BY <2>3, <2>4 DEF Advance, Malformed, Larger
  <2> HIDE DEF m
  <2>6. JudgeTypeOK'
    BY <2>1, <2>2, <2>4, <2>5 DEF JudgeTypeOK, Outcomes
  <2>7. NeverAccused'
    BY <2>1, <2>2, Zenon DEF NeverAccused, JudgeTypeOK
  <2>8. ASSUME NEW d \in Conn
        PROVE  /\ got'[d] <= sent[d]
               /\ last'[d] = IF got'[d] = 0 THEN 0 ELSE out[d][got'[d]].newest
    <3>1. CASE d = c
      <4>1. got'[c] = got[c] + 1 /\ last'[c] = m.newest
        BY <2>1, <2>5, Zenon DEF JudgeTypeOK
      <4> QED
        BY <2>1, <2>4, <3>1, <4>1 DEF m
    <3>2. CASE d # c
      BY <2>1, <3>2, Zenon DEF InStep, JudgeTypeOK
    <3> QED
      BY <3>1, <3>2, Zenon
  <2>9. \A d \in Conn :
          /\ received'[d] <= posted'[d]
          /\ posted'[d] = framesSent'[d] + (IF sending'[d] /\ ~CountsFirst(d)' THEN 1 ELSE 0)
          /\ \A i \in DOMAIN out'[d] : out'[d][i].newest <= received'[d]
    BY <2>1, Zenon DEF InStep, CountsFirst, vars
  <2>10. sent' = sent /\ out' = out
    BY <2>1, Zenon DEF vars
  <2> QED
    BY <2>6, <2>7, <2>8, <2>9, <2>10, Zenon DEF InStep
<1>4. ASSUME NEW c \in Conn, SendFails(c) \/ ReadClose(c) \/ Deadline(c) \/ Pass(c)
      PROVE JudgeTypeOK' /\ InStep' /\ NeverAccused'
  <2>1. UNCHANGED <<vars, tool, framesSent, posted, sending, got, last>>
    BY <1>4, Zenon DEF SendFails, ReadClose, Deadline, Pass
  <2>2. \E o \in {"failed", "closed", "deadline", "passed"} : outcome' = [outcome EXCEPT ![c] = o]
    BY <1>4, Zenon DEF SendFails, ReadClose, Deadline, Pass
  <2> QED
    BY <2>1, <2>2, Zenon DEF JudgeTypeOK, InStep, CountsFirst, NeverAccused, Outcomes, vars
<1>5. CASE UNCHANGED allVars
  BY <1>5 DEF allVars, vars, judge, JudgeTypeOK, InStep, CountsFirst, NeverAccused
<1> QED
  BY <1>1, <1>2, <1>3, <1>4, <1>5 DEF JudgeNext

\* The clients stay in step with the gateway and none of them has found fault with it.
LEMMA JudgedInductive == JudgeSpec => [](JudgeTypeOK /\ InStep /\ NeverAccused)
<1>1. JudgeInit => JudgeTypeOK /\ InStep /\ NeverAccused
  <2> SUFFICES ASSUME JudgeInit PROVE JudgeTypeOK /\ InStep /\ NeverAccused
    OBVIOUS
  <2>1. JudgeTypeOK /\ NeverAccused
    BY RangesVerifiable DEF JudgeInit, JudgeTypeOK, NeverAccused, Outcomes
  <2>2. \A c \in Conn : /\ got[c] = 0 /\ sent[c] = 0 /\ last[c] = 0 /\ received[c] = 0
                        /\ framesSent[c] = 0 /\ posted[c] = 0 /\ ~sending[c] /\ out[c] = <<>>
    BY Zenon DEF JudgeInit, Init
  <2> QED
    BY <2>1, <2>2 DEF InStep
<1>2. /\ TypeOK /\ TypeOK' /\ Tiling /\ AudioMatches
      /\ JudgeTypeOK /\ InStep /\ NeverAccused /\ [JudgeNext]_allVars
      => JudgeTypeOK' /\ InStep' /\ NeverAccused'
  BY JudgeStep
<1> QED
  BY <1>1, <1>2, JudgedIsContract, TypeCorrect, AnswersTile, PartialsMatchAudio, PTL DEF JudgeSpec

\* Each client's tracker stands at the last answer it read, which covers only frames it
\* has sent, however reading, sending and the gateway's steps interleave.
THEOREM ClientsInStep == JudgeSpec => []InStep
BY JudgedInductive, PTL

\* No client finds fault with a gateway that keeps the contract.
THEOREM ContractNeverAccused == JudgeSpec => []NeverAccused
BY JudgedInductive, PTL
-----------------------------------------------------------------------------
(***************************************************************************)
(* The continuity tracker on its own, for streams of any length.           *)
(***************************************************************************)
\* What observe can report of one range.
Kinds == {"invalid_range", "continuity_gap", "continuity_overlap"}

\* Response i repeats what the one before it has covered, or is malformed.
Odd(s, i) == Malformed(s[i].oldest, s[i].newest) \/ (1 < i /\ s[i].newest <= s[i-1].newest)

\* The stream s as it was before its response r, the i-th, was lost.
Restored(s, i, r) == SubSeq(s, 1, i - 1) \o <<r>> \o SubSeq(s, i, Len(s))

TrackerTypes ==
  /\ stream \in Seq(Ranges)
  /\ reports \in Seq(SUBSET Kinds) /\ Len(reports) = Len(stream)
  /\ lastNewest \in Nat

\* In each of the three cases the tracker stands where the stream without its flaw
\* ends: this is why what follows is not reported.
Follows == Tiles(stream) => lastNewest = LastAnswered(stream)

FollowsStale ==
  \A i \in 1 .. Len(stream) : Tiles(Without(stream, i)) /\ Odd(stream, i) =>
    Reported = {i} /\ lastNewest = LastAnswered(Without(stream, i))

FollowsLoss ==
  \A i \in 1 .. Len(stream) : \A r \in Ranges : Tiles(Restored(stream, i, r)) =>
    Reported = {i} /\ reports[i] = {"continuity_gap"} /\ lastNewest = LastAnswered(stream)

\* The inductive invariant.
TrackerInv == TrackerTypes /\ SilentIffTiling /\ Follows /\ FollowsStale /\ FollowsLoss

\* What observe does with a range.
LEMMA GapView ==
  ASSUME NEW l \in Nat, NEW r \in Ranges
  PROVE  /\ Gap(l, r.oldest, r.newest) \in SUBSET Kinds
         /\ Gap(l, r.oldest, r.newest) = {} <=> r.oldest = l + 1 /\ r.oldest <= r.newest
         /\ l + 1 < r.oldest /\ r.oldest <= r.newest => Gap(l, r.oldest, r.newest) = {"continuity_gap"}
         /\ Advance(l, r.oldest, r.newest) \in Nat
         /\ l < r.oldest /\ r.oldest <= r.newest => Advance(l, r.oldest, r.newest) = r.newest
         /\ Malformed(r.oldest, r.newest) \/ r.newest <= l => Advance(l, r.oldest, r.newest) = l
<1>1. r.oldest \in Nat /\ r.newest \in Nat
  BY TrackerAssumption DEF Ranges
<1>2. PICK o \in Nat, n \in Nat : o = r.oldest /\ n = r.newest
  BY <1>1
<1>3. Malformed(o, n) <=> (o = 0 \/ n < o)
  BY DEF Malformed
<1>4. CASE Malformed(o, n)
  <2>1. Gap(l, o, n) = {"invalid_range"}
    BY <1>4, Zenon DEF Gap
  <2> QED
    BY <1>2, <1>3, <1>4, <2>1 DEF Kinds, Advance
<1>5. CASE ~Malformed(o, n) /\ o > l + 1
  <2>0. ~(o < l + 1)
    BY <1>5
  <2>1. Gap(l, o, n) = {"continuity_gap"}
    BY <1>5, <2>0, Zenon DEF Gap
  <2> QED
    BY <1>2, <1>3, <1>5, <2>1 DEF Kinds, Advance, Larger
<1>6. CASE ~Malformed(o, n) /\ o < l + 1
  <2>0. ~(o > l + 1)
    BY <1>6
  <2>1. Gap(l, o, n) = {"continuity_overlap"}
    BY <1>6, <2>0, Zenon DEF Gap
  <2> QED
    BY <1>2, <1>3, <1>6, <2>1 DEF Kinds, Advance, Larger
<1>7. CASE ~Malformed(o, n) /\ o = l + 1
  <2>0. ~(o > l + 1) /\ ~(o < l + 1)
    BY <1>7
  <2>1. Gap(l, o, n) = {}
    BY <1>7, <2>0, Zenon DEF Gap
  <2> QED
    BY <1>2, <1>3, <1>7, <2>1 DEF Kinds, Advance, Larger
<1> QED
  BY <1>4, <1>5, <1>6, <1>7

\* A stream tiles as long as every response starts where the one before it ended.
LEMMA TilesAppend ==
  ASSUME NEW s \in Seq(Ranges), NEW r \in Ranges
  PROVE  /\ Tiles(Append(s, r)) <=> Tiles(s) /\ r.oldest <= r.newest /\ r.oldest = LastAnswered(s) + 1
         /\ LastAnswered(Append(s, r)) = r.newest
         /\ LastAnswered(s) \in Nat
<1> DEFINE t == Append(s, r)
<1>1. /\ Len(t) = Len(s) + 1 /\ DOMAIN t = 1 .. Len(s) + 1 /\ t # <<>> /\ Len(s) \in Nat
      /\ t[Len(s) + 1] = r /\ \A i \in 1 .. Len(s) : t[i] = s[i]
      /\ DOMAIN s = 1 .. Len(s) /\ (s = <<>> <=> Len(s) = 0)
  OBVIOUS
<1>2. \A i \in 1 .. Len(s) : s[i] \in Ranges
  OBVIOUS
<1>3. LastAnswered(s) \in Nat
  BY <1>1, <1>2, TrackerAssumption DEF LastAnswered, Ranges
<1>4. LastAnswered(t) = r.newest
  BY <1>1 DEF LastAnswered
<1> HIDE DEF t
<1>5. ASSUME Tiles(t) PROVE Tiles(s) /\ r.oldest <= r.newest /\ r.oldest = LastAnswered(s) + 1
  <2>1. r.oldest <= r.newest
    BY <1>1, <1>5 DEF Tiles
  <2>2. Tiles(s)
    BY <1>1, <1>5 DEF Tiles
  <2>3. CASE s = <<>>
    BY <1>1, <1>5, <2>3 DEF Tiles, LastAnswered
  <2>4. CASE s # <<>>
    <3>1. Len(s) + 1 \in 2 .. Len(t) /\ Len(s) + 1 - 1 = Len(s) /\ t[Len(s)] = s[Len(s)]
      BY <1>1, <2>4
    <3>2. t[Len(s) + 1].oldest = t[Len(s) + 1 - 1].newest + 1
      BY <1>5, <3>1 DEF Tiles
    <3> QED
      BY <1>1, <2>1, <2>2, <2>4, <3>1, <3>2 DEF LastAnswered
  <2> QED
    BY <2>1, <2>2, <2>3, <2>4
<1>6. ASSUME Tiles(s), r.oldest <= r.newest, r.oldest = LastAnswered(s) + 1 PROVE Tiles(t)
  <2>1. \A i \in DOMAIN t : t[i].oldest <= t[i].newest
    BY <1>1, <1>6 DEF Tiles
  <2>2. t[1].oldest = 1
    BY <1>1, <1>6 DEF Tiles, LastAnswered
  <2>3. ASSUME NEW i \in 2 .. Len(t) PROVE t[i].oldest = t[i-1].newest + 1
    <3>1. CASE i = Len(s) + 1
      BY <1>1, <1>6, <3>1 DEF LastAnswered
    <3>2. CASE i # Len(s) + 1
      BY <1>1, <1>6, <3>2 DEF Tiles
    <3> QED
      BY <3>1, <3>2
  <2> QED
    BY <2>1, <2>2, <2>3 DEF Tiles
<1> QED
  BY <1>3, <1>4, <1>5, <1>6 DEF t

\* The parts of a stream and the next response.
LEMMA PartsAppend ==
  ASSUME NEW s \in Seq(Ranges), NEW e \in Ranges, NEW t, t = Append(s, e)
  PROVE  /\ t \in Seq(Ranges) /\ Len(t) = Len(s) + 1 /\ Len(s) \in Nat
         /\ \A n \in 0 .. Len(s) : SubSeq(t, 1, n) = SubSeq(s, 1, n) /\ SubSeq(s, 1, n) \in Seq(Ranges)
         /\ \A m \in 1 .. Len(s) + 1 : /\ SubSeq(t, m, Len(t)) = Append(SubSeq(s, m, Len(s)), e)
                                       /\ SubSeq(s, m, Len(s)) \in Seq(Ranges)
         /\ SubSeq(s, 1, Len(s)) = s
         /\ SubSeq(s, Len(s) + 1, Len(s)) = <<>>
         /\ SubSeq(t, Len(s) + 2, Len(t)) = <<>>
<1>1. /\ t \in Seq(Ranges) /\ Len(t) = Len(s) + 1 /\ Len(s) \in Nat
      /\ t[Len(s) + 1] = e /\ \A i \in 1 .. Len(s) : t[i] = s[i]
  OBVIOUS
<1>2. ASSUME NEW n \in 0 .. Len(s) PROVE SubSeq(t, 1, n) = SubSeq(s, 1, n) /\ SubSeq(s, 1, n) \in Seq(Ranges)
  <2>1. /\ SubSeq(t, 1, n) \in Seq(Ranges) /\ Len(SubSeq(t, 1, n)) = n
        /\ SubSeq(s, 1, n) \in Seq(Ranges) /\ Len(SubSeq(s, 1, n)) = n
        /\ \A j \in 1 .. n : SubSeq(t, 1, n)[j] = SubSeq(s, 1, n)[j]
    BY <1>1
  <2> QED
    BY <2>1, SeqEqual
<1>3. ASSUME NEW m \in 1 .. Len(s) + 1
      PROVE  SubSeq(t, m, Len(t)) = Append(SubSeq(s, m, Len(s)), e) /\ SubSeq(s, m, Len(s)) \in Seq(Ranges)
  <2> DEFINE b == SubSeq(s, m, Len(s))
             d == SubSeq(t, m, Len(t))
  <2>1. /\ d \in Seq(Ranges) /\ Len(d) = Len(s) - m + 2
        /\ \A j \in 1 .. Len(s) - m + 2 : d[j] = t[m + j - 1]
    BY <1>1
  <2>2. /\ b \in Seq(Ranges) /\ Len(b) = Len(s) - m + 1
        /\ \A j \in 1 .. Len(s) - m + 1 : b[j] = s[m + j - 1]
    BY <1>1
  <2> HIDE DEF b, d
  <2>3. /\ Append(b, e) \in Seq(Ranges) /\ Len(Append(b, e)) = Len(s) - m + 2
        /\ Append(b, e)[Len(s) - m + 2] = e
        /\ \A j \in 1 .. Len(s) - m + 1 : Append(b, e)[j] = b[j]
    BY <2>2
  <2>4. ASSUME NEW j \in 1 .. Len(s) - m + 2 PROVE d[j] = Append(b, e)[j]
    <3>1. CASE j = Len(s) - m + 2
      <4>1. m + j - 1 = Len(s) + 1
        BY <1>1, <3>1
      <4> QED
        BY <1>1, <2>1, <2>3, <3>1, <4>1, Zenon
    <3>2. CASE j # Len(s) - m + 2
      <4>1. m + j - 1 \in 1 .. Len(s) /\ j \in 1 .. Len(s) - m + 1
        BY <1>1, <3>2
      <4> QED
        BY <1>1, <2>1, <2>2, <2>3, <4>1, Zenon
    <3> QED
      BY <3>1, <3>2, Zenon
  <2>5. d = Append(b, e)
    BY <2>1, <2>3, <2>4, SeqEqual, Zenon
  <2> QED
    BY <2>2, <2>5 DEF b, d
<1>4. SubSeq(s, 1, Len(s)) = s
  BY SubSeqFull
<1>5. SubSeq(s, Len(s) + 1, Len(s)) = <<>> /\ SubSeq(t, Len(s) + 2, Len(t)) = <<>>
  BY <1>1
<1> QED
  BY <1>1, <1>2, <1>3, <1>4, <1>5

LEMMA ConcatAppend ==
  ASSUME NEW a \in Seq(Ranges), NEW b \in Seq(Ranges), NEW e \in Ranges
  PROVE  a \o Append(b, e) = Append(a \o b, e) /\ a \o b \in Seq(Ranges)
<1>1. a \o b \in Seq(Ranges) /\ <<e>> \in Seq(Ranges)
  BY ConcatProperties
<1>2. Append(b, e) = b \o <<e>> /\ Append(a \o b, e) = (a \o b) \o <<e>>
  BY <1>1, AppendIsConcat
<1> QED
  BY <1>1, <1>2, ConcatAssociative

\* Leaving out a response commutes with what comes later.
LEMMA WithoutAppend ==
  ASSUME NEW s \in Seq(Ranges), NEW e \in Ranges
  PROVE  /\ Without(Append(s, e), Len(s) + 1) = s
         /\ \A i \in 1 .. Len(s) : /\ Without(Append(s, e), i) = Append(Without(s, i), e)
                                   /\ Without(s, i) \in Seq(Ranges)
<1>0. PICK t : t = Append(s, e)
  BY Zenon
<1>1. Without(t, Len(s) + 1) = s
  <2>0. PICK k : k = Len(s) + 1
    OBVIOUS
  <2>1. SubSeq(t, 1, k - 1) = s
    BY <1>0, <2>0, PartsAppend
  <2>2. SubSeq(t, k + 1, Len(t)) = <<>>
    BY <1>0, <2>0, PartsAppend
  <2>3. s \o <<>> = s
    OBVIOUS
  <2>4. Without(t, k) = s
    BY <2>1, <2>2, <2>3, Zenon DEF Without
  <2> QED
    BY <2>0, <2>4
<1>2. ASSUME NEW i \in 1 .. Len(s)
      PROVE  Without(t, i) = Append(Without(s, i), e) /\ Without(s, i) \in Seq(Ranges)
  <2>0. PICK n \in 0 .. Len(s), m \in 1 .. Len(s) + 1 : n = i - 1 /\ m = i + 1
    OBVIOUS
  <2>1. PICK a \in Seq(Ranges) : a = SubSeq(s, 1, n)
    BY <1>0, PartsAppend, Zenon
  <2>2. PICK b \in Seq(Ranges) : b = SubSeq(s, m, Len(s))
    BY <1>0, PartsAppend, Zenon
  <2>3. SubSeq(t, 1, n) = a
    BY <1>0, <2>1, PartsAppend
  <2>4. SubSeq(t, m, Len(t)) = Append(b, e)
    BY <1>0, <2>2, PartsAppend
  <2>5. Without(s, i) = a \o b
    BY <2>0, <2>1, <2>2, Zenon DEF Without
  <2>6. Without(t, i) = a \o Append(b, e)
    BY <2>0, <2>3, <2>4, Zenon DEF Without
  <2> QED
    BY <2>5, <2>6, ConcatAppend
<1> QED
  BY <1>0, <1>1, <1>2

\* So does putting a lost one back.
LEMMA RestoredAppend ==
  ASSUME NEW s \in Seq(Ranges), NEW e \in Ranges, NEW r \in Ranges
  PROVE  /\ Restored(Append(s, e), Len(s) + 1, r) = Append(Append(s, r), e)
         /\ \A i \in 1 .. Len(s) : /\ Restored(Append(s, e), i, r) = Append(Restored(s, i, r), e)
                                   /\ Restored(s, i, r) \in Seq(Ranges)
                                   /\ LastAnswered(Restored(s, i, r)) = LastAnswered(s)
<1>0. PICK t : t = Append(s, e)
  BY Zenon
<1>1. Restored(t, Len(s) + 1, r) = Append(Append(s, r), e)
  <2>0. PICK k \in 1 .. Len(s) + 1 : k = Len(s) + 1
    OBVIOUS
  <2>1. SubSeq(t, 1, k - 1) = s
    BY <1>0, <2>0, PartsAppend
  <2>2. SubSeq(t, k, Len(t)) = Append(SubSeq(s, k, Len(s)), e)
    BY <1>0, PartsAppend
  <2>3. SubSeq(s, k, Len(s)) = <<>>
    BY <1>0, <2>0, PartsAppend
  <2>4. Append(s, r) = s \o <<r>> /\ Append(s, r) \in Seq(Ranges) /\ Append(<<>>, e) = <<e>>
    OBVIOUS
  <2>5. Append(Append(s, r), e) = Append(s, r) \o <<e>>
    BY <2>4, AppendIsConcat, Zenon
  <2>6. Restored(t, k, r) = Append(Append(s, r), e)
    BY <2>1, <2>2, <2>3, <2>4, <2>5, Zenon DEF Restored
  <2> QED
    BY <2>0, <2>6
<1>2. ASSUME NEW i \in 1 .. Len(s)
      PROVE  /\ Restored(t, i, r) = Append(Restored(s, i, r), e) /\ Restored(s, i, r) \in Seq(Ranges)
             /\ LastAnswered(Restored(s, i, r)) = LastAnswered(s)
  <2> DEFINE a == SubSeq(s, 1, i - 1) \o <<r>>
             b == SubSeq(s, i, Len(s))
  <2>1. /\ SubSeq(t, 1, i - 1) = SubSeq(s, 1, i - 1) /\ SubSeq(s, 1, i - 1) \in Seq(Ranges)
        /\ SubSeq(t, i, Len(t)) = Append(b, e) /\ b \in Seq(Ranges)
    <3>1. i - 1 \in 0 .. Len(s) /\ i \in 1 .. Len(s) + 1
      OBVIOUS
    <3> QED
      BY <1>0, <3>1, PartsAppend
  <2>2. a \in Seq(Ranges)
    BY <2>1, ConcatProperties
  <2>3. b # <<>> /\ b[Len(b)] = s[Len(s)] /\ s # <<>>
    <3>1. Len(b) = Len(s) - i + 1 /\ \A j \in 1 .. Len(s) - i + 1 : b[j] = s[i + j - 1]
      OBVIOUS
    <3>2. Len(s) - i + 1 \in 1 .. Len(s) - i + 1 /\ i + (Len(s) - i + 1) - 1 = Len(s) /\ Len(s) # 0
      OBVIOUS
    <3>3. b[Len(b)] = s[Len(s)] /\ s # <<>>
      BY <3>1, <3>2
    <3>4. Len(b) # 0
      BY <3>1, <3>2
    <3> HIDE DEF b
    <3>5. b # <<>>
      BY <2>1, <3>4
    <3> QED
      BY <3>3, <3>5, Zenon
  <2> HIDE DEF b
  <2>4. a \o b # <<>> /\ (a \o b)[Len(a \o b)] = b[Len(b)]
    <3> HIDE DEF a
    <3>1. Len(b) \in Nat \ {0} /\ Len(a) \in Nat
      BY <2>1, <2>2, <2>3
    <3>2. Len(a \o b) = Len(a) + Len(b) /\ a \o b \in Seq(Ranges)
      BY <2>1, <2>2, ConcatProperties
    <3>3. (a \o b)[Len(a) + Len(b)] = b[Len(a) + Len(b) - Len(a)]
      BY <2>1, <2>2, <3>1, ConcatProperties
    <3> QED
      BY <3>1, <3>2, <3>3
  <2>5. a \o Append(b, e) = Append(a \o b, e) /\ a \o b \in Seq(Ranges)
    BY <2>1, <2>2, ConcatAppend, Zenon
  <2>6. Restored(s, i, r) = a \o b /\ Restored(t, i, r) = a \o Append(b, e)
    BY <2>1, Zenon DEF Restored, b
  <2> QED
    BY <2>3, <2>4, <2>5, <2>6 DEF LastAnswered
<1> QED
  BY <1>0, <1>1, <1>2

\* A report of the next response.
LEMMA ReportedAppend ==
  ASSUME reports \in Seq(SUBSET Kinds), NEW g \in SUBSET Kinds, reports' = Append(reports, g)
  PROVE  /\ g = {} => Reported' = Reported
         /\ g # {} => Reported' = Reported \cup {Len(reports) + 1}
         /\ Reported \subseteq 1 .. Len(reports)
         /\ reports'[Len(reports) + 1] = g
         /\ \A i \in 1 .. Len(reports) : reports'[i] = reports[i]
<1>1. PICK n \in Nat : n = Len(reports)
  OBVIOUS
<1>2. /\ DOMAIN reports = 1 .. n /\ DOMAIN reports' = 1 .. n + 1
      /\ reports'[n + 1] = g /\ \A i \in 1 .. n : reports'[i] = reports[i]
  BY <1>1
<1>3. 1 .. n + 1 = (1 .. n) \cup {n + 1} /\ n + 1 \notin 1 .. n
  OBVIOUS
<1>4. Reported' = {i \in 1 .. n + 1 : reports'[i] # {}} /\ Reported = {i \in 1 .. n : reports[i] # {}}
  BY <1>2, Zenon DEF Reported
<1>5. g = {} => Reported' = Reported
  BY <1>2, <1>3, <1>4
<1>6. g # {} => Reported' = Reported \cup {n + 1}
  BY <1>2, <1>3, <1>4
<1>7. Reported \subseteq 1 .. n
  BY <1>4
<1> QED
  BY <1>1, <1>2, <1>5, <1>6, <1>7

LEMMA TrackerInitially == TrackerInit => TrackerInv
<1> SUFFICES ASSUME TrackerInit PROVE TrackerInv
  OBVIOUS
<1>1. stream = <<>> /\ reports = <<>> /\ lastNewest = 0 /\ Len(stream) = 0 /\ Len(reports) = 0
  BY DEF TrackerInit
<1>2. TrackerTypes
  BY <1>1 DEF TrackerTypes
<1>3. SilentIffTiling
  BY <1>1 DEF SilentIffTiling, Reported, Tiles
<1>4. Follows
  BY <1>1 DEF Follows, LastAnswered
<1>5. FollowsStale /\ FollowsLoss
  <2>1. 1 .. Len(stream) = {}
    BY <1>1
  <2> QED
    BY <2>1, Zenon DEF FollowsStale, FollowsLoss
<1> QED
  BY <1>2, <1>3, <1>4, <1>5 DEF TrackerInv

LEMMA TrackerStep == ASSUME TrackerInv, NEW r \in Ranges, Observe(r) PROVE TrackerInv'
<1> DEFINE s == stream
           t == stream'
           l == lastNewest
           g == Gap(lastNewest, r.oldest, r.newest)
<1>1. /\ s \in Seq(Ranges) /\ l \in Nat /\ reports \in Seq(SUBSET Kinds) /\ Len(reports) = Len(s)
      /\ t = Append(s, r) /\ reports' = Append(reports, g)
      /\ lastNewest' = Advance(l, r.oldest, r.newest)
  BY DEF TrackerInv, TrackerTypes, Observe
<1>2. /\ g \in SUBSET Kinds
      /\ g = {} <=> r.oldest = l + 1 /\ r.oldest <= r.newest
      /\ l + 1 < r.oldest /\ r.oldest <= r.newest => g = {"continuity_gap"}
      /\ lastNewest' \in Nat
      /\ l < r.oldest /\ r.oldest <= r.newest => lastNewest' = r.newest
      /\ Malformed(r.oldest, r.newest) \/ r.newest <= l => lastNewest' = l
  BY <1>1, GapView, Zenon
<1> HIDE DEF g
<1>3. PICK n \in Nat : n = Len(s)
  BY <1>1
<1>4. /\ g = {} => Reported' = Reported
      /\ g # {} => Reported' = Reported \cup {n + 1}
      /\ Reported \subseteq 1 .. n
      /\ reports'[n + 1] = g
      /\ \A i \in 1 .. n : reports'[i] = reports[i]
  BY <1>1, <1>2, <1>3, ReportedAppend, Zenon
<1>5. /\ t \in Seq(Ranges) /\ Len(t) = n + 1 /\ reports' \in Seq(SUBSET Kinds) /\ Len(reports') = n + 1
      /\ t[n + 1] = r /\ \A i \in 1 .. n : t[i] = s[i]
  BY <1>1, <1>2, <1>3
<1>6. /\ Tiles(t) <=> Tiles(s) /\ r.oldest <= r.newest /\ r.oldest = LastAnswered(s) + 1
      /\ LastAnswered(t) = r.newest
      /\ LastAnswered(s) \in Nat
  BY <1>1, TilesAppend
<1>7. r.oldest \in Nat /\ r.newest \in Nat
  BY TrackerAssumption DEF Ranges
<1>8. Tiles(s) => l = LastAnswered(s) /\ Reported = {}
  BY Zenon DEF TrackerInv, Follows, SilentIffTiling
<1> HIDE DEF s, t, l
<1>9. TrackerTypes'
  BY <1>2, <1>5, Zenon DEF TrackerTypes, t
<1>10. Follows'
  <2>1. ASSUME Tiles(t) PROVE lastNewest' = LastAnswered(t)
    BY <1>1, <1>2, <1>6, <1>7, <1>8, <2>1
  <2> QED
    BY <2>1 DEF Follows, t, Tiles, LastAnswered
<1>11. SilentIffTiling'
  <2>1. Reported' = {} <=> Reported = {} /\ g = {}
    BY <1>4, Zenon
  <2>2. Reported = {} <=> Tiles(s)
    BY DEF TrackerInv, SilentIffTiling, s
  <2>3. Reported' = {} <=> Tiles(t)
    BY <1>2, <1>6, <1>8, <2>1, <2>2
  <2> QED
    BY <2>3 DEF SilentIffTiling, t, Tiles
<1>12. ASSUME NEW i \in 1 .. n + 1, Tiles(Without(t, i)), Odd(t, i)
       PROVE  Reported' = {i} /\ lastNewest' = LastAnswered(Without(t, i))
  <2>1. CASE i = n + 1
    <3>1. Without(t, i) = s
      BY <1>1, <1>3, <2>1, WithoutAppend
    <3>2. l = LastAnswered(s) /\ Reported = {}
      BY <1>8, <1>12, <3>1, Zenon
    <3>3. Malformed(r.oldest, r.newest) \/ r.newest <= l
      <4>1. ASSUME 1 < i PROVE t[i-1].newest = LastAnswered(s)
        <5>1. i - 1 = n /\ n \in 1 .. n /\ n # 0
          BY <2>1, <4>1
        <5>2. s # <<>>
          BY <1>1, <1>3, <5>1
        <5> QED
          BY <1>3, <1>5, <5>1, <5>2 DEF LastAnswered
      <4> QED
        BY <1>5, <1>12, <2>1, <3>2, <4>1, Zenon DEF Odd
    <3>4. g # {} /\ lastNewest' = l
      BY <1>1, <1>2, <1>7, <3>3 DEF Malformed
    <3> QED
      BY <1>4, <2>1, <3>1, <3>2, <3>4
  <2>2. CASE i \in 1 .. n
    <3>1. PICK w \in Seq(Ranges) : w = Without(s, i) /\ Without(t, i) = Append(w, r)
      BY <1>1, <1>3, <2>2, WithoutAppend
    <3>2. /\ Tiles(w) /\ r.oldest <= r.newest /\ r.oldest = LastAnswered(w) + 1
          /\ LastAnswered(Without(t, i)) = r.newest /\ LastAnswered(w) \in Nat
      BY <1>12, <3>1, TilesAppend
    <3>3. Odd(s, i)
      <4>1. 1 < i => i - 1 \in 1 .. n
        BY <2>2
      <4> QED
        BY <1>5, <1>12, <2>2, <4>1, Zenon DEF Odd
    <3>4. Reported = {i} /\ l = LastAnswered(w)
      BY <1>3, <2>2, <3>1, <3>2, <3>3, ZenonT(60) DEF TrackerInv, FollowsStale, s, l
    <3> QED
      BY <1>1, <1>2, <1>4, <1>7, <3>2, <3>4
  <2> QED
    BY <2>1, <2>2
<1>13. ASSUME NEW i \in 1 .. n + 1, NEW x \in Ranges, Tiles(Restored(t, i, x))
       PROVE  Reported' = {i} /\ reports'[i] = {"continuity_gap"} /\ lastNewest' = LastAnswered(t)
  <2>1. CASE i = n + 1
    <3>a. Append(s, x) \in Seq(Ranges)
      BY <1>1
    <3>0. PICK w \in Seq(Ranges) : w = Append(s, x)
      BY <3>a, Zenon
    <3>1. Restored(t, i, x) = Append(w, r)
      BY <1>1, <1>3, <2>1, <3>0, RestoredAppend
    <3>2. Tiles(w) /\ r.oldest <= r.newest /\ r.oldest = LastAnswered(w) + 1
      BY <1>13, <3>1, TilesAppend
    <3>3. Tiles(s) /\ x.oldest <= x.newest /\ x.oldest = LastAnswered(s) + 1 /\ LastAnswered(w) = x.newest
      BY <1>1, <3>0, <3>2, TilesAppend
    <3>4. x.newest \in Nat
      BY TrackerAssumption DEF Ranges
    <3>5. l + 1 < r.oldest
      BY <1>1, <1>7, <1>8, <3>2, <3>3, <3>4
    <3>6. g = {"continuity_gap"} /\ lastNewest' = r.newest
      BY <1>1, <1>2, <1>7, <3>2, <3>5
    <3> QED
      BY <1>4, <1>6, <1>8, <2>1, <3>3, <3>6, Zenon
  <2>2. CASE i \in 1 .. n
    <3>1. PICK w \in Seq(Ranges) : /\ w = Restored(s, i, x) /\ Restored(t, i, x) = Append(w, r)
                                   /\ LastAnswered(w) = LastAnswered(s)
      BY <1>1, <1>3, <2>2, RestoredAppend
    <3>2. Tiles(w) /\ r.oldest <= r.newest /\ r.oldest = LastAnswered(s) + 1
      BY <1>13, <3>1, TilesAppend
    <3>3. Reported = {i} /\ reports[i] = {"continuity_gap"} /\ l = LastAnswered(s)
      BY <1>3, <2>2, <3>1, <3>2 DEF TrackerInv, FollowsLoss, s, l
    <3>4. g = {} /\ lastNewest' = r.newest
      BY <1>1, <1>2, <1>7, <3>2, <3>3
    <3> QED
      BY <1>4, <1>6, <2>2, <3>3, <3>4
  <2> QED
    BY <2>1, <2>2
<1>14. FollowsStale'
  <2>1. FollowsStale' = \A i \in 1 .. Len(t) : Tiles(Without(t, i)) /\ Odd(t, i) =>
                          Reported' = {i} /\ lastNewest' = LastAnswered(Without(t, i))
    BY Zenon DEF FollowsStale, t, Tiles, Without, Odd, LastAnswered
  <2> QED
    BY <1>5, <1>12, <2>1, Zenon
<1>15. FollowsLoss'
  <2>1. FollowsLoss' = \A i \in 1 .. Len(t) : \A x \in Ranges : Tiles(Restored(t, i, x)) =>
                          Reported' = {i} /\ reports'[i] = {"continuity_gap"} /\ lastNewest' = LastAnswered(t)
    BY Zenon DEF FollowsLoss, t, Tiles, Restored, LastAnswered
  <2> QED
    BY <1>5, <1>13, <2>1, Zenon
<1> QED
  BY <1>9, <1>10, <1>11, <1>14, <1>15 DEF TrackerInv

LEMMA TrackerInvariant == TrackerSpec => []TrackerInv
<1>1. TrackerInv /\ [TrackerNext]_tracker => TrackerInv'
  <2> SUFFICES ASSUME TrackerInv, [TrackerNext]_tracker PROVE TrackerInv'
    OBVIOUS
  <2>1. CASE TrackerNext
    BY <2>1, TrackerStep, Zenon DEF TrackerNext
  <2>2. CASE UNCHANGED tracker
    BY <2>2 DEF tracker, TrackerInv, TrackerTypes, SilentIffTiling, Reported, Follows, FollowsStale, FollowsLoss
  <2> QED
    BY <2>1, <2>2
<1> QED
  BY <1>1, TrackerInitially, PTL DEF TrackerSpec

\* Of a stream of any length and any sequence numbers, Continuity::observe reports
\* nothing exactly when the ranges tile the frames 1, 2, 3, ...
THEOREM SilentOnTilingsOnly == TrackerSpec => []SilentIffTiling
BY TrackerInvariant, PTL DEF TrackerInv

\* In a stream of any length, one stale or malformed response among responses that
\* tile is reported and nothing else is: observe never moves last_newest backwards.
THEOREM StaleIsReportedOnce == TrackerSpec => []StaleReportedOnce
<1>1. TrackerInv => StaleReportedOnce
  <2> SUFFICES ASSUME TrackerInv, NEW i \in DOMAIN stream,
                      Tiles(Without(stream, i)),
                      \/ Malformed(stream[i].oldest, stream[i].newest)
                      \/ SubSeq(stream, 1, i - 1) # <<>> /\ stream[i].newest <= SubSeq(stream, 1, i - 1)[i-1].newest
               PROVE  Reported = {i}
    BY Zenon DEF StaleReportedOnce
  <2>1. stream \in Seq(Ranges) /\ i \in 1 .. Len(stream) /\ Len(stream) \in Nat
    BY DEF TrackerInv, TrackerTypes
  <2>2. SubSeq(stream, 1, i - 1) # <<>> => 1 < i /\ SubSeq(stream, 1, i - 1)[i-1] = stream[i-1]
    <3>1. CASE i = 1
      <4>1. SubSeq(stream, 1, i - 1) = <<>>
        BY <2>1, <3>1
      <4> QED
        BY <4>1
    <3>2. CASE 1 < i
      BY <2>1, <3>2
    <3> QED
      BY <2>1, <3>1, <3>2
  <2>3. Odd(stream, i)
    BY <2>2, Zenon DEF Odd
  <2> QED
    BY <2>1, <2>3, Zenon DEF TrackerInv, FollowsStale
<1> QED
  BY <1>1, TrackerInvariant, PTL

\* In a stream of any length, one lost response is reported once, on the response
\* after it, as a gap: observe resumes from the range it has just seen.
THEOREM LossIsReportedOnce == TrackerSpec => []LossReportedOnce
<1>1. TrackerInv => LossReportedOnce
  <2> SUFFICES ASSUME TrackerInv, NEW i \in DOMAIN stream, NEW r \in Ranges, Tiles(Restored(stream, i, r))
               PROVE  Reported = {i} /\ reports[i] = {"continuity_gap"}
    BY Zenon DEF LossReportedOnce, Restored
  <2>1. i \in 1 .. Len(stream)
    BY DEF TrackerInv, TrackerTypes
  <2> QED
    BY <2>1, Zenon DEF TrackerInv, FollowsLoss
<1> QED
  BY <1>1, TrackerInvariant, PTL
=============================================================================
