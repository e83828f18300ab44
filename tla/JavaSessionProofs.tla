------------------------- MODULE JavaSessionProofs --------------------------
(***************************************************************************)
(* Exclusive use of the socket in the java-helidon-nima gateway, and that  *)
(* its session implements the contract, for every outbox, backlog and      *)
(* number of frames.                                                       *)
(*                                                                         *)
(* sendLock alone is not the argument: shutdown lets Helidon write its     *)
(* close frame without holding it.  What excludes the writer then is that  *)
(* closed was flipped before the lock was waited for: a writer still at    *)
(* work has been there since before that, so the wait has not ended yet or *)
(* the writer has been interrupted.                                        *)
(***************************************************************************)
EXTENDS JavaSession, SequenceTheorems, TLAPS

\* More than the provers' default time, for slow machines.
USE SMTT(30)

\* Who holds the lock, and that only a started session has a writer.
LockInv ==
  /\ lock = "writer" <=> w = "write"
  /\ rx \in {"close", "pong", "hung"} => lock = "rx"
  /\ w # "none" => Started

\* How far a close has come, and what that means for a writer at work.
CloseInv ==
  /\ rx \in {"lock1", "lock2", "close", "helidon"} => closed
  /\ rx = "lock2" /\ Started => "writer" \in interrupted
  /\ closed /\ w = "write" => rx = "lock1" \/ "writer" \in interrupted

\* The inductive invariant.
SocketInv == LockInv /\ CloseInv

LEMMA SocketInvHolds == Spec => []SocketInv
<1>1. Init => SocketInv
  BY DEF Init, SocketInv, LockInv, CloseInv, Started
<1>2. SocketInv /\ [Next]_vars => SocketInv'
  <2> SUFFICES ASSUME SocketInv, [Next]_vars PROVE SocketInv'
    OBVIOUS
  <2> USE DEF SocketInv, LockInv, CloseInv, Started
  <2>1. CASE OnOpen \/ OnPing \/ Gone
    BY <2>1 DEF OnOpen, OnPing, Gone, wVars, fVars
  <2>2. CASE OnStart
    BY <2>2 DEF OnStart, rxVars
  <2>3. CASE OnFrame
    BY <2>3 DEF OnFrame, wVars
  <2>4. ASSUME NEW k, BeginClose(k) PROVE SocketInv'
    BY <2>4 DEF BeginClose, wVars, fVars
  <2>5. CASE \E m \in {"text", "frame", "badsize"} : OnRefused(m)
    BY <2>4, <2>5 DEF OnRefused
  <2>6. CASE OnEnd
    <3>1. CASE BeginClose(0)
      BY <2>4, <3>1
    <3>2. CASE ~BeginClose(0)
      BY <2>6, <3>2 DEF OnEnd, wVars, fVars
    <3> QED
      BY <3>1, <3>2
  <2>7. CASE LockForClose
    BY <2>7 DEF LockForClose, InterruptWorkers, Workers, wVars, fVars
  <2>8. CASE LockTimeout
    BY <2>8 DEF LockTimeout, InterruptWorkers, Workers, wVars, fVars
  <2>9. CASE LockRefused
    BY <2>9 DEF LockRefused, GiveUp, wVars, fVars
  <2>10. CASE CloseWritten
    BY <2>10 DEF CloseWritten, InterruptWorkers, Workers, wVars, fVars
  <2>11. ASSUME NEW to \in {"helidon", "hung"}, CloseFails(to) PROVE SocketInv'
    BY <2>11 DEF CloseFails, wVars, fVars
  <2>12. CASE PongLock
    BY <2>12 DEF PongLock, wVars, fVars
  <2>13. CASE Pong
    BY <2>13 DEF Pong, wVars, fVars
  <2>14. CASE WriteLoop
    BY <2>14 DEF WriteLoop, rxVars, fVars
  <2>15. CASE Take
    BY <2>15 DEF Take, rxVars, fVars
  <2>16. CASE Send
    BY <2>16 DEF Send, Write, rxVars, fVars
  <2>17. CASE Sent
    BY <2>17 DEF Sent, rxVars, fVars
  <2>18. CASE SendFails
    BY <2>18 DEF SendFails, InterruptWorkers, Workers, rxVars, fVars
  <2>19. CASE FlushLoop
    BY <2>19 DEF FlushLoop, rxVars, wVars
  <2>20. CASE TryFlush
    BY <2>20 DEF TryFlush, rxVars, wVars
  <2>21. CASE Enqueue
    BY <2>21 DEF Enqueue, rxVars, wVars
  <2>22. ASSUME NEW kind \in {"partial", "error"}, ProcessBatch(kind) PROVE SocketInv'
    BY <2>22 DEF ProcessBatch, rxVars, wVars
  <2>23. CASE UNCHANGED vars
    BY <2>23 DEF vars, rxVars, wVars, fVars
  <2> QED
    BY <2>1, <2>2, <2>3, <2>5, <2>6, <2>7, <2>8, <2>9, <2>10, <2>11, <2>12, <2>13, <2>14,
       <2>15, <2>16, <2>17, <2>18, <2>19, <2>20, <2>21, <2>22, <2>23 DEF Next
<1> QED
  BY <1>1, <1>2, PTL DEF Spec

\* Nobody writes past a writer that has not been interrupted, Helidon included, for
\* every capacity and every number of frames.
THEOREM WireIsExclusive == Spec => []WireExclusive
<1>1. SocketInv => WireExclusive
  BY DEF SocketInv, LockInv, CloseInv, WireExclusive
<1> QED
  BY <1>1, SocketInvHolds, PTL
-----------------------------------------------------------------------------
Answers == [kind : {"partial", "error"}, oldest : Nat, newest : Nat,
            audio : [conn : {Session, NoConn}, first : Nat, last : Nat]]

\* The last frame answered, and the last one answered or at inference.
Answered == IF answers = <<>> THEN 0 ELSE answers[Len(answers)].newest
Upto == IF batch = NoBatch THEN Answered ELSE batch.newest

Types ==
  /\ seq \in Nat
  /\ wire \in Seq(Answers)
  /\ inHand \in Seq(Answers)
  /\ outbox \in Seq(Answers)
  /\ answers \in Seq(Answers)
  /\ buffer \in Seq(Nat)
  /\ batch \in [oldest : Nat, newest : Nat]
  /\ closing \in {0, 1002, 1003, 1013}

\* Between the flip of closed and the end of the session the receive thread is closing,
\* with a code that fits; only then and later are workers interrupted.
EndInv ==
  /\ over => closed
  /\ closed /\ ~over => rx \in {"lock1", "lock2", "close"}
  /\ rx \in {"lock1", "lock2", "close"} => closed /\ ~over
  /\ rx = "pong" => ~closed
  /\ rx = "idle" => ~closed /\ ~Started
  /\ closing # 0 => rx \in {"lock1", "lock2", "close"}
  /\ closing \in {1003, 1013} => Started
  /\ ~over => code = 0
  /\ "flush" \in interrupted => closed

\* What the workers hold where they are.  An interrupted put leaves a batch behind,
\* and the flush thread then finds closed set.
WorkInv ==
  /\ w = "none" <=> f = "none"
  /\ w \in {"none", "top", "take"} => inHand = <<>>
  /\ w \in {"lock", "write"} => Len(inHand) = 1
  /\ f \in {"none", "flush"} => batch = NoBatch
  /\ f = "park" => batch = NoBatch \/ closed
  /\ f \in {"infer", "put"} /\ ~over => batch # NoBatch
  /\ f = "put" => \E kind \in {"partial", "error"} : answer = <<Answer(kind, batch)>>

\* The answers put in the outbox are on the wire, in hand or in the outbox, in order.
OutInv ==
  /\ Produced = answers
  /\ ~over => answers = wire \o inHand \o outbox

\* The buffer holds the frames that are neither answered nor at inference.
BufferInv ==
  ~over =>
    /\ Len(buffer) = seq - Upto
    /\ \A i \in 1 .. Len(buffer) : buffer[i] = Upto + i

\* The inductive invariant, on top of SocketInv.
SessionInv == Types /\ EndInv /\ WorkInv /\ OutInv /\ BufferInv
-----------------------------------------------------------------------------
\* What is not on the wire of a sequence that starts with it.
LEMMA RestIs ==
  ASSUME NEW S, NEW a \in Seq(S), NEW h \in Seq(S), NEW q \in Seq(S), NEW t, t = a \o h \o q
  PROVE  a \o SubSeq(t, Len(a) + 1, Len(t)) = t
<1> DEFINE r == h \o q
<1>1. r \in Seq(S) /\ t = a \o r /\ t \in Seq(S) /\ Len(t) = Len(a) + Len(r)
  BY ConcatAssociative, ConcatProperties
<1> HIDE DEF r
<1>2. /\ Len(SubSeq(t, Len(a) + 1, Len(t))) = Len(r)
      /\ \A i \in 1 .. Len(r) : SubSeq(t, Len(a) + 1, Len(t))[i] = r[i]
      /\ SubSeq(t, Len(a) + 1, Len(t)) \in Seq(S)
  <2>1. \A i \in 1 .. Len(r) : t[Len(a) + i] = r[i]
    BY <1>1, ConcatProperties
  <2> QED
    BY <1>1, <2>1
<1>3. SubSeq(t, Len(a) + 1, Len(t)) = r
  BY <1>1, <1>2, SeqEqual
<1> QED
  BY <1>1, <1>3, Zenon

LEMMA ProducedNext ==
  ASSUME Types', answers' = wire' \o inHand' \o outbox'
  PROVE  Produced' = answers'
<1>1. wire' \in Seq(Answers) /\ inHand' \in Seq(Answers) /\ outbox' \in Seq(Answers)
  BY DEF Types
<1>2. wire' \o SubSeq(answers', Len(wire') + 1, Len(answers')) = answers'
  BY <1>1, RestIs
<1> QED
  BY <1>2 DEF Produced

LEMMA HeadMoves ==
  ASSUME NEW S, NEW a \in Seq(S), NEW q \in Seq(S), q # <<>>
  PROVE  a \o <<Head(q)>> \o Tail(q) = a \o q
<1>1. <<Head(q)>> \o Tail(q) = q /\ <<Head(q)>> \in Seq(S) /\ Tail(q) \in Seq(S)
  OBVIOUS
<1> QED
  BY <1>1, ConcatAssociative

LEMMA AnsweredIsNat == Types => Answered \in Nat /\ Upto \in Nat
<1> SUFFICES ASSUME Types PROVE Answered \in Nat /\ Upto \in Nat
  OBVIOUS
<1>1. ASSUME answers # <<>> PROVE answers[Len(answers)] \in Answers
  BY <1>1 DEF Types
<1>2. Answered \in Nat
  BY <1>1 DEF Answered, Answers
<1> QED
  BY <1>2 DEF Types, Upto
-----------------------------------------------------------------------------
LEMMA SessionInit == Init => SessionInv
<1> SUFFICES ASSUME Init PROVE SessionInv
  OBVIOUS
<1>1. Upto = 0
  BY DEF Init, Upto, Answered
<1>2. Produced = <<>>
  BY DEF Init, Produced
<1> QED
  BY <1>1, <1>2 DEF Init, SessionInv, Types, EndInv, WorkInv, OutInv, BufferInv, NoBatch, Started

\* A step that moves no answer, and one that moves no frame.
LEMMA OutKept ==
  ASSUME OutInv, UNCHANGED <<wire, inHand, outbox, answers>>, over => over'
  PROVE  OutInv'
BY DEF OutInv, Produced

LEMMA BufferKept ==
  ASSUME BufferInv, UNCHANGED <<seq, buffer, batch, answers>>, over => over'
  PROVE  BufferInv'
<1>1. Upto' = Upto
  BY DEF Upto, Answered, NoBatch
<1> QED
  BY <1>1 DEF BufferInv

\* The steps of the receive thread that accept no frame.
RxStep ==
  \/ OnOpen \/ OnStart \/ OnEnd \/ OnPing \/ PongLock \/ Pong \/ Gone
  \/ \E m \in {"text", "frame", "badsize"} : OnRefused(m)
  \/ LockForClose \/ LockTimeout \/ LockRefused \/ CloseWritten
  \/ \E to \in {"helidon", "hung"} : CloseFails(to)

\* They leave frames and answers where they are, and end a session for good.
LEMMA RxMovesNothing ==
  ASSUME RxStep
  PROVE  /\ UNCHANGED <<seq, inHand, wire, batch, answer, buffer, outbox, answers>>
         /\ over => over'
         /\ UNCHANGED <<w, f>> \/ OnStart
<1> USE DEF wVars, fVars, rxVars
<1>1. ASSUME NEW k, BeginClose(k)
      PROVE  UNCHANGED <<seq, w, f, inHand, wire, batch, answer, buffer, outbox, answers, over>>
  BY <1>1 DEF BeginClose
<1>2. CASE OnOpen \/ OnStart \/ OnPing \/ PongLock \/ Pong \/ Gone
  BY <1>2 DEF OnOpen, OnStart, OnPing, PongLock, Pong, Gone
<1>3. CASE OnEnd \/ \E m \in {"text", "frame", "badsize"} : OnRefused(m)
  BY <1>1, <1>3 DEF OnEnd, OnRefused
<1>4. CASE LockForClose \/ LockTimeout \/ LockRefused
  BY <1>4 DEF LockForClose, LockTimeout, LockRefused, GiveUp
<1>5. CASE CloseWritten \/ \E to \in {"helidon", "hung"} : CloseFails(to)
  BY <1>5, Zenon DEF CloseWritten, CloseFails
<1> QED
  BY <1>2, <1>3, <1>4, <1>5 DEF RxStep

LEMMA RxKeepsEnd ==
  ASSUME SocketInv, Types, EndInv, WorkInv, RxStep
  PROVE  EndInv' /\ closing' \in {0, 1002, 1003, 1013} /\ (closed => closed')
<1> USE DEF Types, EndInv, Started, wVars, fVars, rxVars
<1>1. ASSUME NEW k \in {0, 1002, 1003, 1013}, BeginClose(k), ~closed, rx # "idle",
             k \in {1003, 1013} => Started
      PROVE  EndInv' /\ closing' \in {0, 1002, 1003, 1013} /\ (closed => closed')
  BY <1>1 DEF BeginClose
<1>2. CASE OnOpen
  BY <1>2 DEF OnOpen
<1>3. CASE OnStart
  BY <1>3 DEF OnStart
<1>4. CASE OnEnd
  <2>1. CASE closed
    BY <1>4, <2>1 DEF OnEnd
  <2>2. CASE ~closed
    BY <1>1, <1>4, <2>2 DEF OnEnd
  <2> QED
    BY <2>1, <2>2
<1>5. CASE OnPing \/ PongLock
  BY <1>5 DEF OnPing, PongLock
<1>6. CASE Pong
  BY <1>6 DEF Pong
<1>7. CASE Gone
  BY <1>7 DEF Gone
<1>8. ASSUME NEW m \in {"text", "frame", "badsize"}, OnRefused(m)
      PROVE  EndInv' /\ closing' \in {0, 1002, 1003, 1013} /\ (closed => closed')
  BY <1>1, <1>8 DEF OnRefused
<1>9. CASE LockForClose
  BY <1>9 DEF LockForClose, InterruptWorkers, Workers
<1>10. CASE LockTimeout
  BY <1>10 DEF LockTimeout, InterruptWorkers, Workers
<1>11. CASE LockRefused
  BY <1>11 DEF LockRefused, GiveUp
<1>12. CASE CloseWritten
  BY <1>12 DEF CloseWritten, InterruptWorkers, Workers
<1>13. CASE \E to \in {"helidon", "hung"} : CloseFails(to)
  BY <1>13 DEF CloseFails
<1> QED
  BY <1>2, <1>3, <1>4, <1>5, <1>6, <1>7, <1>8, <1>9, <1>10, <1>11, <1>12, <1>13 DEF RxStep

LEMMA RxSteps ==
  ASSUME SocketInv, SessionInv, RxStep
  PROVE  SessionInv'
<1> USE DEF SessionInv
<1>1. OutInv' /\ BufferInv'
  BY RxMovesNothing, OutKept, BufferKept
<1>2. EndInv' /\ closing' \in {0, 1002, 1003, 1013} /\ (closed => closed')
  BY RxKeepsEnd
<1>3. Types'
  BY <1>2, RxMovesNothing DEF Types
<1>4. WorkInv'
  <2>1. CASE UNCHANGED <<w, f>>
    BY <1>2, <2>1, RxMovesNothing DEF WorkInv, NoBatch, Answer
  <2>2. CASE OnStart
    BY <2>2, RxMovesNothing DEF OnStart, WorkInv, NoBatch, Answer, Started
  <2> QED
    BY <2>1, <2>2, RxMovesNothing
<1> QED
  BY <1>1, <1>2, <1>3, <1>4

LEMMA FrameStep ==
  ASSUME SocketInv, SessionInv, OnFrame
  PROVE  SessionInv'
<1> USE DEF SessionInv
<1>1. /\ seq' = seq + 1 /\ buffer' = Append(buffer, seq + 1)
      /\ UNCHANGED <<rx, closing, code, w, inHand, wire, f, batch, answer, closed, lock, outbox,
                     interrupted, over, answers>>
      /\ ~over
  BY DEF OnFrame, wVars, EndInv
<1>2. Upto' = Upto
  BY <1>1 DEF Upto, Answered, NoBatch
<1>3. PICK u \in Nat : u = Upto
  BY AnsweredIsNat
<1>4. Len(buffer) = seq - u /\ \A i \in 1 .. Len(buffer) : buffer[i] = u + i
  BY <1>1, <1>3 DEF BufferInv
<1>5. Len(buffer') = seq' - u /\ \A i \in 1 .. Len(buffer') : buffer'[i] = u + i
  <2>1. Len(buffer') = Len(buffer) + 1 /\ buffer'[Len(buffer) + 1] = seq + 1
    BY <1>1 DEF Types
  <2>2. \A i \in 1 .. Len(buffer) : buffer'[i] = buffer[i]
    BY <1>1 DEF Types
  <2>3. Len(buffer) \in Nat /\ seq \in Nat
    BY DEF Types
  <2> QED
    BY <1>1, <1>4, <2>1, <2>2, <2>3
<1>6. BufferInv'
  BY <1>2, <1>3, <1>5 DEF BufferInv
<1>7. OutInv'
  BY <1>1, OutKept
<1>8. Types'
  BY <1>1 DEF Types
<1>9. EndInv' /\ WorkInv'
  BY <1>1 DEF EndInv, WorkInv, Started, NoBatch, Answer
<1> QED
  BY <1>6, <1>7, <1>8, <1>9

\* An answer is written in a session that is not over: the writer has seen closed
\* unset under the lock, or waits in the socket uninterrupted.
LEMMA WritesWhileOpen ==
  ASSUME SocketInv, SessionInv, Send \/ Sent, wire' # wire \/ inHand' # inHand
  PROVE  /\ ~over /\ Len(inHand) = 1 /\ Started /\ rx # "idle"
         /\ wire' = wire \o inHand /\ inHand' = <<>> /\ w' = "top"
<1> USE DEF SessionInv
<1>1. CASE Send
  BY <1>1 DEF Send, Write, EndInv, WorkInv, Started
<1>2. CASE Sent
  BY <1>2 DEF Sent, EndInv, WorkInv, SocketInv, CloseInv, Started
<1> QED
  BY <1>1, <1>2

LEMMA WriterSteps ==
  ASSUME SocketInv, SessionInv, WriteLoop \/ Take \/ Send \/ Sent \/ SendFails
  PROVE  SessionInv'
<1> USE DEF SessionInv
<1>1. /\ UNCHANGED <<rx, closing, seq, code, f, batch, answer, buffer, answers>>
      /\ over => over'
      /\ closed => closed'
  BY DEF WriteLoop, Take, Send, Sent, SendFails, rxVars, fVars
<1>2. BufferInv'
  BY <1>1, BufferKept
<1>3. EndInv'
  <2>1. CASE UNCHANGED <<closed, over, interrupted>>
    BY <1>1, <2>1 DEF EndInv, Started
  <2>2. CASE SendFails
    BY <2>2 DEF SendFails, EndInv, Started, InterruptWorkers, Workers, rxVars, fVars,
                SocketInv, LockInv
  <2> QED
    BY <2>1, <2>2 DEF WriteLoop, Take, Send, Sent
<1>4. WorkInv' /\ Types' /\ OutInv'
  <2>1. CASE UNCHANGED <<wire, inHand, outbox>>
    <3>1. OutInv' /\ Types'
      BY <1>1, <2>1, OutKept DEF Types
    <3>2. WorkInv'
      BY <1>1, <2>1 DEF WriteLoop, Take, Send, Write, Sent, SendFails, WorkInv, NoBatch, Answer
    <3> QED
      BY <3>1, <3>2
  <2>2. CASE Take /\ outbox' # outbox
    <3>1. /\ w' = "lock" /\ inHand' = <<Head(outbox)>> /\ outbox' = Tail(outbox)
          /\ outbox # <<>> /\ inHand = <<>> /\ UNCHANGED <<wire, over>> /\ w = "take"
      BY <2>2 DEF Take, WorkInv
    <3>2. inHand' \in Seq(Answers) /\ outbox' \in Seq(Answers) /\ Len(inHand') = 1
      BY <3>1, Head(outbox) \in Answers, Tail(outbox) \in Seq(Answers) DEF Types
    <3>3. wire' \o inHand' \o outbox' = wire \o outbox
      BY <3>1, HeadMoves DEF Types
    <3>4. wire \o inHand = wire
      BY <3>1 DEF Types
    <3>5. OutInv'
      BY <1>1, <3>1, <3>3, <3>4, Zenon DEF OutInv, Produced
    <3>6. Types'
      BY <1>1, <3>1, <3>2 DEF Types
    <3>7. WorkInv'
      BY <1>1, <3>1, <3>2 DEF WorkInv, NoBatch, Answer
    <3> QED
      BY <3>5, <3>6, <3>7
  <2>3. CASE (Send \/ Sent) /\ (wire' # wire \/ inHand' # inHand)
    <3>1. ~over /\ wire' = wire \o inHand /\ inHand' = <<>> /\ w' = "top" /\ Started
      BY <2>3, WritesWhileOpen
    <3>2. UNCHANGED <<outbox, over>>
      BY <2>3 DEF Send, Sent
    <3>3. Types'
      BY <1>1, <3>1, <3>2 DEF Types
    <3>4. answers' = wire' \o inHand' \o outbox'
      BY <1>1, <3>1, <3>2 DEF OutInv, Types
    <3>5. Produced' = answers'
      BY <3>3, <3>4, ProducedNext
    <3>6. WorkInv'
      BY <1>1, <3>1 DEF WorkInv, NoBatch, Answer, Started
    <3> QED
      BY <3>3, <3>4, <3>5, <3>6 DEF OutInv
  <2> QED
    BY <2>1, <2>2, <2>3 DEF WriteLoop, Take, Send, Sent, SendFails
<1> QED
  BY <1>2, <1>3, <1>4

\* What the flush thread takes: everything after the last frame answered.
LEMMA FlushTakesAll ==
  ASSUME SessionInv, TryFlush, buffer # <<>>, ~over
  PROVE  /\ batch = NoBatch /\ Answered \in Nat /\ Answered < seq
         /\ batch' = [oldest |-> Answered + 1, newest |-> seq]
<1>1. batch = NoBatch
  BY DEF SessionInv, TryFlush, WorkInv
<1>2. PICK u \in Nat : u = Answered
  BY AnsweredIsNat DEF SessionInv
<1>3. Len(buffer) = seq - u /\ \A i \in 1 .. Len(buffer) : buffer[i] = u + i
  BY <1>1, <1>2 DEF SessionInv, BufferInv, Upto
<1>4. Len(buffer) \in Nat /\ Len(buffer) > 0 /\ seq \in Nat
  BY DEF SessionInv, Types
<1>5. buffer[1] = u + 1 /\ buffer[Len(buffer)] = seq /\ u < seq
  BY <1>3, <1>4
<1> QED
  BY <1>1, <1>2, <1>5 DEF TryFlush

\* The answer put in the outbox is about the batch.
LEMMA PutIsAnswer ==
  ASSUME SessionInv, Enqueue, "flush" \notin interrupted
  PROVE  \E kind \in {"partial", "error"} :
           /\ Answer(kind, batch) \in Answers
           /\ outbox' = outbox \o <<Answer(kind, batch)>>
           /\ answers' = IF over THEN answers ELSE Append(answers, Answer(kind, batch))
<1>1. PICK kind \in {"partial", "error"} : answer = <<Answer(kind, batch)>>
  BY DEF SessionInv, Enqueue, WorkInv
<1>2. Answer(kind, batch) \in Answers
  BY DEF SessionInv, Types, Answer, Answers, NoAudio
<1>3. answers \o <<Answer(kind, batch)>> = Append(answers, Answer(kind, batch))
  BY <1>2 DEF SessionInv, Types
<1> QED
  BY <1>1, <1>2, <1>3 DEF Enqueue

LEMMA FlushSteps ==
  ASSUME SocketInv, SessionInv,
         FlushLoop \/ TryFlush \/ Enqueue \/ \E kind \in {"partial", "error"} : ProcessBatch(kind)
  PROVE  SessionInv'
<1> USE DEF SessionInv
<1>1. UNCHANGED <<rx, closing, seq, code, w, inHand, wire, closed, interrupted, over>> /\ Started'
  BY DEF FlushLoop, TryFlush, Enqueue, ProcessBatch, rxVars, wVars, Started
<1>2. EndInv'
  BY <1>1 DEF EndInv, FlushLoop, TryFlush, Enqueue, ProcessBatch, Started
<1>3. CASE FlushLoop
  <2>1. OutInv' /\ BufferInv'
    BY <1>1, <1>3, OutKept, BufferKept DEF FlushLoop
  <2>2. Types'
    BY <1>1, <1>3 DEF FlushLoop, Types
  <2>3. WorkInv'
    BY <1>1, <1>3 DEF FlushLoop, WorkInv, NoBatch
  <2> QED
    BY <1>2, <2>1, <2>2, <2>3
<1>4. ASSUME NEW kind \in {"partial", "error"}, ProcessBatch(kind) PROVE SessionInv'
  <2>1. OutInv' /\ BufferInv'
    BY <1>1, <1>4, OutKept, BufferKept DEF ProcessBatch
  <2>2. Types'
    BY <1>1, <1>4 DEF ProcessBatch, Types
  <2>3. WorkInv'
    BY <1>1, <1>4 DEF ProcessBatch, WorkInv, NoBatch, Answer
  <2> QED
    BY <1>2, <2>1, <2>2, <2>3
<1>5. CASE TryFlush /\ buffer = <<>>
  <2>1. UNCHANGED <<batch, buffer, answers, outbox, answer>> /\ f' = "park" /\ f = "flush"
    BY <1>5, Zenon DEF TryFlush
  <2>2. OutInv' /\ BufferInv'
    BY <1>1, <2>1, OutKept, BufferKept
  <2>3. Types'
    BY <1>1, <2>1 DEF Types
  <2>4. WorkInv'
    BY <1>1, <2>1 DEF WorkInv, NoBatch
  <2> QED
    BY <1>2, <2>2, <2>3, <2>4
<1>6. CASE TryFlush /\ buffer # <<>>
  <2>1. /\ batch' = [oldest |-> buffer[1], newest |-> buffer[Len(buffer)]] /\ buffer' = <<>>
        /\ f' = "infer" /\ f = "flush" /\ UNCHANGED <<answers, outbox, answer>>
    BY <1>6 DEF TryFlush
  <2>2. OutInv'
    BY <1>1, <2>1, OutKept
  <2>3. Types'
    BY <1>1, <1>6, <2>1, buffer[1] \in Nat, buffer[Len(buffer)] \in Nat DEF Types
  <2>4. ~over => batch' # NoBatch
    BY <1>6, FlushTakesAll DEF NoBatch
  <2>5. WorkInv'
    BY <1>1, <2>1, <2>4 DEF WorkInv, NoBatch
  <2>6. BufferInv'
    <3>1. CASE over
      BY <1>1, <3>1, Zenon DEF BufferInv
    <3>2. CASE ~over
      <4>1. batch' = [oldest |-> Answered + 1, newest |-> seq] /\ Answered \in Nat
        BY <1>6, <3>2, FlushTakesAll
      <4>2. Upto' = seq'
        BY <1>1, <2>4, <3>2, <4>1 DEF Upto
      <4> HIDE DEF SessionInv
      <4>3. seq' \in Nat
        BY <2>3 DEF Types
      <4>4. buffer' = <<>>
        BY <2>1, Zenon
      <4>5. Len(buffer') = 0
        BY <4>4
      <4>6. \A m \in Nat : m - m = 0
        OBVIOUS
      <4>7. \A i \in 1 .. Len(buffer') : buffer'[i] = Upto' + i
        BY <4>5
      <4> QED
        BY <4>2, <4>3, <4>5, <4>6, <4>7, Zenon DEF BufferInv
    <3> QED
      BY <3>1, <3>2
  <2> QED
    BY <1>2, <2>2, <2>3, <2>5, <2>6
<1>7. CASE Enqueue /\ "flush" \in interrupted
  <2>1. UNCHANGED <<batch, buffer, answers, outbox>> /\ f' = "park" /\ closed /\ f = "put"
    BY <1>7 DEF Enqueue, EndInv
  <2>2. OutInv' /\ BufferInv'
    BY <1>1, <2>1, OutKept, BufferKept
  <2>3. Types'
    BY <1>1, <2>1 DEF Types
  <2>4. WorkInv'
    BY <1>1, <2>1 DEF WorkInv, NoBatch
  <2> QED
    BY <1>2, <2>2, <2>3, <2>4
<1>8. CASE Enqueue /\ "flush" \notin interrupted
  <2>1. PICK kind \in {"partial", "error"} :
           /\ Answer(kind, batch) \in Answers
           /\ outbox' = outbox \o <<Answer(kind, batch)>>
           /\ answers' = IF over THEN answers ELSE Append(answers, Answer(kind, batch))
    BY <1>8, PutIsAnswer
  <2>2. /\ batch' = NoBatch /\ f' = "park" /\ f = "put" /\ buffer' = buffer
        /\ ~over => batch # NoBatch
    BY <1>8 DEF Enqueue, WorkInv
  <2>3. Types'
    BY <1>1, <2>1, <2>2 DEF Types, NoBatch
  <2>4. WorkInv'
    BY <1>1, <2>2 DEF WorkInv, NoBatch
  <2>5. CASE over
    <3>1. OutInv' /\ BufferInv'
      BY <1>1, <2>1, <2>5 DEF OutInv, Produced, BufferInv
    <3> QED
      BY <1>2, <2>3, <2>4, <3>1
  <2>6. CASE ~over
    <3> DEFINE a == Answer(kind, batch)
               held == wire \o inHand
    <3> HIDE DEF a
    <3>1. a \in Answers /\ outbox' = outbox \o <<a>> /\ answers' = Append(answers, a)
      BY <2>1, <2>6 DEF a
    <3>2. held \in Seq(Answers) /\ <<a>> \in Seq(Answers)
      BY <3>1 DEF Types
    <3>3. held \o (outbox \o <<a>>) = (held \o outbox) \o <<a>>
      BY <3>2, ConcatAssociative DEF Types
    <3>4. (held \o outbox) \o <<a>> = Append(answers, a)
      <4>1. held \o outbox = answers
        BY <2>6 DEF OutInv
      <4>2. answers \o <<a>> = Append(answers, a)
        BY <3>1 DEF Types
      <4> QED
        BY <4>1, <4>2
    <3>5. answers' = wire' \o inHand' \o outbox'
      BY <1>1, <3>1, <3>3, <3>4, Zenon
    <3>6. Produced' = answers'
      BY <2>3, <3>5, ProducedNext
    <3>7. Answered' = batch.newest
      <4>1. answers' # <<>> /\ answers'[Len(answers')] = a
        BY <3>1, AppendProperties DEF Types
      <4>2. a.newest = batch.newest
        BY DEF a, Answer
      <4> QED
        BY <4>1, <4>2 DEF Answered
    <3>8. Upto' = Upto
      BY <2>2, <2>6, <3>7 DEF Upto, NoBatch
    <3>9. BufferInv'
      BY <1>1, <2>2, <3>8 DEF BufferInv
    <3> QED
      BY <1>2, <2>3, <2>4, <3>5, <3>6, <3>9 DEF OutInv
  <2> QED
    BY <2>5, <2>6
<1> QED
  BY <1>3, <1>4, <1>5, <1>6, <1>7, <1>8

LEMMA SessionInvHolds == Spec => [](SocketInv /\ SessionInv)
<1>1. SessionInv /\ UNCHANGED vars => SessionInv'
  <2> SUFFICES ASSUME SessionInv, UNCHANGED vars PROVE SessionInv'
    OBVIOUS
  <2> USE DEF vars, rxVars, wVars, fVars, SessionInv
  <2>1. OutInv' /\ BufferInv'
    BY OutKept, BufferKept
  <2>2. Types' /\ EndInv'
    BY DEF Types, EndInv, Started
  <2>3. WorkInv'
    BY DEF WorkInv, NoBatch, Answer
  <2> QED
    BY <2>1, <2>2, <2>3
<1>2. SocketInv /\ SessionInv /\ [Next]_vars => SessionInv'
  BY <1>1, RxSteps, FrameStep, WriterSteps, FlushSteps DEF Next, RxStep
<1> QED
  BY <1>2, SessionInit, SocketInvHolds, PTL DEF Spec
-----------------------------------------------------------------------------
\* The contract sees nothing of a step that keeps the phase, the answers and the batch.
LEMMA StutterStep ==
  ASSUME Phase' = Phase, UNCHANGED <<seq, wire, answers, code, over>>, over \/ batch' = batch
  PROVE  UNCHANGED Contract!vars
BY DEF Contract!vars, Produced, NoBatch

\* The step in which a thread ends the session, with the code it has written or none.
LEMMA OverEnds ==
  ASSUME SessionInv, ~over, over', rx # "idle", rx' # "idle",
         UNCHANGED <<seq, wire, answers>>,
         code' \in {0, 1002, 1003, 1013}, code' \in {1003, 1013} => Started
  PROVE  Contract!Next
<1>1. Phase' = "closed" /\ Phase \in {"connected", "streaming"}
  BY DEF Phase
<1>2. code' \in {1003, 1013} => Phase = "streaming"
  BY DEF Phase
<1>3. code' # 1011 /\ code' \in Contract!Codes
  BY DEF Contract!Codes
<1>4. Contract!End(Session, code')
  <2>1. [c \in {Session} |-> Phase'] = [[c \in {Session} |-> Phase] EXCEPT ![Session] = "closed"]
    BY <1>1
  <2>2. [c \in {Session} |-> IF over' THEN NoBatch ELSE batch']
          = [[c \in {Session} |-> IF over THEN NoBatch ELSE batch] EXCEPT ![Session] = NoBatch]
    OBVIOUS
  <2>3. [c \in {Session} |-> code'] = [[c \in {Session} |-> code] EXCEPT ![Session] = code']
    OBVIOUS
  <2>4. Produced' = Produced
    BY DEF Produced
  <2> QED
    BY <1>1, <1>2, <1>3, <2>1, <2>2, <2>3, <2>4 DEF Contract!End, Contract!NoBatch, NoBatch
<1> QED
  BY <1>3, <1>4 DEF Contract!Next

LEMMA RxStepsRefine ==
  ASSUME SocketInv, SessionInv, RxStep
  PROVE  Contract!Next \/ UNCHANGED Contract!vars
<1> USE DEF SessionInv
<1>1. CASE OnOpen
  <2>1. Phase = "idle" /\ Phase' = "connected"
    BY <1>1 DEF OnOpen, Phase, EndInv, Started, fVars
  <2>2. UNCHANGED <<seq, batch, wire, answers, code, over>>
    BY <1>1 DEF OnOpen, wVars, fVars
  <2>3. Contract!Open(Session)
    BY <2>1, <2>2 DEF Contract!Open, Produced, NoBatch
  <2> QED
    BY <2>3 DEF Contract!Next
<1>2. CASE OnStart
  <2>1. Phase = "connected" /\ Phase' = "streaming"
    BY <1>2 DEF OnStart, Phase, EndInv, Started, rxVars
  <2>2. UNCHANGED <<seq, batch, wire, answers, code, over>>
    BY <1>2 DEF OnStart, rxVars
  <2>3. Contract!Start(Session)
    BY <2>1, <2>2 DEF Contract!Start, Produced, NoBatch
  <2> QED
    BY <2>3 DEF Contract!Next
<1>3. CASE ~OnOpen /\ ~OnStart
  <2> USE DEF wVars, fVars
  <2>1. UNCHANGED <<seq, wire, batch, answers, w, f>>
    BY <1>3, RxMovesNothing, ZenonT(60)
  <2>2. rx # "idle" /\ rx' # "idle"
    BY <1>3, ZenonT(60) DEF RxStep, OnEnd, OnPing, PongLock, Pong, Gone, OnRefused, BeginClose,
                LockForClose, LockTimeout, LockRefused, GiveUp, CloseWritten, CloseFails
  <2>3. CASE UNCHANGED <<over, code>>
    <3>1. Phase' = Phase
      BY <2>1, <2>2, <2>3 DEF Phase, Started
    <3> QED
      BY <2>1, <2>3, <3>1, StutterStep
  <2>4. CASE ~UNCHANGED <<over, code>>
    <3>1. /\ ~over /\ over' /\ code' \in {0, 1002, 1003, 1013}
          /\ code' \in {1003, 1013} => Started
      <4>1. CASE LockForClose \/ LockRefused
        BY <2>4, <4>1 DEF LockForClose, LockRefused, GiveUp, EndInv, Types
      <4>2. CASE CloseWritten \/ \E to \in {"helidon", "hung"} : CloseFails(to)
        BY <2>4, <4>2 DEF CloseWritten, CloseFails, EndInv, Types
      <4> QED
        BY <1>3, <2>4, <4>1, <4>2, ZenonT(60)
        DEF RxStep, OnEnd, OnPing, PongLock, Pong, Gone, OnRefused, BeginClose, LockTimeout
    <3> QED
      BY <2>1, <2>2, <3>1, OverEnds, ZenonT(60)
  <2> QED
    BY <2>3, <2>4
<1> QED
  BY <1>1, <1>2, <1>3

LEMMA FrameRefines ==
  ASSUME SocketInv, SessionInv, OnFrame
  PROVE  Contract!Next
<1>1. Phase = "streaming" /\ Phase' = "streaming"
  BY DEF OnFrame, Phase, SessionInv, EndInv, Started
<1>2. UNCHANGED <<batch, wire, answers, code, over>> /\ seq' = seq + 1
  BY DEF OnFrame, wVars
<1>3. Contract!Frame(Session, FALSE)
  BY <1>1, <1>2 DEF Contract!Frame, Contract!After, Produced, NoBatch
<1> QED
  BY <1>3, Zenon DEF Contract!Next

LEMMA WriterStepsRefine ==
  ASSUME SocketInv, SessionInv, SessionInv', WriteLoop \/ Take \/ Send \/ Sent \/ SendFails
  PROVE  Contract!Next \/ UNCHANGED Contract!vars
<1> USE DEF SessionInv
<1>1. UNCHANGED <<rx, seq, code, f, batch, answers>>
  BY DEF WriteLoop, Take, Send, Sent, SendFails, rxVars, fVars
<1>2. CASE UNCHANGED <<wire, over>>
  <2>1. Phase' = Phase
    BY <1>1, <1>2 DEF Phase, Started
  <2> QED
    BY <1>1, <1>2, <2>1, StutterStep
<1>3. CASE wire' # wire
  <2>1. Send \/ Sent
    BY <1>3 DEF WriteLoop, Take, SendFails
  <2>2. ~over /\ Len(inHand) = 1 /\ Started /\ rx # "idle" /\ wire' = wire \o inHand
    BY <1>3, <2>1, WritesWhileOpen
  <2>3. over' = over
    BY <2>1 DEF Send, Sent
  <2>4. Phase = "streaming" /\ Phase' = "streaming"
    BY <1>1, <2>2, <2>3 DEF Phase, Started
  <2>5. Produced = answers /\ Produced' = answers
    BY <1>1 DEF OutInv
  <2>6. Len(wire') = Len(wire) + 1 /\ Len(wire) < Len(answers)
    <3> DEFINE written == wire \o inHand
    <3>1. answers = written \o outbox
      BY <2>2, Zenon DEF OutInv
    <3>2. /\ written \in Seq(Answers) /\ Len(written) = Len(wire) + Len(inHand)
          /\ Len(written \o outbox) = Len(written) + Len(outbox)
      BY ConcatProperties DEF Types
    <3>3. wire' = written /\ Len(wire) \in Nat /\ Len(outbox) \in Nat
      BY <2>2 DEF Types
    <3> QED
      BY <2>2, <3>1, <3>2, <3>3
  <2>7. Contract!Send(Session)
    BY <1>1, <2>3, <2>4, <2>5, <2>6 DEF Contract!Send, NoBatch
  <2> QED
    BY <2>7 DEF Contract!Next
<1>4. CASE over' # over
  <2>1. SendFails /\ ~over /\ over' /\ wire' = wire
    BY <1>4 DEF WriteLoop, Take, Send, Sent, SendFails, EndInv
  <2>2. rx # "idle" /\ code' = 0
    BY <1>1, <2>1, Zenon DEF SendFails, EndInv, WorkInv, Started
  <2> QED
    BY <1>1, <2>1, <2>2, OverEnds
<1> QED
  BY <1>2, <1>3, <1>4, Zenon

LEMMA FlushStepsRefine ==
  ASSUME SocketInv, SessionInv, SessionInv',
         FlushLoop \/ TryFlush \/ Enqueue \/ \E kind \in {"partial", "error"} : ProcessBatch(kind)
  PROVE  Contract!Next \/ UNCHANGED Contract!vars
<1> USE DEF SessionInv
<1>1. UNCHANGED <<rx, seq, code, wire, over>> /\ Started /\ Started' /\ rx # "idle"
  BY DEF FlushLoop, TryFlush, Enqueue, ProcessBatch, rxVars, wVars, Started, EndInv
<1>2. Phase' = Phase /\ (~over => Phase = "streaming")
  BY <1>1 DEF Phase
<1>3. Produced = answers /\ Produced' = answers'
  BY DEF OutInv
<1>4. CASE answers' = answers /\ (over \/ batch' = batch)
  BY <1>1, <1>2, <1>4, StutterStep
<1>5. CASE TryFlush /\ ~over /\ batch' # batch
  <2>1. /\ batch = NoBatch /\ Answered < seq /\ answers' = answers
        /\ batch' = [oldest |-> Answered + 1, newest |-> seq]
    BY <1>5, FlushTakesAll DEF TryFlush
  <2>2. Contract!LastAnswered(answers) = Answered
    BY Zenon DEF Contract!LastAnswered, Answered
  <2>3. Contract!Flush(Session)
    BY <1>1, <1>2, <1>3, <1>5, <2>1, <2>2 DEF Contract!Flush, Contract!NoBatch, NoBatch
  <2> QED
    BY <2>3, Zenon DEF Contract!Next
<1>6. CASE Enqueue /\ ~over /\ "flush" \notin interrupted
  <2>1. PICK kind \in {"partial", "error"} : answers' = Append(answers, Answer(kind, batch))
    BY <1>6, PutIsAnswer, Zenon
  <2>2. batch' = NoBatch /\ batch # NoBatch
    BY <1>6 DEF Enqueue, WorkInv
  <2>3. Contract!Respond(Session, kind, TRUE, FALSE)
    BY <1>1, <1>2, <1>3, <1>6, <2>1, <2>2, Zenon
    DEF Contract!Respond, Contract!After, Contract!NoBatch, Contract!NoAudio, Contract!AudioOf,
        NoBatch, NoAudio, Answer
  <2> QED
    BY <2>3, Zenon DEF Contract!Next
<1> QED
  BY <1>4, <1>5, <1>6, Zenon DEF FlushLoop, TryFlush, Enqueue, ProcessBatch

\* The three threads of a session implement the contract, for every outbox, backlog
\* and number of frames.
THEOREM JavaImplementsContract == Spec => ImplementsContract
<1>1. Init => Contract!Init
  BY DEF Init, Contract!Init, Phase, Produced, NoBatch, Contract!NoBatch
<1>2. SocketInv /\ SessionInv /\ SessionInv' /\ [Next]_vars => [Contract!Next]_(Contract!vars)
  <2>1. UNCHANGED vars => UNCHANGED Contract!vars
    BY DEF vars, rxVars, wVars, fVars, Contract!vars, Phase, Started, Produced, NoBatch
  <2> QED
    BY <2>1, RxStepsRefine, FrameRefines, WriterStepsRefine, FlushStepsRefine, Zenon DEF Next, RxStep
<1> QED
  BY <1>1, <1>2, SessionInvHolds, PTL DEF Spec, ImplementsContract, Contract!Spec
=============================================================================
