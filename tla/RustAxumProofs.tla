--------------------------- MODULE RustAxumProofs ---------------------------
(***************************************************************************)
(* The two tasks of a rust-axum session implement the contract, for every  *)
(* channel depth and every number of frames.                               *)
(*                                                                         *)
(* The answers are wherever the socket task has left them (on the wire, in *)
(* its hand, in the channel); read in that order they are the contract's.  *)
(* The heart of the invariant is that the buffer holds exactly the frames  *)
(* after the last one answered or at inference.                            *)
(***************************************************************************)
EXTENDS RustAxum, SequenceTheorems, TLAPS

\* More than the provers' default time, for slow machines.
USE SMTT(30)

Answers == [kind : {"partial", "error"}, oldest : Nat, newest : Nat,
            audio : [conn : {Session, NoConn}, first : Nat, last : Nat]]

\* The answers produced so far, in order.
Out == wire \o inHand \o chan

\* The last frame answered, and the last one answered or at inference.
Answered == IF Out = <<>> THEN 0 ELSE Out[Len(Out)].newest
Upto == IF batch = NoBatch THEN Answered ELSE batch.newest

Types ==
  /\ seq \in Nat
  /\ wire \in Seq(Answers)
  /\ inHand \in Seq(Answers)
  /\ chan \in Seq(Answers)
  /\ buffer \in Seq(Nat)
  /\ batch \in [oldest : Nat, newest : Nat]
  /\ pc \in {"idle", "first", "select", "recv", "send", "close", "done"}
  /\ fl \in {"none", "tick", "infer", "push", "dead"}
  /\ closing \in {0, 1002, 1003}

\* Where the socket task is, and what that says of the answer in its hand, of the
\* flush task and of the close code.
SocketInv ==
  /\ pc \in {"idle", "first", "select", "recv", "close"} => inHand = <<>>
  /\ pc = "send" => Len(inHand) = 1
  /\ pc \in {"idle", "first"} => fl = "none"
  /\ pc \in {"select", "recv", "send"} => fl # "none"
  /\ closing = 1003 => fl # "none"
  /\ pc # "done" => code = 0

\* Where the flush task is: it runs in a live session, is aborted with it, and has a
\* batch between its tick and its push.
FlushInv ==
  /\ pc # "done" => ~aborted /\ fl # "dead"
  /\ pc = "done" /\ fl # "none" => aborted
  /\ fl \in {"none", "tick"} => batch = NoBatch
  /\ fl \in {"infer", "push"} => batch # NoBatch
  /\ fl = "push" => \E kind \in {"partial", "error"} : answer = <<Answer(kind, batch)>>

\* The buffer holds the frames that are neither answered nor at inference.
BufferInv ==
  pc # "done" =>
    /\ Len(buffer) = seq - Upto
    /\ \A i \in 1 .. Len(buffer) : buffer[i] = Upto + i

\* The inductive invariant.
AxumInv == Types /\ SocketInv /\ FlushInv /\ BufferInv
-----------------------------------------------------------------------------
\* Out is a sequence of answers, so the last frame answered is a number.
LEMMA OutIsAnswers ==
  ASSUME Types
  PROVE  Out \in Seq(Answers) /\ Answered \in Nat /\ Upto \in Nat
<1>1. Out \in Seq(Answers)
  BY DEF Types, Out
<1>2. ASSUME Out # <<>> PROVE Out[Len(Out)] \in Answers
  BY <1>1, <1>2
<1>3. Answered \in Nat
  BY <1>2 DEF Answered, Answers
<1> QED
  BY <1>1, <1>3 DEF Types, Upto

\* Taking an answer from the channel, and writing it, move it without changing Out.
LEMMA MoveToHand ==
  ASSUME Types, inHand = <<>>, chan # <<>>
  PROVE  wire \o <<Head(chan)>> \o Tail(chan) = Out
<1>1. <<Head(chan)>> \o Tail(chan) = chan
  BY DEF Types
<1>2. wire \o <<Head(chan)>> \o Tail(chan) = wire \o chan
  BY <1>1, Head(chan) \in Answers, Tail(chan) \in Seq(Answers),
     <<Head(chan)>> \in Seq(Answers), ConcatAssociative DEF Types
<1>3. wire \o inHand = wire
  BY DEF Types
<1> QED
  BY <1>2, <1>3 DEF Out

LEMMA MoveToWire ==
  ASSUME Types
  PROVE  (wire \o inHand) \o <<>> \o chan = Out
BY DEF Types, Out

\* Pushing an answer appends it to Out.
LEMMA PushAppends ==
  ASSUME Types, NEW a \in Answers
  PROVE  /\ wire \o inHand \o (chan \o <<a>>) = Append(Out, a)
         /\ Append(Out, a) # <<>>
         /\ Append(Out, a)[Len(Append(Out, a))] = a
<1>1. wire \o inHand \in Seq(Answers) /\ <<a>> \in Seq(Answers) /\ Out \in Seq(Answers)
  BY DEF Types, Out
<1>2. (wire \o inHand) \o (chan \o <<a>>) = ((wire \o inHand) \o chan) \o <<a>>
  BY <1>1, ConcatAssociative DEF Types
<1>3. Out \o <<a>> = Append(Out, a)
  BY <1>1
<1> QED
  BY <1>1, <1>2, <1>3 DEF Out
-----------------------------------------------------------------------------
LEMMA InitHolds == Init => AxumInv
<1> SUFFICES ASSUME Init PROVE AxumInv
  OBVIOUS
<1>1. Out = <<>>
  BY DEF Init, Out
<1>2. Upto = 0
  BY <1>1 DEF Init, Upto, Answered
<1> QED
  BY <1>2 DEF Init, AxumInv, Types, SocketInv, FlushInv, BufferInv, NoBatch

\* BufferInv survives a step that leaves Out, the batch, the buffer and seq alone.
LEMMA BufferKept ==
  ASSUME BufferInv, pc # "done", Out' = Out, UNCHANGED <<batch, buffer, seq>>
  PROVE  BufferInv'
<1>1. Upto' = Upto
  BY DEF Upto, Answered
<1> QED
  BY <1>1 DEF BufferInv

LEMMA SocketSteps ==
  ASSUME AxumInv,
         \/ HandleSocket \/ SelectOutbound \/ SelectInbound \/ Woken \/ Sent \/ Closed
         \/ \E m \in Inbound : FirstMessage(m) \/ HandleInbound(m)
  PROVE  AxumInv'
<1> USE DEF AxumInv
<1>1. CASE HandleSocket \/ SelectInbound \/ Woken
  <2>1. Out' = Out
    BY <1>1 DEF HandleSocket, SelectInbound, Woken, Out
  <2>2. BufferInv'
    BY <1>1, <2>1, BufferKept DEF HandleSocket, SelectInbound, Woken, flushVars
  <2> QED
    BY <1>1, <2>2 DEF HandleSocket, SelectInbound, Woken, flushVars, Types, SocketInv, FlushInv
<1>2. CASE SelectOutbound
  <2>1. Out' = Out
    BY <1>2, MoveToHand DEF SelectOutbound, Out, SocketInv
  <2>2. BufferInv'
    BY <1>2, <2>1, BufferKept DEF SelectOutbound, flushVars
  <2>3. inHand' \in Seq(Answers) /\ chan' \in Seq(Answers) /\ Len(inHand') = 1
    BY <1>2, Head(chan) \in Answers, Tail(chan) \in Seq(Answers) DEF SelectOutbound, Types
  <2> QED
    BY <1>2, <2>2, <2>3 DEF SelectOutbound, flushVars, Types, SocketInv, FlushInv
<1>3. ASSUME NEW k, Return(k), pc # "done", UNCHANGED <<seq, inHand, wire, buffer, chan, flushVars>>
      PROVE  AxumInv'
  <2>1. fl' # "none" => aborted'
    BY <1>3, Zenon DEF Return, flushVars
  <2>2. pc' = "done" /\ closing' = 0
    BY <1>3 DEF Return
  <2>3. Types' /\ SocketInv'
    BY <1>3, <2>2 DEF flushVars, Types, SocketInv
  <2>4. FlushInv'
    BY <1>3, <2>1, <2>2 DEF flushVars, FlushInv, Answer
  <2> QED
    BY <2>2, <2>3, <2>4 DEF BufferInv
<1>4. CASE Sent
  <2>1. CASE Return(0) /\ UNCHANGED <<wire, inHand>>
    BY <1>3, <1>4, <2>1 DEF Sent
  <2>2. CASE /\ pc' = "select" /\ wire' = wire \o inHand /\ inHand' = <<>>
             /\ UNCHANGED <<closing, code, aborted>>
    <3>1. Out' = Out
      BY <1>4, <2>2, MoveToWire DEF Sent, Out
    <3>2. BufferInv'
      BY <1>4, <2>2, <3>1, BufferKept DEF Sent, flushVars
    <3>3. wire' \in Seq(Answers) /\ inHand' \in Seq(Answers)
      BY <2>2 DEF Types
    <3> QED
      BY <1>4, <2>2, <3>2, <3>3 DEF Sent, flushVars, Types, SocketInv, FlushInv
  <2> QED
    BY <1>4, <2>1, <2>2 DEF Sent
<1>5. CASE Closed
  BY <1>3, <1>5 DEF Closed
<1>6. ASSUME NEW m \in Inbound, FirstMessage(m) PROVE AxumInv'
  <2>1. CASE m = "lost"
    BY <1>3, <1>6, <2>1 DEF FirstMessage, flushVars
  <2>2. CASE m # "lost"
    <3>1. Out' = Out
      BY <1>6 DEF FirstMessage, Out
    <3>2. BufferInv'
      BY <1>6, <3>1, BufferKept DEF FirstMessage
    <3> QED
      BY <1>6, <2>2, <3>2 DEF FirstMessage, BeginClose, Types, SocketInv, FlushInv
  <2> QED
    BY <2>1, <2>2
<1>7. ASSUME NEW m \in Inbound, HandleInbound(m) PROVE AxumInv'
  <2>1. CASE m = "lost"
    BY <1>3, <1>7, <2>1 DEF HandleInbound
  <2>2. Out' = Out
    BY <1>7 DEF HandleInbound, Out
  <2>3. CASE m = "frame"
    <3>1. /\ seq' = seq + 1 /\ buffer' = Append(buffer, seq + 1) /\ pc' = "select"
          /\ UNCHANGED <<closing, code, aborted, inHand, wire, chan, flushVars>> /\ pc = "recv"
      BY <1>7, <2>3 DEF HandleInbound
    <3>2. Upto' = Upto
      BY <2>2, <3>1 DEF Upto, Answered, flushVars
    <3>3. PICK u \in Nat : u = Upto
      BY OutIsAnswers
    <3>4. Len(buffer) = seq - u /\ \A i \in 1 .. Len(buffer) : buffer[i] = u + i
      BY <3>1, <3>3 DEF BufferInv
    <3>5. Len(buffer') = seq' - u /\ \A i \in 1 .. Len(buffer') : buffer'[i] = u + i
      <4>1. Len(buffer') = Len(buffer) + 1 /\ buffer'[Len(buffer) + 1] = seq + 1
        BY <3>1 DEF Types
      <4>2. \A i \in 1 .. Len(buffer) : buffer'[i] = buffer[i]
        BY <3>1 DEF Types
      <4>3. Len(buffer) \in Nat /\ seq \in Nat
        BY DEF Types
      <4> QED
        BY <3>1, <3>4, <4>1, <4>2, <4>3
    <3>6. BufferInv'
      BY <3>2, <3>3, <3>5 DEF BufferInv
    <3> QED
      BY <3>1, <3>6 DEF flushVars, Types, SocketInv, FlushInv
  <2>4. CASE m \notin {"lost", "frame"}
    <3>1. BufferInv'
      BY <1>7, <2>2, <2>4, BufferKept DEF HandleInbound, flushVars
    <3> QED
      BY <1>7, <2>4, <3>1 DEF HandleInbound, BeginClose, flushVars, Types, SocketInv, FlushInv
  <2> QED
    BY <2>1, <2>3, <2>4
<1> QED
  BY <1>1, <1>2, <1>4, <1>5, <1>6, <1>7

\* What the flush task takes: everything after the last frame answered.
LEMMA TickTakesAll ==
  ASSUME AxumInv, Tick
  PROVE  /\ pc # "done" /\ fl # "none"
         /\ batch = NoBatch
         /\ Answered \in Nat
         /\ Answered < seq
         /\ batch' = [oldest |-> Answered + 1, newest |-> seq]
<1>1. pc # "done" /\ fl = "tick" /\ batch = NoBatch
  BY DEF AxumInv, Tick, FlushInv
<1>2. PICK u \in Nat : u = Answered
  BY OutIsAnswers DEF AxumInv
<1>3. Len(buffer) = seq - u /\ \A i \in 1 .. Len(buffer) : buffer[i] = u + i
  BY <1>1, <1>2 DEF AxumInv, BufferInv, Upto
<1>4. Len(buffer) \in Nat /\ Len(buffer) > 0 /\ seq \in Nat
  BY DEF AxumInv, Types, Tick
<1>5. buffer[1] = u + 1 /\ buffer[Len(buffer)] = seq /\ u < seq
  BY <1>3, <1>4
<1> QED
  BY <1>1, <1>2, <1>5 DEF Tick

\* The answer pushed is about the batch, and the next one.
LEMMA PushIsAnswer ==
  ASSUME AxumInv, Push
  PROVE  /\ pc # "done" /\ fl # "none" /\ batch # NoBatch
         /\ \E kind \in {"partial", "error"} :
              /\ Answer(kind, batch) \in Answers
              /\ chan' = chan \o <<Answer(kind, batch)>>
              /\ Out' = Append(Out, Answer(kind, batch))
<1>1. pc # "done" /\ fl = "push" /\ batch # NoBatch
  BY DEF AxumInv, Push, FlushInv
<1>2. PICK kind \in {"partial", "error"} : answer = <<Answer(kind, batch)>>
  BY <1>1 DEF AxumInv, FlushInv
<1>3. Answer(kind, batch) \in Answers
  BY DEF AxumInv, Types, Answer, Answers, NoAudio
<1>4. chan' = chan \o <<Answer(kind, batch)>> /\ UNCHANGED <<wire, inHand>>
  BY <1>2 DEF Push, socketVars
<1>5. Out' = Append(Out, Answer(kind, batch))
  BY <1>3, <1>4, PushAppends DEF AxumInv, Out
<1> QED
  BY <1>1, <1>3, <1>4, <1>5

LEMMA FlushSteps ==
  ASSUME AxumInv,
         \/ Tick \/ Push \/ Cancelled
         \/ \E kind \in {"partial", "error"} : RequestPartial(kind)
  PROVE  AxumInv'
<1> USE DEF AxumInv
<1>1. CASE Tick
  <2>1. /\ batch' = [oldest |-> Answered + 1, newest |-> seq] /\ buffer' = <<>> /\ fl' = "infer"
        /\ UNCHANGED <<socketVars, chan, aborted, answer>> /\ Answered \in Nat /\ seq \in Nat
    BY <1>1, TickTakesAll DEF Tick, Types
  <2>2. batch' # NoBatch /\ batch'.newest = seq /\ batch' \in [oldest : Nat, newest : Nat]
    BY <2>1 DEF NoBatch
  <2>3. Upto' = seq'
    BY <2>1, <2>2 DEF Upto, NoBatch, socketVars
  <2>4. BufferInv'
    BY <2>1, <2>3 DEF BufferInv, socketVars
  <2>5. pc # "done" /\ ~aborted
    BY <1>1, TickTakesAll DEF Tick
  <2>6. Types'
    BY <2>1, <2>2 DEF socketVars, Types
  <2>7. SocketInv'
    BY <1>1, <2>1, TickTakesAll DEF socketVars, SocketInv
  <2>8. FlushInv'
    BY <2>1, <2>2, <2>5 DEF socketVars, FlushInv, NoBatch
  <2> QED
    BY <2>4, <2>6, <2>7, <2>8
<1>2. CASE Push
  <2>1. PICK kind \in {"partial", "error"} :
              /\ Answer(kind, batch) \in Answers
              /\ chan' = chan \o <<Answer(kind, batch)>>
              /\ Out' = Append(Out, Answer(kind, batch))
    BY <1>2, PushIsAnswer
  <2>2. Answered' = batch.newest
    BY <2>1, PushAppends DEF Answered, Answer
  <2>3. batch' = NoBatch /\ fl' = "tick" /\ UNCHANGED <<socketVars, buffer, aborted>> /\ ~aborted
    BY <1>2 DEF Push
  <2>4. Upto' = Upto
    BY <1>2, <2>2, <2>3, PushIsAnswer DEF Upto, NoBatch
  <2>5. BufferInv'
    BY <2>3, <2>4 DEF BufferInv, socketVars
  <2>6. chan' \in Seq(Answers)
    BY <2>1 DEF Types
  <2>7. pc # "done" /\ fl # "none" /\ batch' \in [oldest : Nat, newest : Nat]
    BY <1>2, <2>3, PushIsAnswer DEF NoBatch
  <2> QED
    BY <2>3, <2>5, <2>6, <2>7 DEF socketVars, Types, SocketInv, FlushInv, NoBatch
<1>3. CASE Cancelled
  <2>1. pc = "done"
    BY <1>3 DEF Cancelled, FlushInv
  <2> QED
    BY <1>3, <2>1 DEF Cancelled, socketVars, Types, SocketInv, FlushInv, BufferInv
<1>4. ASSUME NEW kind \in {"partial", "error"}, RequestPartial(kind) PROVE AxumInv'
  <2>1. Out' = Out /\ pc # "done"
    BY <1>4 DEF RequestPartial, socketVars, Out, FlushInv
  <2>2. BufferInv'
    BY <1>4, <2>1, BufferKept DEF RequestPartial, socketVars
  <2>3. answer' = <<Answer(kind, batch)>> /\ batch' = batch /\ batch # NoBatch
    BY <1>4 DEF RequestPartial, FlushInv
  <2>4. \E k \in {"partial", "error"} : answer' = <<Answer(k, batch')>>
    BY <2>3 DEF Answer
  <2>5. FlushInv'
    BY <1>4, <2>1, <2>3, <2>4 DEF RequestPartial, socketVars, FlushInv, NoBatch, Answer
  <2> QED
    BY <1>4, <2>2, <2>5 DEF RequestPartial, socketVars, Types, SocketInv
<1> QED
  BY <1>1, <1>2, <1>3, <1>4

LEMMA AxumInvHolds == Spec => []AxumInv
<1>1. AxumInv /\ UNCHANGED vars => AxumInv'
  <2> SUFFICES ASSUME AxumInv, UNCHANGED vars PROVE AxumInv'
    OBVIOUS
  <2>1. Types' /\ SocketInv'
    BY DEF vars, AxumInv, Types, SocketInv
  <2>2. FlushInv'
    BY DEF vars, AxumInv, FlushInv, NoBatch, Answer
  <2>3. Upto' = Upto
    BY DEF vars, Upto, Answered, Out, NoBatch
  <2>4. BufferInv'
    BY <2>3 DEF vars, AxumInv, BufferInv
  <2> QED
    BY <2>1, <2>2, <2>4 DEF AxumInv
<1>2. AxumInv /\ [Next]_vars => AxumInv'
  BY <1>1, SocketSteps, FlushSteps DEF Next
<1> QED
  BY <1>2, InitHolds, PTL DEF Spec
-----------------------------------------------------------------------------
\* The contract sees nothing of a step that keeps the phase, Out and the batch.
LEMMA StutterStep ==
  ASSUME Phase' = Phase, Out' = Out, UNCHANGED <<seq, wire, code>>,
         \/ pc # "done" /\ pc' # "done" /\ batch' = batch
         \/ pc = "done" /\ pc' = "done"
  PROVE  UNCHANGED Contract!vars
BY DEF Contract!vars, Out, NoBatch

\* The end of a session, however it comes, is one step of the contract.
LEMMA ReturnEnds ==
  ASSUME AxumInv, NEW k \in {0, closing}, Return(k), pc \notin {"idle", "done"},
         UNCHANGED <<seq, inHand, wire, buffer, chan, fl, batch, answer>>,
         k = 1002 \/ k = 0 \/ (k = 1003 /\ fl # "none")
  PROVE  Contract!Next
<1>1. pc' = "done" /\ code' = k
  BY DEF Return
<1>2. Phase' = "closed" /\ Phase \in {"connected", "streaming"}
  BY <1>1 DEF Phase
<1>3. k = 1003 => Phase = "streaming"
  BY DEF Phase
<1>4. k \in {0, 1002, 1003} /\ pc # "done"
  OBVIOUS
<1>5. k \notin {1011, 1013} /\ k \in Contract!Codes
  BY <1>4 DEF Contract!Codes
<1>6. Contract!End(Session, k)
  <2>1. [c \in {Session} |-> Phase'] = [[c \in {Session} |-> Phase] EXCEPT ![Session] = "closed"]
    BY <1>2
  <2>2. [c \in {Session} |-> IF pc' = "done" THEN NoBatch ELSE batch']
          = [[c \in {Session} |-> IF pc = "done" THEN NoBatch ELSE batch] EXCEPT ![Session] = NoBatch]
    BY <1>1
  <2>3. [c \in {Session} |-> code'] = [[c \in {Session} |-> code] EXCEPT ![Session] = k]
    BY <1>1
  <2> QED
    BY <1>2, <1>3, <1>5, <2>1, <2>2, <2>3 DEF Contract!End, Contract!NoBatch, NoBatch
<1> QED
  BY <1>5, <1>6 DEF Contract!Next

LEMMA SocketStepsRefine ==
  ASSUME AxumInv,
         \/ HandleSocket \/ SelectOutbound \/ SelectInbound \/ Woken \/ Sent \/ Closed
         \/ \E m \in Inbound : FirstMessage(m) \/ HandleInbound(m)
  PROVE  Contract!Next \/ UNCHANGED Contract!vars
<1> USE DEF AxumInv
<1>1. CASE HandleSocket
  <2>1. Phase = "idle" /\ Phase' = "connected"
    BY <1>1 DEF HandleSocket, Phase, SocketInv, flushVars
  <2>2. UNCHANGED <<seq, batch, wire, inHand, chan, code>> /\ pc # "done" /\ pc' # "done"
    BY <1>1 DEF HandleSocket, flushVars
  <2>3. Contract!Open(Session)
    BY <2>1, <2>2 DEF Contract!Open
  <2> QED
    BY <2>3 DEF Contract!Next
<1>2. CASE SelectInbound \/ Woken
  <2>1. Phase' = Phase /\ Out' = Out
    BY <1>2 DEF SelectInbound, Woken, Phase, Out, flushVars
  <2> QED
    BY <1>2, <2>1, StutterStep DEF SelectInbound, Woken, flushVars
<1>3. CASE SelectOutbound
  <2>1. Out' = Out
    BY <1>3, MoveToHand DEF SelectOutbound, Out, SocketInv
  <2>2. Phase' = Phase
    BY <1>3 DEF SelectOutbound, Phase, flushVars
  <2> QED
    BY <1>3, <2>1, <2>2, StutterStep DEF SelectOutbound, flushVars
<1>4. CASE Sent
  <2>1. CASE Return(0) /\ UNCHANGED <<wire, inHand>>
    BY <1>4, <2>1, ReturnEnds DEF Sent, flushVars
  <2>2. CASE /\ pc' = "select" /\ wire' = wire \o inHand /\ inHand' = <<>>
             /\ UNCHANGED <<closing, code, aborted>>
    <3>1. wire' \o inHand' \o chan' = wire \o inHand \o chan
      BY <1>4, <2>2, MoveToWire DEF Sent, Out
    <3>2. Phase = "streaming" /\ Phase' = "streaming"
      BY <1>4, <2>2 DEF Sent, Phase, SocketInv, flushVars
    <3> DEFINE written == wire \o inHand
    <3>3. /\ written \in Seq(Answers) /\ Len(written) = Len(wire) + Len(inHand)
          /\ Len(written \o chan) = Len(written) + Len(chan)
      BY ConcatProperties DEF Types
    <3>4. Len(wire') = Len(wire) + 1 /\ Len(wire) < Len(wire \o inHand \o chan)
      <4>1. wire' = written /\ Len(inHand) = 1 /\ Len(chan) \in Nat /\ Len(wire) \in Nat
        BY <1>4, <2>2 DEF Sent, Types, SocketInv
      <4> QED
        BY <3>3, <4>1
    <3>5. UNCHANGED <<seq, batch, code>> /\ pc # "done" /\ pc' # "done"
      BY <1>4, <2>2 DEF Sent, flushVars
    <3>6. Contract!Send(Session)
      BY <3>1, <3>2, <3>4, <3>5 DEF Contract!Send
    <3> QED
      BY <3>6 DEF Contract!Next
  <2> QED
    BY <1>4, <2>1, <2>2 DEF Sent
<1>5. CASE Closed
  <2>1. PICK k \in {0, closing} : Return(k)
    BY <1>5 DEF Closed
  <2> QED
    BY <1>5, <2>1, ReturnEnds DEF Closed, Types, SocketInv, flushVars
<1>6. ASSUME NEW m \in Inbound, FirstMessage(m) PROVE Contract!Next \/ UNCHANGED Contract!vars
  <2>1. CASE m = "lost"
    BY <1>6, <2>1, ReturnEnds DEF FirstMessage
  <2>2. CASE m = "start"
    <3>1. Phase = "connected" /\ Phase' = "streaming"
      BY <1>6, <2>2 DEF FirstMessage, Phase, SocketInv
    <3>2. UNCHANGED <<seq, batch, wire, inHand, chan, code>> /\ pc # "done" /\ pc' # "done"
      BY <1>6, <2>2 DEF FirstMessage
    <3>3. Contract!Start(Session)
      BY <3>1, <3>2 DEF Contract!Start
    <3> QED
      BY <3>3 DEF Contract!Next
  <2>3. CASE m \notin {"lost", "start"}
    <3>1. Phase' = Phase /\ Out' = Out
      BY <1>6, <2>3 DEF FirstMessage, BeginClose, Phase, Out
    <3> QED
      BY <1>6, <2>3, <3>1, StutterStep DEF FirstMessage, BeginClose
  <2> QED
    BY <2>1, <2>2, <2>3
<1>7. ASSUME NEW m \in Inbound, HandleInbound(m) PROVE Contract!Next \/ UNCHANGED Contract!vars
  <2>1. CASE m = "lost"
    BY <1>7, <2>1, ReturnEnds DEF HandleInbound, flushVars
  <2>2. CASE m = "frame"
    <3>1. Phase = "streaming" /\ Phase' = "streaming"
      BY <1>7, <2>2 DEF HandleInbound, Phase, SocketInv, flushVars
    <3>2. /\ UNCHANGED <<batch, wire, inHand, chan, code>> /\ pc # "done" /\ pc' # "done"
          /\ seq' = seq + 1
      BY <1>7, <2>2 DEF HandleInbound, flushVars
    <3>3. Contract!Frame(Session, FALSE)
      BY <3>1, <3>2 DEF Contract!Frame, Contract!After
    <3> QED
      BY <3>3, Zenon DEF Contract!Next
  <2>3. CASE m \notin {"lost", "frame"}
    <3>1. Phase' = Phase /\ Out' = Out
      BY <1>7, <2>3 DEF HandleInbound, BeginClose, Phase, Out, flushVars
    <3> QED
      BY <1>7, <2>3, <3>1, StutterStep DEF HandleInbound, BeginClose, flushVars
  <2> QED
    BY <2>1, <2>2, <2>3
<1> QED
  BY <1>1, <1>2, <1>3, <1>4, <1>5, <1>6, <1>7

LEMMA FlushStepsRefine ==
  ASSUME AxumInv,
         \/ Tick \/ Push \/ Cancelled
         \/ \E kind \in {"partial", "error"} : RequestPartial(kind)
  PROVE  Contract!Next \/ UNCHANGED Contract!vars
<1> USE DEF AxumInv
<1>1. CASE Tick
  <2>1. /\ pc # "done" /\ fl # "none" /\ batch = NoBatch /\ Answered < seq
        /\ batch' = [oldest |-> Answered + 1, newest |-> seq]
    BY <1>1, TickTakesAll
  <2>2. UNCHANGED <<pc, code, seq, inHand, wire, chan>> /\ fl' = "infer"
    BY <1>1 DEF Tick, socketVars
  <2>3. Phase = "streaming" /\ Phase' = "streaming"
    BY <2>1, <2>2 DEF Phase, SocketInv
  <2>4. Contract!LastAnswered(wire \o inHand \o chan) = Answered
    BY DEF Contract!LastAnswered, Answered, Out
  <2>5. Contract!Flush(Session)
    BY <2>1, <2>2, <2>3, <2>4 DEF Contract!Flush, Contract!NoBatch, NoBatch
  <2> QED
    BY <2>5 DEF Contract!Next
<1>2. CASE Push
  <2>1. PICK kind \in {"partial", "error"} : Out' = Append(Out, Answer(kind, batch))
    BY <1>2, PushIsAnswer
  <2>2. UNCHANGED <<pc, code, seq, wire>> /\ fl' = "tick" /\ batch' = NoBatch
    BY <1>2 DEF Push, socketVars
  <2>3. pc # "done" /\ fl # "none" /\ batch # NoBatch
    BY <1>2, PushIsAnswer
  <2>4. Phase = "streaming" /\ Phase' = "streaming"
    BY <2>2, <2>3 DEF Phase, SocketInv
  <2>5. Contract!Respond(Session, kind, TRUE, FALSE)
    BY <2>1, <2>2, <2>3, <2>4, Zenon
    DEF Contract!Respond, Contract!After, Contract!NoBatch, Contract!NoAudio, Contract!AudioOf,
        NoBatch, NoAudio, Answer, Out
  <2> QED
    BY <2>5, Zenon DEF Contract!Next
<1>3. CASE Cancelled
  <2>1. pc = "done" /\ pc' = "done"
    BY <1>3 DEF Cancelled, FlushInv, socketVars
  <2>2. Phase' = Phase /\ Out' = Out
    BY <1>3, <2>1 DEF Cancelled, Phase, Out, socketVars
  <2> QED
    BY <1>3, <2>1, <2>2, StutterStep DEF Cancelled, socketVars
<1>4. CASE \E kind \in {"partial", "error"} : RequestPartial(kind)
  <2>1. pc # "done" /\ pc' = pc
    BY <1>4 DEF RequestPartial, FlushInv, socketVars
  <2>2. Phase' = Phase /\ Out' = Out
    BY <1>4, <2>1 DEF RequestPartial, Phase, Out, socketVars
  <2> QED
    BY <1>4, <2>1, <2>2, StutterStep DEF RequestPartial, socketVars
<1> QED
  BY <1>1, <1>2, <1>3, <1>4

\* The two tasks of a rust-axum session implement the contract, for every depth of
\* the channel between them and every number of frames.
THEOREM AxumImplementsContract == Spec => ImplementsContract
<1>1. Init => Contract!Init
  BY DEF Init, Contract!Init, Phase, NoBatch, Contract!NoBatch
<1>2. AxumInv /\ [Next]_vars => [Contract!Next]_(Contract!vars)
  <2>1. UNCHANGED vars => UNCHANGED Contract!vars
    BY DEF vars, Contract!vars, Phase, NoBatch
  <2> QED
    BY <2>1, SocketStepsRefine, FlushStepsRefine DEF Next
<1> QED
  BY <1>1, <1>2, AxumInvHolds, PTL DEF Spec, ImplementsContract, Contract!Spec
=============================================================================
