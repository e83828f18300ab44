-------------------------- MODULE BunSessionProofs --------------------------
(***************************************************************************)
(* The typescript-bun session, for every interval, jitter, timeout, outbox *)
(* and number of frames: its backlog cap spares a healthy session, and it  *)
(* implements the contract.                                                *)
(***************************************************************************)
EXTENDS BunSession, SequenceTheorems, TLAPS

\* More than the provers' default time, for slow machines.
USE SMTT(30)
-----------------------------------------------------------------------------
(***************************************************************************)
(* The backlog cap.  The inductive invariant bounds the frames that wait,  *)
(* read or not, by the part of the longest wait that has passed and by     *)
(* lag.  While a request runs its age bounds them; afterwards they and the *)
(* time until the timer fires together stay within the longest wait.  A    *)
(* frame that arrives in the very tick of a flush accounts for the 1 in    *)
(* the bounds.                                                             *)
(***************************************************************************)

\* The frames that no flush has taken yet, in the backlog or not read.
Waiting == Len(buffer) + arrived

\* The types the arithmetic needs.
Amounts ==
  /\ arrived \in Nat /\ lag \in Nat /\ age \in Nat /\ due \in Int /\ seq \in Nat
  /\ buffer \in Seq(Nat)
  /\ closed \in BOOLEAN
  /\ inflight \in {"none", "infer", "enqueue", "waiting"}

\* Nothing waits before the start message, and a session that streams is not closed.
Phases ==
  /\ socket \in {"idle", "open"} => buffer = <<>> /\ arrived = 0 /\ inflight = "none"
  /\ socket \in {"idle", "open", "streaming"} => ~closed /\ code = 0
  /\ code = 1013 => closed

\* How many frames can wait, by what the session is doing.
Bounds ==
  /\ arrived <= lag + 1
  /\ due <= FlushInterval + PhaseJitter
  /\ inflight = "none" => Waiting <= LongestWait + 1 + lag /\ Waiting + due <= LongestWait + 1 + lag
  /\ inflight = "infer" => Waiting <= age + 1 + lag
  /\ inflight # "none" => Waiting <= InferenceTimeout + 1 + lag /\ due <= FlushInterval

\* The inductive invariant.  After close nothing is read any more, and Bounds with it
\* is given up.
BacklogInv ==
  /\ Amounts
  /\ Phases
  /\ ~closed => Bounds
  /\ CapSparesHealthy

\* What maxBufferedFrames is made of: the longer of the two waits, twice.
LEMMA LongestWaitFacts ==
  /\ LongestWait \in Nat
  /\ FlushInterval + PhaseJitter <= LongestWait
  /\ InferenceTimeout + FlushInterval <= LongestWait
  /\ MaxBufferedFrames = 2 * LongestWait
  BY BunAssumption DEF LongestWait, Longer, MaxBufferedFrames

\* Steps of the outbox and the socket: at most a waiter is woken.
LEMMA BacklogQuiet ==
  ASSUME BacklogInv, UNCHANGED <<buffer, arrived, lag, due, age, seq, closed>>,
         inflight' \in {inflight, Wake}
  PROVE  Amounts' /\ (~closed => Bounds')
<1>1. inflight' = inflight \/ (inflight = "waiting" /\ inflight' = "enqueue")
  BY DEF Wake
<1>2. Amounts'
  BY <1>1 DEF BacklogInv, Amounts
<1>3. ASSUME ~closed PROVE Bounds'
  BY <1>1, <1>3 DEF BacklogInv, Bounds, Waiting
<1> QED
  BY <1>2, <1>3

\* The start message sets the timer while nothing waits.
LEMMA StartStep ==
  ASSUME BacklogInv, OnStart
  PROVE  BacklogInv'
<1>1. /\ socket = "open" /\ socket' = "streaming"
      /\ due' \in FlushInterval .. FlushInterval + PhaseJitter
      /\ UNCHANGED <<code, closed, seq, buffer, inflight, age, arrived, lag>>
  BY DEF OnStart, flushVars
<1>2. Amounts /\ Len(buffer) = 0 /\ arrived = 0 /\ inflight = "none" /\ ~closed /\ code = 0
  BY <1>1 DEF BacklogInv, Phases, Amounts
<1>3. Amounts'
  BY <1>1, <1>2, BunAssumption DEF Amounts
<1>4. PICK W \in Nat : W = LongestWait /\ FlushInterval + PhaseJitter <= W
  BY LongestWaitFacts
<1>5. PICK d \in Int : d = due' /\ d <= FlushInterval + PhaseJitter /\ d <= W
  BY <1>1, <1>4, BunAssumption
<1>6. PICK l \in Nat : l = lag'
  BY <1>3 DEF Amounts
<1>7. Waiting' = 0 /\ arrived' = 0 /\ inflight' = "none"
  BY <1>1, <1>2 DEF Waiting
<1>8. 0 <= W + 1 + l /\ 0 + d <= W + 1 + l /\ 0 <= l + 1
  <2>1. d <= W
    BY <1>5
  <2> QED
    BY <2>1
<1>9. Bounds'
  BY <1>4, <1>5, <1>6, <1>7, <1>8, Zenon DEF Bounds
<1> QED
  BY <1>1, <1>2, <1>3, <1>9 DEF BacklogInv, Phases, CapSparesHealthy

\* A tick: the frame that may arrive is paid for by the age of the request, by the
\* time until the timer fires, or by lag.
LEMMA TickStep ==
  ASSUME BacklogInv, NEW frame \in {0, 1}, Tick(frame)
  PROVE  BacklogInv'
<1>1. /\ socket = "streaming" /\ ~closed /\ code = 0
      /\ UNCHANGED <<socket, code, closed, buffer, seq, inflight>>
  BY DEF Tick, BacklogInv, Phases, socketVars
<1>2. /\ due' = due - 1 /\ arrived' = arrived + frame
      /\ age' = IF inflight = "infer" THEN age + 1 ELSE 0
      /\ lag' = IF buffer = <<>> /\ arrived = 0 THEN 0
                ELSE lag + (IF Late \/ Blocked THEN 1 ELSE 0)
  BY DEF Tick
<1>3. Amounts /\ Bounds /\ Len(buffer) \in Nat /\ (buffer = <<>> => Len(buffer) = 0)
  BY <1>1 DEF BacklogInv, Amounts
<1>4. Amounts'
  BY <1>1, <1>2, <1>3 DEF Amounts
<1>5. Bounds'
  <2>1. CASE buffer = <<>> /\ arrived = 0
    <3>1. lag' = 0 /\ arrived' <= 1 /\ Waiting' <= 1 /\ age' \in Nat
      BY <1>1, <1>2, <1>3, <2>1 DEF Waiting, Amounts
    <3>2. due <= FlushInterval + PhaseJitter /\ (inflight # "none" => due <= FlushInterval)
      BY <1>3 DEF Bounds
    <3>3. due' <= FlushInterval + PhaseJitter /\ (inflight' # "none" => due' <= FlushInterval)
      BY <1>1, <1>2, <1>3, <3>2, BunAssumption DEF Amounts
    <3>4. Waiting' + due' <= LongestWait + 1
      BY <3>1, <3>3, <1>3, <1>4, BunAssumption, LongestWaitFacts DEF Amounts, Waiting
    <3>5. Waiting' <= LongestWait + 1 /\ Waiting' <= age' + 1 /\ Waiting' <= InferenceTimeout + 1
      BY <3>1, <1>1, <1>4, BunAssumption, LongestWaitFacts DEF Amounts, Waiting
    <3> QED
      BY <3>1, <3>3, <3>4, <3>5, <1>1, <1>4, BunAssumption, LongestWaitFacts DEF Bounds, Amounts
  <2>2. CASE ~(buffer = <<>> /\ arrived = 0) /\ (Late \/ Blocked)
    <3>1. lag' = lag + 1 /\ Waiting' <= Waiting + 1
      BY <1>1, <1>2, <1>3, <2>2 DEF Waiting, Amounts
    <3>2. inflight = "infer" => age' = age + 1
      BY <1>2
    <3> QED
      BY <1>1, <1>2, <1>3, <3>1, <3>2, <1>4, BunAssumption, LongestWaitFacts
      DEF Bounds, Amounts, Waiting
  <2>3. CASE ~(buffer = <<>> /\ arrived = 0) /\ ~(Late \/ Blocked)
    <3>1. lag' = lag /\ Waiting' <= Waiting + 1
      BY <1>1, <1>2, <1>3, <2>3 DEF Waiting, Amounts
    <3>2. due > 0 /\ arrived = 0 /\ inflight \in {"none", "infer"}
      BY <2>3, <1>3 DEF Late, Blocked, Amounts
    <3>3. inflight = "infer" => age' = age + 1 /\ age < InferenceTimeout
      BY <1>2, <2>3, <1>3, BunAssumption DEF Late, Amounts
    <3> QED
      BY <1>1, <1>2, <1>3, <3>1, <3>2, <3>3, <1>4, BunAssumption, LongestWaitFacts
      DEF Bounds, Amounts, Waiting
  <2> QED
    BY <2>1, <2>2, <2>3
<1>6. Phases' /\ CapSparesHealthy'
  BY <1>1 DEF Phases, CapSparesHealthy
<1> QED
  BY <1>4, <1>5, <1>6 DEF BacklogInv

\* The timer: a flush leaves only frames that were not read yet, and fewer than a
\* timer interval is left to the next one.
LEMMA BacklogTimer ==
  ASSUME BacklogInv, OnTimer
  PROVE  BacklogInv'
<1>1. /\ ~closed /\ due <= 0 /\ due' = due + FlushInterval /\ socket \in {"streaming", "closing"}
      /\ UNCHANGED <<socket, code, closed, seq, arrived>>
      /\ FlushDue
  BY DEF OnTimer, socketVars
<1>2. Amounts /\ Bounds /\ Len(buffer) \in Nat /\ code # 1013
  BY <1>1 DEF BacklogInv, Amounts, Phases
<1>3. CASE inflight = "none" /\ buffer # <<>>
  <2>1. /\ buffer' = <<>> /\ inflight' = "infer" /\ age' = 0
        /\ lag' = IF arrived = 0 THEN 0 ELSE lag
    BY <1>1, <1>3 DEF FlushDue
  <2>2. Amounts' /\ Len(buffer') = 0
    BY <1>1, <1>2, <2>1, BunAssumption DEF Amounts
  <2>3. Bounds'
    BY <1>1, <1>2, <2>1, <2>2, BunAssumption DEF Bounds, Amounts, Waiting
  <2> QED
    BY <1>1, <1>2, <2>1, <2>2, <2>3 DEF BacklogInv, Phases, CapSparesHealthy
<1>4. CASE ~(inflight = "none" /\ buffer # <<>>)
  <2>1. UNCHANGED <<buffer, inflight, age, lag>>
    BY <1>1, <1>4 DEF FlushDue
  <2>2. Amounts'
    BY <1>1, <1>2, <2>1, BunAssumption DEF Amounts
  <2>3. inflight = "none" => Waiting <= lag + 1
    BY <1>2, <1>4 DEF Bounds, Amounts, Waiting
  <2>4. Bounds'
    BY <1>1, <1>2, <2>1, <2>2, <2>3, BunAssumption, LongestWaitFacts DEF Bounds, Amounts, Waiting
  <2> QED
    BY <1>1, <1>2, <2>1, <2>2, <2>4 DEF BacklogInv, Phases, CapSparesHealthy
<1> QED
  BY <1>3, <1>4

\* close: only the cap itself closes with 1013, and then lag is a full wait.
LEMMA CloseStep ==
  ASSUME BacklogInv, NEW s \in {"closing", "closed"}, NEW k, Close(s, k),
         k = 1013 => lag >= LongestWait
  PROVE  BacklogInv'
<1>1. closed' = TRUE /\ socket' = s /\ code' = k /\ lag' = lag /\ buffer' = buffer /\ seq' = seq
  BY DEF Close
<1>2. due' = 0 /\ age' = 0 /\ arrived' = 0 /\ inflight' = Wake
  BY DEF Close, OutboxClose
<1>3. Amounts'
  BY <1>1, <1>2 DEF BacklogInv, Amounts, Wake
<1>4. Phases' /\ CapSparesHealthy'
  BY <1>1, BunAssumption DEF Phases, CapSparesHealthy, LongestWait, Longer
<1> QED
  BY <1>1, <1>3, <1>4 DEF BacklogInv

\* closeWith: with a full backlog, Bounds leaves lag no less than the longest wait.
LEMMA RefusedStep ==
  ASSUME BacklogInv, NEW m \in {"text", "frame", "badsize"}, OnRefused(m)
  PROVE  BacklogInv'
<1>1. PICK k \in {1002, 1003, 1013} :
        /\ Close("closing", k)
        /\ k = 1013 => socket = "streaming" /\ arrived > 0 /\ Len(buffer) >= MaxBufferedFrames
  BY DEF OnRefused
<1>2. ASSUME k = 1013 PROVE lag >= LongestWait
  <2>1. ~closed /\ Amounts /\ Bounds /\ Len(buffer) \in Nat
    BY <1>1, <1>2 DEF BacklogInv, Phases, Amounts
  <2>2. Waiting <= LongestWait + 1 + lag
    BY <2>1, LongestWaitFacts, BunAssumption DEF Bounds, Amounts, Waiting
  <2> QED
    BY <1>1, <1>2, <2>1, <2>2, LongestWaitFacts DEF Amounts, Waiting
<1> QED
  BY <1>1, <1>2, CloseStep

\* What an answer does on its way: the frames that wait are what they were.
LEMMA AnswerStep ==
  ASSUME BacklogInv,
         Enqueue \/ (\E kind \in {"partial", "error"} : ProcessBatch(kind))
  PROVE  BacklogInv'
<1>1. /\ UNCHANGED <<socket, code, closed, seq, buffer, due, age, arrived, lag>>
      /\ inflight # "none" /\ inflight' \in {"none", "enqueue", "waiting"}
      /\ inflight' = "none" => inflight = "enqueue" \/ closed
  BY DEF Enqueue, ProcessBatch, socketVars
<1>2. Amounts'
  BY <1>1 DEF BacklogInv, Amounts
<1>3. ASSUME ~closed PROVE Bounds'
  <2>1. Amounts /\ Bounds /\ Len(buffer) \in Nat
    BY <1>3 DEF BacklogInv, Amounts
  <2> QED
    BY <1>1, <2>1, BunAssumption, LongestWaitFacts DEF Bounds, Amounts, Waiting
<1>4. socket \notin {"idle", "open"}
  BY <1>1 DEF BacklogInv, Phases
<1> QED
  BY <1>1, <1>2, <1>3, <1>4 DEF BacklogInv, Phases, CapSparesHealthy

\* 1013 closes only sessions held up by late callbacks or by a client that does not
\* read, for the longest configured wait at least, whatever the configuration.
THEOREM CapSparesHealthyTheorem == Spec => []CapSparesHealthy
<1>1. Init => BacklogInv
  <2> SUFFICES ASSUME Init PROVE BacklogInv
    OBVIOUS
  <2>1. Amounts /\ Phases /\ CapSparesHealthy /\ Len(buffer) = 0
    <3>1. buffer \in Seq(Nat) /\ Len(buffer) = 0
      BY DEF Init
    <3>2. /\ arrived \in Nat /\ lag \in Nat /\ age \in Nat /\ due \in Int /\ seq \in Nat
          /\ inflight \in {"none", "infer", "enqueue", "waiting"}
      BY DEF Init
    <3>3. closed \in BOOLEAN
      BY Zenon DEF Init
    <3>4. Amounts
      BY <3>1, <3>2, <3>3 DEF Amounts
    <3>5. Phases /\ CapSparesHealthy
      BY DEF Init, Phases, CapSparesHealthy
    <3> QED
      BY <3>1, <3>4, <3>5
  <2>2. Bounds
    BY <2>1, BunAssumption, LongestWaitFacts DEF Init, Bounds, Waiting
  <2> QED
    BY <2>1, <2>2 DEF BacklogInv
<1>2. BacklogInv /\ [Next]_vars => BacklogInv'
  <2> SUFFICES ASSUME BacklogInv, [Next]_vars PROVE BacklogInv'
    OBVIOUS
  <2>1. CASE OnOpen
    <3>1. Amounts' /\ (~closed => Bounds')
      BY <2>1, BacklogQuiet DEF OnOpen, flushVars
    <3> QED
      BY <2>1, <3>1 DEF OnOpen, flushVars, BacklogInv, Phases, CapSparesHealthy
  <2>2. CASE OnStart
    BY <2>2, StartStep
  <2>3. CASE OnFrame
    <3>1. /\ socket = "streaming" /\ arrived > 0
          /\ seq' = seq + 1 /\ buffer' = Append(buffer, seq + 1) /\ arrived' = arrived - 1
          /\ UNCHANGED <<socket, code, closed, due, inflight, age, lag>>
      BY <2>3 DEF OnFrame, socketVars, flushVars
    <3>2. Amounts /\ Bounds /\ ~closed /\ code = 0
      BY <3>1 DEF BacklogInv, Phases
    <3>3. Amounts' /\ Len(buffer') = Len(buffer) + 1 /\ Len(buffer) \in Nat
      BY <3>1, <3>2 DEF Amounts
    <3>4. Waiting' = Waiting
      BY <3>1, <3>2, <3>3 DEF Amounts, Waiting
    <3>5. Bounds'
      BY <3>1, <3>2, <3>4 DEF Bounds, Amounts
    <3> QED
      BY <3>1, <3>2, <3>3, <3>5 DEF BacklogInv, Phases, CapSparesHealthy
  <2>4. CASE OnClose
    BY <2>4, CloseStep DEF OnClose, BacklogInv, CapSparesHealthy
  <2>5. CASE OnTimer
    BY <2>5, BacklogTimer
  <2>6. CASE OnDrain \/ ClientReads \/ DrainEnd
    <3>1. /\ UNCHANGED <<socket, code, buffer, arrived, lag, due, age, seq, closed>>
          /\ inflight' \in {inflight, Wake}
      BY <2>6 DEF OnDrain, ClientReads, DrainEnd, socketVars, flushVars
    <3>2. Amounts' /\ (~closed => Bounds')
      BY <3>1, BacklogQuiet
    <3>3. inflight = "none" => inflight' = "none"
      BY <3>1 DEF Wake
    <3> QED
      BY <3>1, <3>2, <3>3 DEF BacklogInv, Phases, CapSparesHealthy
  <2>7. ASSUME NEW status \in {-1, 0, 1}, SendNext(status) PROVE BacklogInv'
    <3>1. /\ UNCHANGED <<buffer, arrived, lag, due, age, seq, closed>>
          /\ inflight' \in {inflight, Wake}
          /\ UNCHANGED <<socket, code>> \/ (socket' = "closing" /\ code' = 1011)
      BY <2>7 DEF SendNext, OutboxClose
    <3>2. Amounts' /\ (~closed => Bounds')
      BY <3>1, BacklogQuiet
    <3>3. inflight = "none" => inflight' = "none"
      BY <3>1 DEF Wake
    <3> QED
      BY <3>1, <3>2, <3>3 DEF BacklogInv, Phases, CapSparesHealthy
  <2>8. CASE Enqueue \/ \E kind \in {"partial", "error"} : ProcessBatch(kind)
    BY <2>8, AnswerStep
  <2>9. CASE \E frame \in {0, 1} : Tick(frame)
    BY <2>9, TickStep
  <2>10. CASE \E m \in {"text", "frame", "badsize"} : OnRefused(m)
    BY <2>10, RefusedStep
  <2>11. CASE UNCHANGED vars
    BY <2>11 DEF vars, socketVars, flushVars, BacklogInv, Amounts, Phases, Bounds, Waiting,
                 CapSparesHealthy
  <2> QED
    BY <2>1, <2>2, <2>3, <2>4, <2>5, <2>6, <2>7, <2>8, <2>9, <2>10, <2>11 DEF Next
<1>3. BacklogInv => CapSparesHealthy
  BY DEF BacklogInv
<1> QED
  BY <1>1, <1>2, <1>3, PTL DEF Spec

-----------------------------------------------------------------------------
(***************************************************************************)
(* The contract.  A session is live until close() is called on its socket. *)
(* While it is, answers are on the wire or in the queue, in order, and the *)
(* frames that are neither answered nor at inference are in the buffer.    *)
(* Afterwards the outbox is closed, so whatever the callbacks that still   *)
(* run do, the client sees nothing of it.                                  *)
(***************************************************************************)

Answers == [kind : {"partial", "error"}, oldest : Nat, newest : Nat,
            audio : [conn : {Session, NoConn}, first : Nat, last : Nat]]

\* The last frame answered, and the last one answered or at inference.
Answered == IF answers = <<>> THEN 0 ELSE answers[Len(answers)].newest
Upto == IF batch = NoBatch THEN Answered ELSE batch.newest

Types ==
  /\ seq \in Nat
  /\ wire \in Seq(Answers)
  /\ queue \in Seq(Answers)
  /\ answers \in Seq(Answers)
  /\ buffer \in Seq(Nat)
  /\ batch \in [oldest : Nat, newest : Nat]
  /\ socket \in {"idle", "open", "streaming", "closing", "closed"}
  /\ inflight \in {"none", "infer", "enqueue", "waiting"}

\* Nothing is closed, and nothing is queued or in flight before the start message.
OpenInv ==
  /\ ~closed /\ ~outClosed /\ code = 0
  /\ socket \in {"idle", "open"} => queue = <<>> /\ inflight = "none"

\* There is a batch as long as the promise is there, and its answer once it has one.
FlushInv ==
  /\ inflight = "none" <=> batch = NoBatch
  /\ inflight \in {"enqueue", "waiting"} =>
       \E kind \in {"partial", "error"} : answer = <<Answer(kind, batch)>>

\* The buffer holds the frames that are neither answered nor at inference.
BufferInv ==
  /\ Len(buffer) = seq - Upto
  /\ \A i \in 1 .. Len(buffer) : buffer[i] = Upto + i

LiveInv == OpenInv /\ FlushInv /\ answers = wire \o queue /\ BufferInv

\* The inductive invariant.
BunInv ==
  /\ Types
  /\ Produced = answers
  /\ Over => outClosed
  /\ outClosed => queue = <<>>
  /\ ~Over => LiveInv
-----------------------------------------------------------------------------
\* What is not on the wire of a sequence that starts with it.
LEMMA RestIs ==
  ASSUME NEW S, NEW a \in Seq(S), NEW q \in Seq(S), NEW t, t = a \o q
  PROVE  a \o SubSeq(t, Len(a) + 1, Len(t)) = t
<1>1. t \in Seq(S) /\ Len(t) = Len(a) + Len(q)
  BY ConcatProperties
<1>2. \A i \in 1 .. Len(q) : t[Len(a) + i] = q[i]
  BY ConcatProperties
<1>3. /\ Len(SubSeq(t, Len(a) + 1, Len(t))) = Len(q)
      /\ \A i \in 1 .. Len(q) : SubSeq(t, Len(a) + 1, Len(t))[i] = q[i]
      /\ SubSeq(t, Len(a) + 1, Len(t)) \in Seq(S)
  BY <1>1, <1>2
<1>4. SubSeq(t, Len(a) + 1, Len(t)) = q
  BY <1>1, <1>3, SeqEqual
<1> QED
  BY <1>4, Zenon

\* Sending the head of the queue, appending an answer, and appending a frame.
LEMMA HeadMoves ==
  ASSUME NEW S, NEW a \in Seq(S), NEW q \in Seq(S), q # <<>>
  PROVE  Append(a, Head(q)) \o Tail(q) = a \o q
<1>1. /\ <<Head(q)>> \o Tail(q) = q /\ <<Head(q)>> \in Seq(S) /\ Tail(q) \in Seq(S)
      /\ Append(a, Head(q)) = a \o <<Head(q)>>
  OBVIOUS
<1> QED
  BY <1>1, ConcatAssociative

LEMMA LastAppended ==
  ASSUME NEW S, NEW s \in Seq(S), NEW e \in S, NEW t, t = Append(s, e)
  PROVE  t # <<>> /\ t[Len(t)] = e
OBVIOUS

LEMMA FrameAppended ==
  ASSUME NEW b \in Seq(Nat), NEW n \in Nat, NEW u \in Nat,
         Len(b) = n - u, \A i \in 1 .. Len(b) : b[i] = u + i,
         NEW t, t = Append(b, n + 1)
  PROVE  Len(t) = n + 1 - u /\ \A i \in 1 .. Len(t) : t[i] = u + i
<1>1. Len(t) = Len(b) + 1 /\ t[Len(b) + 1] = n + 1 /\ Len(b) \in Nat
  OBVIOUS
<1>2. \A i \in 1 .. Len(b) : t[i] = b[i]
  OBVIOUS
<1>3. Len(t) = n + 1 - u
  BY <1>1
<1>4. ASSUME NEW i \in 1 .. Len(t) PROVE t[i] = u + i
  <2>1. CASE i = Len(b) + 1
    BY <1>1, <2>1
  <2>2. CASE i # Len(b) + 1
    BY <1>1, <1>2, <2>2
  <2> QED
    BY <2>1, <2>2
<1> QED
  BY <1>3, <1>4

LEMMA ProducedNext ==
  ASSUME Types', answers' = wire' \o queue'
  PROVE  Produced' = answers'
<1>1. wire' \in Seq(Answers) /\ queue' \in Seq(Answers)
  BY DEF Types
<1>2. wire' \o SubSeq(answers', Len(wire') + 1, Len(answers')) = answers'
  BY <1>1, RestIs, ZenonT(60)
<1> QED
  BY <1>2 DEF Produced

LEMMA AnsweredIsNat == Types => Answered \in Nat /\ Upto \in Nat
<1> SUFFICES ASSUME Types PROVE Answered \in Nat /\ Upto \in Nat
  OBVIOUS
<1>1. ASSUME answers # <<>> PROVE answers[Len(answers)] \in Answers
  BY <1>1 DEF Types
<1>2. Answered \in Nat
  BY <1>1 DEF Answered, Answers
<1> QED
  BY <1>2 DEF Types, Upto

LEMMA BunInit == Init => BunInv
<1> SUFFICES ASSUME Init PROVE BunInv
  OBVIOUS
<1>1. Upto = 0 /\ Produced = <<>>
  BY DEF Init, Upto, Answered, Produced
<1> QED
  BY <1>1 DEF Init, BunInv, LiveInv, Types, OpenInv, FlushInv, BufferInv, Over, NoBatch
-----------------------------------------------------------------------------
\* Once close() was called no callback reaches the client any more.
LEMMA OverStep ==
  ASSUME BunInv, Over, Next
  PROVE  BunInv' /\ Over' /\ UNCHANGED <<wire, answers, code, seq>>
<1> USE DEF BunInv, Over, socketVars, flushVars, outboxVars
<1>1. CASE OnClose
  <2>1. /\ socket' = "closed" /\ outClosed' /\ queue' = <<>> /\ inflight' = Wake
        /\ UNCHANGED <<wire, seq, buffer, batch, answers, code>>
    BY <1>1, Zenon DEF OnClose, Close, OutboxClose
  <2> QED
    BY <2>1, Zenon DEF Types, Produced, Wake
<1>2. CASE OnTimer
  <2>1. /\ UNCHANGED <<socket, code, wire, seq, queue, outClosed, answers>>
        /\ UNCHANGED <<batch, buffer, inflight>> \/
           /\ buffer # <<>> /\ buffer' = <<>> /\ inflight' = "infer"
           /\ batch' = [oldest |-> buffer[1], newest |-> buffer[Len(buffer)]]
    BY <1>2 DEF OnTimer, FlushDue
  <2>2. buffer # <<>> => buffer[1] \in Nat /\ buffer[Len(buffer)] \in Nat
    BY DEF Types
  <2>3. batch' \in [oldest : Nat, newest : Nat] /\ buffer' \in Seq(Nat)
    BY <2>1, <2>2 DEF Types
  <2>4. Types'
    BY <2>1, <2>3 DEF Types
  <2> QED
    BY <2>1, <2>4 DEF Produced
<1>3. CASE OnDrain \/ DrainEnd \/ ClientReads
  BY <1>3, Zenon DEF OnDrain, DrainEnd, ClientReads, Types, Produced, Wake
<1>4. CASE Enqueue
  BY <1>4 DEF Enqueue, Types, Produced
<1>5. CASE \E kind \in {"partial", "error"} : ProcessBatch(kind)
  BY <1>5 DEF ProcessBatch, Types, Produced
<1> QED
  BY <1>1, <1>2, <1>3, <1>4, <1>5 DEF Next, OnOpen, OnStart, OnFrame, Tick, OnRefused, SendNext

\* close, or a send that Bun dropped, makes it so.
LEMMA EndStep ==
  ASSUME BunInv, Over', outClosed', queue' = <<>>, inflight' = Wake,
         socket' \in {"closing", "closed"}, UNCHANGED <<wire, seq, buffer, batch, answers>>
  PROVE  BunInv'
BY DEF BunInv, Types, Produced, Wake

\* A callback that moves neither frames nor answers.
LEMMA QuietStep ==
  ASSUME BunInv, ~Over,
         UNCHANGED <<closed, outClosed, code, queue, wire, answers, batch, answer, buffer, seq>>,
         inflight' = inflight \/ {inflight, inflight'} \subseteq {"enqueue", "waiting"},
         socket' \in {"idle", "open", "streaming"},
         socket' \in {"idle", "open"} => socket \in {"idle", "open"}
  PROVE  BunInv'
<1> USE DEF BunInv, LiveInv
<1>1. Types' /\ Produced' = answers' /\ OpenInv' /\ answers' = wire' \o queue'
  BY Zenon DEF Types, Produced, OpenInv
<1>2. Upto' = Upto
  BY DEF Upto, Answered, NoBatch
<1>3. BufferInv'
  BY <1>2 DEF BufferInv
<1>4. FlushInv'
  BY DEF FlushInv, NoBatch, Answer
<1> QED
  BY <1>1, <1>3, <1>4 DEF OpenInv, Over
-----------------------------------------------------------------------------
\* What a flush takes: everything after the last frame answered.
LEMMA FlushTakesAll ==
  ASSUME BunInv, ~Over, OnTimer, inflight = "none", buffer # <<>>
  PROVE  /\ batch = NoBatch /\ Answered \in Nat /\ seq \in Nat /\ Answered < seq
         /\ batch' = [oldest |-> Answered + 1, newest |-> seq]
         /\ buffer' = <<>> /\ inflight' = "infer"
<1> USE DEF BunInv, LiveInv
<1>1. batch = NoBatch /\ ~closed
  BY DEF FlushInv, OpenInv
<1>2. PICK u \in Nat : u = Answered
  BY AnsweredIsNat
<1>3. Len(buffer) = seq - u /\ \A i \in 1 .. Len(buffer) : buffer[i] = u + i
  BY <1>1, <1>2 DEF BufferInv, Upto
<1>4. Len(buffer) \in Nat /\ Len(buffer) > 0 /\ seq \in Nat
  BY DEF Types
<1>5. buffer[1] = u + 1 /\ buffer[Len(buffer)] = seq /\ u < seq
  BY <1>3, <1>4
<1>6. /\ batch' = [oldest |-> buffer[1], newest |-> buffer[Len(buffer)]]
      /\ buffer' = <<>> /\ inflight' = "infer"
  BY <1>1 DEF OnTimer, FlushDue
<1> QED
  BY <1>1, <1>2, <1>4, <1>5, <1>6

\* What enqueue queues: the answer about the batch.
LEMMA EnqueueIsAnswer ==
  ASSUME BunInv, ~Over, Enqueue, inflight' = "none"
  PROVE  /\ batch # NoBatch /\ batch' = NoBatch
         /\ \E kind \in {"partial", "error"} :
              /\ Answer(kind, batch) \in Answers
              /\ queue' = queue \o <<Answer(kind, batch)>>
              /\ answers' = Append(answers, Answer(kind, batch))
<1> USE DEF BunInv, LiveInv
<1>1. inflight = "enqueue" /\ ~outClosed
  BY DEF Enqueue, OpenInv
<1>2. PICK kind \in {"partial", "error"} : answer = <<Answer(kind, batch)>>
  BY <1>1 DEF FlushInv
<1>3. Answer(kind, batch) \in Answers
  BY DEF Types, Answer, Answers, NoAudio
<1>4. answers \o <<Answer(kind, batch)>> = Append(answers, Answer(kind, batch))
  BY <1>3 DEF Types
<1>5. queue' = queue \o answer /\ answers' = answers \o answer /\ batch' = NoBatch
  BY <1>1 DEF Enqueue, StartDrain
<1> QED
  BY <1>1, <1>2, <1>3, <1>4, <1>5 DEF FlushInv

LEMMA FrameStep ==
  ASSUME BunInv, OnFrame
  PROVE  BunInv'
<1> USE DEF BunInv, LiveInv
<1>1. /\ seq' = seq + 1 /\ buffer' = Append(buffer, seq + 1) /\ ~Over /\ ~Over'
      /\ UNCHANGED <<closed, outClosed, code, queue, wire, answers, batch, answer, inflight, socket>>
  BY DEF OnFrame, Over, socketVars, flushVars, outboxVars
<1>2. Upto' = Upto
  BY <1>1 DEF Upto, Answered, NoBatch
<1>3. PICK u \in Nat : u = Upto
  BY AnsweredIsNat
<1>4. Len(buffer) = seq - u /\ \A i \in 1 .. Len(buffer) : buffer[i] = u + i
  BY <1>1, <1>3 DEF BufferInv
<1>5. Len(buffer') = seq' - u /\ \A i \in 1 .. Len(buffer') : buffer'[i] = u + i
  <2>1. buffer \in Seq(Nat) /\ seq \in Nat
    BY DEF Types
  <2>2. \A t : t = Append(buffer, seq + 1) =>
                Len(t) = seq + 1 - u /\ \A i \in 1 .. Len(t) : t[i] = u + i
    BY <1>4, <2>1, FrameAppended, Zenon
  <2>3. buffer' = Append(buffer, seq + 1) /\ seq' = seq + 1
    BY <1>1
  <2>4. Len(buffer') = seq + 1 - u /\ \A i \in 1 .. Len(buffer') : buffer'[i] = u + i
    BY <2>2, <2>3, Zenon
  <2> QED
    BY <2>3, <2>4
<1>6. BufferInv'
  BY <1>2, <1>3, <1>5 DEF BufferInv
<1>7. Types'
  BY <1>1 DEF Types
<1>8. OpenInv' /\ Produced' = answers' /\ answers' = wire' \o queue'
  BY <1>1, Zenon DEF OpenInv, Produced
<1>9. FlushInv'
  BY <1>1 DEF FlushInv, NoBatch, Answer
<1> QED
  BY <1>1, <1>6, <1>7, <1>8, <1>9 DEF OpenInv

LEMMA TimerStep ==
  ASSUME BunInv, ~Over, OnTimer
  PROVE  BunInv'
<1> USE DEF BunInv, LiveInv
<1>1. UNCHANGED <<socket, closed, outClosed, code, queue, wire, answers, answer, seq>> /\ socket = "streaming"
  BY DEF OnTimer, Over, socketVars, outboxVars
<1>2. CASE UNCHANGED <<batch, buffer, inflight>>
  BY <1>1, <1>2, QuietStep
<1>3. CASE ~UNCHANGED <<batch, buffer, inflight>>
  <2>1. /\ batch' = [oldest |-> Answered + 1, newest |-> seq] /\ buffer' = <<>>
        /\ inflight' = "infer" /\ Answered \in Nat /\ seq \in Nat /\ Answered < seq
    BY <1>3, FlushTakesAll DEF OnTimer, FlushDue
  <2>2. batch' # NoBatch /\ batch'.newest = seq /\ batch' \in [oldest : Nat, newest : Nat]
    BY <2>1 DEF NoBatch
  <2>3. Upto' = seq'
    BY <1>1, <2>2 DEF Upto
  <2>4. BufferInv'
    BY <1>1, <2>1, <2>3 DEF BufferInv
  <2>5. Types'
    BY <1>1, <2>1, <2>2 DEF Types
  <2>6. OpenInv' /\ Produced' = answers' /\ answers' = wire' \o queue'
    BY <1>1, Zenon DEF OpenInv, Produced
  <2>7. FlushInv'
    BY <2>1, <2>2 DEF FlushInv, NoBatch
  <2> QED
    BY <1>1, <2>4, <2>5, <2>6, <2>7 DEF Over
<1> QED
  BY <1>2, <1>3

LEMMA EnqueueStep ==
  ASSUME BunInv, ~Over, Enqueue
  PROVE  BunInv'
<1> USE DEF BunInv, LiveInv
<1>1. /\ UNCHANGED <<socket, closed, outClosed, code, wire, buffer, seq>>
      /\ inflight = "enqueue" /\ ~outClosed /\ socket = "streaming"
  BY DEF Enqueue, OpenInv, socketVars, Over, Types
<1>2. CASE inflight' # "none"
  <2>1. inflight' = "waiting" /\ UNCHANGED <<batch, answer, queue, answers>>
    BY <1>1, <1>2 DEF Enqueue
  <2> QED
    BY <1>1, <2>1, QuietStep
<1>3. CASE inflight' = "none"
  <2>1. batch # NoBatch /\ batch' = NoBatch
    BY <1>3, EnqueueIsAnswer
  <2>2. PICK kind \in {"partial", "error"} :
              /\ Answer(kind, batch) \in Answers
              /\ queue' = queue \o <<Answer(kind, batch)>>
              /\ answers' = Append(answers, Answer(kind, batch))
    BY <1>3, EnqueueIsAnswer, Zenon
  <2> DEFINE a == Answer(kind, batch)
  <2>3. a.newest = batch.newest
    BY DEF Answer
  <2> HIDE DEF a
  <2>4. a \in Answers /\ queue' = queue \o <<a>> /\ answers' = Append(answers, a)
    BY <2>2 DEF a
  <2>5. answers' = wire' \o queue'
    <3>1. wire \o (queue \o <<a>>) = (wire \o queue) \o <<a>>
      BY <2>4, <<a>> \in Seq(Answers), ConcatAssociative DEF Types
    <3>2. answers \o <<a>> = Append(answers, a)
      BY <2>4 DEF Types
    <3> QED
      BY <1>1, <2>4, <3>1, <3>2, Zenon
  <2>6. Types'
    BY <1>1, <1>3, <2>1, <2>4 DEF Types, NoBatch
  <2>7. Produced' = answers'
    BY <2>5, <2>6, ProducedNext
  <2>8. Answered' = batch.newest
    <3>1. answers' # <<>> /\ answers'[Len(answers')] = a
      <4>1. answers \in Seq(Answers)
        BY DEF Types
      <4> QED
        BY <2>4, <4>1, LastAppended
    <3> QED
      BY <2>3, <3>1 DEF Answered
  <2>9. Upto' = Upto
    BY <2>1, <2>8 DEF Upto, NoBatch
  <2>10. BufferInv'
    BY <1>1, <2>9 DEF BufferInv
  <2>11. OpenInv' /\ FlushInv'
    BY <1>1, <1>3, <2>1 DEF OpenInv, FlushInv, NoBatch
  <2> QED
    BY <1>1, <2>5, <2>6, <2>7, <2>10, <2>11 DEF OpenInv, Over
<1> QED
  BY <1>2, <1>3

\* An answer the socket takes is the first of the queue.
LEMMA SendStep ==
  ASSUME BunInv, ~Over, NEW status \in {-1, 1}, SendNext(status)
  PROVE  BunInv' /\ answers' = answers /\ socket = "streaming" /\ socket' = "streaming"
<1> USE DEF BunInv, LiveInv
<1>1. /\ queue # <<>> /\ wire' = Append(wire, Head(queue)) /\ queue' = Tail(queue)
      /\ UNCHANGED <<socket, code, outClosed, closed, seq, buffer, batch, answer, answers>>
      /\ inflight' = Wake
  BY DEF SendNext
<1>2. socket = "streaming"
  BY <1>1 DEF OpenInv, Over, Types
<1>3. Head(queue) \in Answers /\ Tail(queue) \in Seq(Answers) /\ wire' \in Seq(Answers)
  BY <1>1 DEF Types
<1>4. wire' \o queue' = wire \o queue
  BY <1>1, HeadMoves, Zenon DEF Types
<1>5. Types'
  BY <1>1, <1>3 DEF Types, Wake
<1>6. answers' = wire' \o queue'
  BY <1>1, <1>4, Zenon
<1>7. Produced' = answers'
  BY <1>5, <1>6, ProducedNext
<1>8. Upto' = Upto
  BY <1>1 DEF Upto, Answered, NoBatch
<1>9. BufferInv'
  BY <1>1, <1>8, Zenon DEF BufferInv
<1>10. OpenInv' /\ FlushInv'
  BY <1>1, <1>2 DEF OpenInv, FlushInv, NoBatch, Answer, Wake
<1> QED
  BY <1>1, <1>2, <1>5, <1>6, <1>7, <1>9, <1>10 DEF OpenInv, Over

LEMMA RequestStep ==
  ASSUME BunInv, ~Over, NEW kind \in {"partial", "error"}, ProcessBatch(kind)
  PROVE  BunInv'
<1> USE DEF BunInv, LiveInv
<1>1. /\ UNCHANGED <<socket, closed, outClosed, code, queue, wire, answers, batch, buffer, seq>>
      /\ inflight = "infer" /\ inflight' = "enqueue" /\ answer' = <<Answer(kind, batch)>>
  BY DEF ProcessBatch, OpenInv, socketVars, outboxVars
<1>2. Upto' = Upto
  BY <1>1 DEF Upto, Answered, NoBatch
<1>3. BufferInv'
  BY <1>1, <1>2 DEF BufferInv
<1>4. Types' /\ OpenInv' /\ Produced' = answers' /\ answers' = wire' \o queue'
  BY <1>1, Zenon DEF Types, OpenInv, Produced
<1>5. FlushInv'
  BY <1>1, Zenon DEF FlushInv, NoBatch, Answer
<1> QED
  BY <1>1, <1>3, <1>4, <1>5 DEF OpenInv, Over

\* The callbacks that move neither frames nor answers.
Quiet ==
  \/ OnOpen \/ OnStart \/ OnDrain \/ DrainEnd \/ ClientReads
  \/ \E frame \in {0, 1} : Tick(frame)

LEMMA QuietFacts ==
  ASSUME BunInv, ~Over, Quiet
  PROVE  /\ UNCHANGED <<closed, outClosed, code, queue, wire, answers, batch, answer, buffer, seq>>
         /\ inflight' = inflight \/ {inflight, inflight'} \subseteq {"enqueue", "waiting"}
         /\ \/ socket' = socket
            \/ socket = "idle" /\ socket' = "open"
            \/ socket = "open" /\ socket' = "streaming"
<1> USE DEF socketVars, flushVars, outboxVars
<1>1. CASE OnOpen \/ OnStart
  BY <1>1, Zenon DEF OnOpen, OnStart
<1>2. CASE OnDrain
  <2>1. queue' = queue
    BY <1>2 DEF OnDrain, StartDrain
  <2>2. inflight' \in {inflight, Wake}
    BY <1>2 DEF OnDrain
  <2>3. UNCHANGED <<socket, closed, outClosed, code, wire, answers, batch, answer, buffer, seq>>
    BY <1>2 DEF OnDrain
  <2> QED
    BY <2>1, <2>2, <2>3 DEF Wake
<1>3. CASE DrainEnd \/ ClientReads
  BY <1>3 DEF DrainEnd, ClientReads
<1>4. CASE \E frame \in {0, 1} : Tick(frame)
  BY <1>4 DEF Tick
<1> QED
  BY <1>1, <1>2, <1>3, <1>4 DEF Quiet

\* The callbacks that end the session.
Ends ==
  \/ OnClose
  \/ \E m \in {"text", "frame", "badsize"} : OnRefused(m)
  \/ SendNext(0)

LEMMA EndFacts ==
  ASSUME BunInv, ~Over, Ends
  PROVE  /\ Over' /\ outClosed' /\ queue' = <<>> /\ inflight' = Wake
         /\ socket' \in {"closing", "closed"}
         /\ UNCHANGED <<wire, seq, buffer, batch, answers>>
         /\ socket # "idle"
         /\ code' \in {0, 1002, 1003, 1011, 1013}
         /\ code' \in {1003, 1011, 1013} => socket = "streaming"
         /\ code' = 1011 => queue # <<>>
<1>1. ASSUME NEW s, NEW k, Close(s, k)
      PROVE  /\ outClosed' /\ queue' = <<>> /\ inflight' = Wake /\ socket' = s /\ code' = k
             /\ UNCHANGED <<wire, seq, buffer, batch, answers>>
  BY <1>1, Zenon DEF Close, OutboxClose
<1>2. CASE OnClose
  <2>1. Close("closed", code) /\ socket \in {"open", "streaming"} /\ code = 0
    BY <1>2 DEF OnClose, Over, BunInv, LiveInv, OpenInv
  <2> QED
    BY <1>1, <2>1 DEF Over
<1>3. CASE \E m \in {"text", "frame", "badsize"} : OnRefused(m)
  <2>1. \/ socket \in {"open", "streaming"} /\ Close("closing", 1002)
        \/ socket = "streaming" /\ (Close("closing", 1003) \/ Close("closing", 1013))
    BY <1>3 DEF OnRefused
  <2> QED
    BY <1>1, <2>1 DEF Over
<1>4. CASE SendNext(0)
  <2>1. /\ queue # <<>> /\ queue' = <<>> /\ inflight' = Wake
        /\ socket' = "closing" /\ code' = 1011
        /\ UNCHANGED <<wire, seq, buffer, batch, answers>>
    BY <1>4 DEF SendNext, OutboxClose
  <2>2. outClosed'
    BY <1>4, Zenon DEF SendNext, OutboxClose
  <2>3. socket = "streaming"
    BY <2>1 DEF BunInv, LiveInv, OpenInv, Over, Types
  <2> QED
    BY <2>1, <2>2, <2>3 DEF Over
<1> QED
  BY <1>2, <1>3, <1>4 DEF Ends

\* Every step is one of these.
LEMMA LiveSteps ==
  ASSUME Next
  PROVE  \/ Quiet \/ Ends \/ OnFrame \/ OnTimer \/ Enqueue
         \/ \E kind \in {"partial", "error"} : ProcessBatch(kind)
         \/ \E status \in {-1, 1} : SendNext(status)
BY DEF Next, Quiet, Ends

LEMMA BunInvHolds == Spec => []BunInv
<1>1. ASSUME BunInv, ~Over, Next PROVE BunInv'
  <2>1. CASE Quiet
    <3>1. socket \in {"idle", "open", "streaming"}
      BY <1>1 DEF BunInv, Types, Over
    <3> QED
      BY <1>1, <2>1, <3>1, QuietFacts, QuietStep
  <2>2. CASE Ends
    BY <1>1, <2>2, EndFacts, EndStep
  <2> QED
    BY <1>1, <2>1, <2>2, LiveSteps, FrameStep, TimerStep, EnqueueStep, RequestStep, SendStep, Zenon
<1>2. ASSUME BunInv, UNCHANGED vars PROVE BunInv'
  <2> USE DEF vars, socketVars, flushVars, outboxVars
  <2>1. CASE Over
    BY <1>2, <2>1, Zenon DEF BunInv, Types, Produced, Over
  <2>2. CASE ~Over
    <3>1. socket \in {"idle", "open", "streaming"}
      BY <1>2, <2>2 DEF BunInv, Types, Over
    <3> QED
      BY <1>2, <2>2, <3>1, QuietStep
  <2> QED
    BY <2>1, <2>2
<1>3. BunInv /\ [Next]_vars => BunInv'
  BY <1>1, <1>2, OverStep
<1> QED
  BY <1>3, BunInit, PTL DEF Spec
-----------------------------------------------------------------------------
\* The contract sees nothing of a step that keeps the phase, the answers and the batch.
LEMMA StutterStep ==
  ASSUME Phase' = Phase, UNCHANGED <<seq, wire, answers, code>>,
         (Over /\ Over') \/ (~Over /\ ~Over' /\ batch' = batch)
  PROVE  UNCHANGED Contract!vars
BY DEF Contract!vars, Produced, NoBatch

LEMMA QuietRefines ==
  ASSUME BunInv, ~Over, Quiet
  PROVE  Contract!Next \/ UNCHANGED Contract!vars
<1>1. UNCHANGED <<seq, wire, answers, code, batch>> /\ Produced' = Produced
  BY QuietFacts DEF Produced
<1>2. CASE socket' = socket
  BY <1>1, <1>2, StutterStep DEF Phase, Over
<1>3. CASE socket = "idle" /\ socket' = "open"
  <2>1. Phase = "idle" /\ Phase' = "connected" /\ ~Over'
    BY <1>3 DEF Phase, Over
  <2>2. Contract!Open(Session)
    BY <1>1, <2>1 DEF Contract!Open, NoBatch
  <2> QED
    BY <2>2 DEF Contract!Next
<1>4. CASE socket = "open" /\ socket' = "streaming"
  <2>1. Phase = "connected" /\ Phase' = "streaming" /\ ~Over'
    BY <1>4 DEF Phase, Over
  <2>2. Contract!Start(Session)
    BY <1>1, <2>1 DEF Contract!Start, NoBatch
  <2> QED
    BY <2>2 DEF Contract!Next
<1> QED
  BY <1>2, <1>3, <1>4, QuietFacts

LEMMA EndRefines ==
  ASSUME BunInv, ~Over, Ends
  PROVE  Contract!Next
<1>1. Phase' = "closed" /\ Phase \in {"connected", "streaming"} /\ Over'
  BY EndFacts DEF Phase, Over, BunInv, Types
<1>2. code' \in {1003, 1011, 1013} => Phase = "streaming"
  BY EndFacts DEF Phase
<1>3. code' = 1011 => Len(wire) < Len(Produced)
  <2> SUFFICES ASSUME code' = 1011 PROVE Len(wire) < Len(Produced)
    OBVIOUS
  <2>1. Produced = wire \o queue /\ queue # <<>>
    BY EndFacts DEF BunInv, LiveInv
  <2>2. /\ Len(wire \o queue) = Len(wire) + Len(queue)
        /\ Len(wire) \in Nat /\ Len(queue) \in Nat
    BY ConcatProperties DEF BunInv, Types
  <2>3. Len(queue) # 0
    BY <2>1 DEF BunInv, Types
  <2> QED
    BY <2>1, <2>2, <2>3
<1>4. code' \in Contract!Codes
  BY EndFacts DEF Contract!Codes
<1>5. Contract!End(Session, code')
  <2>1. [c \in {Session} |-> Phase'] = [[c \in {Session} |-> Phase] EXCEPT ![Session] = "closed"]
    BY <1>1
  <2>2. [c \in {Session} |-> IF Over' THEN NoBatch ELSE batch']
          = [[c \in {Session} |-> IF Over THEN NoBatch ELSE batch] EXCEPT ![Session] = NoBatch]
    BY <1>1
  <2>3. [c \in {Session} |-> code'] = [[c \in {Session} |-> code] EXCEPT ![Session] = code']
    OBVIOUS
  <2>4. Produced' = Produced /\ UNCHANGED <<wire, seq>>
    BY EndFacts DEF Produced
  <2> QED
    BY <1>1, <1>2, <1>3, <2>1, <2>2, <2>3, <2>4 DEF Contract!End, Contract!NoBatch, NoBatch
<1> QED
  BY <1>4, <1>5 DEF Contract!Next

LEMMA FrameRefines ==
  ASSUME BunInv, OnFrame
  PROVE  Contract!Next
<1>1. /\ Phase = "streaming" /\ Phase' = "streaming" /\ ~Over /\ ~Over'
      /\ UNCHANGED <<batch, wire, answers, code>> /\ seq' = seq + 1
  BY DEF OnFrame, Phase, Over, socketVars, flushVars, outboxVars
<1>2. Contract!Frame(Session, FALSE)
  BY <1>1 DEF Contract!Frame, Contract!After, Produced, NoBatch
<1> QED
  BY <1>2, Zenon DEF Contract!Next

LEMMA TimerRefines ==
  ASSUME BunInv, ~Over, OnTimer
  PROVE  Contract!Next \/ UNCHANGED Contract!vars
<1>1. /\ Phase = "streaming" /\ Phase' = "streaming" /\ ~Over'
      /\ UNCHANGED <<wire, answers, code, seq>>
  BY DEF OnTimer, Phase, Over, socketVars, outboxVars
<1>2. CASE batch' = batch
  BY <1>1, <1>2, StutterStep
<1>3. CASE batch' # batch
  <2>1. /\ batch = NoBatch /\ Answered < seq
        /\ batch' = [oldest |-> Answered + 1, newest |-> seq]
    BY <1>3, FlushTakesAll DEF OnTimer, FlushDue
  <2>2. Produced = answers /\ Produced' = Produced
    BY <1>1 DEF BunInv, Produced
  <2>3. Contract!LastAnswered(answers) = Answered
    BY DEF Contract!LastAnswered, Answered
  <2>4. Contract!Flush(Session)
    BY <1>1, <2>1, <2>2, <2>3 DEF Contract!Flush, Contract!NoBatch, NoBatch
  <2> QED
    BY <2>4 DEF Contract!Next
<1> QED
  BY <1>2, <1>3

LEMMA EnqueueRefines ==
  ASSUME BunInv, BunInv', ~Over, Enqueue
  PROVE  Contract!Next \/ UNCHANGED Contract!vars
<1>1. /\ Phase = "streaming" /\ Phase' = "streaming" /\ ~Over'
      /\ UNCHANGED <<wire, code, seq>> /\ ~outClosed
  BY DEF Enqueue, Phase, Over, socketVars, BunInv, LiveInv, OpenInv, Types
<1>2. CASE inflight' # "none"
  <2>1. UNCHANGED <<batch, answers>>
    BY <1>1, <1>2 DEF Enqueue
  <2> QED
    BY <1>1, <2>1, StutterStep
<1>3. CASE inflight' = "none"
  <2>1. batch # NoBatch /\ batch' = NoBatch
    BY <1>3, EnqueueIsAnswer
  <2>2. PICK kind \in {"partial", "error"} : answers' = Append(answers, Answer(kind, batch))
    BY <1>3, EnqueueIsAnswer
  <2>3. Produced = answers /\ Produced' = answers'
    BY DEF BunInv
  <2>4. Contract!Respond(Session, kind, TRUE, FALSE)
    BY <1>1, <2>1, <2>2, <2>3, Zenon
    DEF Contract!Respond, Contract!After, Contract!NoBatch, Contract!NoAudio, Contract!AudioOf,
        NoBatch, NoAudio, Answer
  <2> QED
    BY <2>4, Zenon DEF Contract!Next
<1> QED
  BY <1>2, <1>3, Zenon

LEMMA SendRefines ==
  ASSUME BunInv, BunInv', ~Over, NEW status \in {-1, 1}, SendNext(status)
  PROVE  Contract!Next
<1>1. /\ Phase = "streaming" /\ Phase' = "streaming" /\ ~Over' /\ answers' = answers
  BY SendStep DEF Phase, Over
<1>2. queue # <<>> /\ wire' = Append(wire, Head(queue)) /\ UNCHANGED <<code, seq, batch>>
  BY DEF SendNext
<1>3. Produced = answers /\ Produced' = answers
  BY <1>1 DEF BunInv
<1>4. Len(wire') = Len(wire) + 1
  BY <1>2 DEF BunInv, Types
<1>5. Len(wire) < Len(answers)
  <2>1. answers = wire \o queue
    BY DEF BunInv, LiveInv
  <2>2. /\ Len(wire \o queue) = Len(wire) + Len(queue)
        /\ Len(wire) \in Nat /\ Len(queue) \in Nat
    BY ConcatProperties DEF BunInv, Types
  <2>3. Len(queue) # 0
    BY <1>2 DEF BunInv, Types
  <2> QED
    BY <2>1, <2>2, <2>3
<1>6. Contract!Send(Session)
  BY <1>1, <1>2, <1>3, <1>4, <1>5 DEF Contract!Send, NoBatch
<1> QED
  BY <1>6 DEF Contract!Next

\* The callbacks of a session implement the contract, for every interval, jitter,
\* timeout, outbox and number of frames.
THEOREM BunImplementsContract == Spec => ImplementsContract
<1>1. Init => Contract!Init
  BY DEF Init, Contract!Init, Phase, Over, Produced, NoBatch, Contract!NoBatch
<1>2. ASSUME BunInv, BunInv', Next PROVE Contract!Next \/ UNCHANGED Contract!vars
  <2>1. CASE Over
    <3>1. Over' /\ UNCHANGED <<wire, answers, code, seq>>
      BY <1>2, <2>1, OverStep
    <3>2. Phase' = Phase
      BY <2>1, <3>1 DEF Phase, Over
    <3> QED
      BY <2>1, <3>1, <3>2, StutterStep
  <2>2. CASE ~Over
    <3>1. ASSUME NEW kind \in {"partial", "error"}, ProcessBatch(kind)
          PROVE  UNCHANGED Contract!vars
      BY <2>2, <3>1, StutterStep, Zenon DEF ProcessBatch, Phase, Over, socketVars, outboxVars
    <3> QED
      BY <1>2, <2>2, <3>1, LiveSteps, QuietRefines, EndRefines, FrameRefines, TimerRefines,
         EnqueueRefines, SendRefines, Zenon
  <2> QED
    BY <2>1, <2>2
<1>3. UNCHANGED vars => UNCHANGED Contract!vars
  BY DEF vars, socketVars, flushVars, outboxVars, Contract!vars, Phase, Over, Produced, NoBatch
<1>4. BunInv /\ BunInv' /\ [Next]_vars => [Contract!Next]_(Contract!vars)
  BY <1>2, <1>3
<1> QED
  BY <1>1, <1>4, BunInvHolds, PTL DEF Spec, ImplementsContract, Contract!Spec
=============================================================================
