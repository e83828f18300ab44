--------------------------- MODULE RustSyncProofs ---------------------------
(***************************************************************************)
(* Theorems about the two threads of the rust-sync gateway, for any number *)
(* of connections, slots and frames.                                       *)
(***************************************************************************)
EXTENDS RustSync, TLAPS

\* More than the provers' default time, for slow machines.
USE SMTT(30)

\* Shutting or keeping a connection leaves phase, code and closing well typed.
LEMMA OutcomeType ==
  ASSUME TypeOK, NEW c \in Conn, NEW k \in {0, 1002, 1003}, NEW p \in {"ws", "started"},
         Keep(c, p) \/ Shut(c, k)
  PROVE  /\ phase' \in [Conn -> {"none", "http", "ws", "started", "closed"}]
         /\ code' \in [Conn -> {0, 1002, 1003}]
         /\ closing' \in SUBSET Conn
<1>1. CASE Keep(c, p)
  BY <1>1 DEF TypeOK, Keep
<1>2. CASE Shut(c, k)
  BY <1>2 DEF TypeOK, Shut
<1> QED
  BY <1>1, <1>2

\* So does delivering an answer, which also keeps pending and out well typed.
LEMMA DeliverType ==
  ASSUME TypeOK, NEW c \in Conn, NEW ok \in BOOLEAN, NEW audio \in Audio,
         Deliver(c, ok, audio)
  PROVE  /\ phase' \in [Conn -> {"none", "http", "ws", "started", "closed"}]
         /\ code' \in [Conn -> {0, 1002, 1003}]
         /\ closing' \in SUBSET Conn
         /\ pending' \in [Conn -> Batch]
         /\ out' \in [Conn -> Seq(Message)]
<1>1. pending' \in [Conn -> Batch]
  BY DEF Deliver, TypeOK, NoBatch, Batch
<1>2. CASE phase[c] = "started"
  <2> DEFINE m == [kind |-> IF ok THEN "partial" ELSE "error", oldest |-> pending[c].oldest,
                   newest |-> pending[c].newest, audio |-> audio]
  <2>1. (IF ok THEN "partial" ELSE "error") \in {"partial", "error"}
    BY Zenon
  <2>2. pending[c].oldest \in Nat /\ pending[c].newest \in Nat
    BY DEF TypeOK, Batch
  <2>3. m \in Message
    BY <2>1, <2>2 DEF Message
  <2>4. out' = [out EXCEPT ![c] = Append(out[c], m)]
    BY <1>2 DEF Deliver
  <2>5. Keep(c, "started") \/ Shut(c, 0)
    BY <1>2 DEF Deliver, FlushWs
  <2> HIDE DEF m
  <2>6. out' \in [Conn -> Seq(Message)]
    BY <2>3, <2>4 DEF TypeOK
  <2> QED
    BY <1>1, <2>5, <2>6, OutcomeType
<1>3. CASE phase[c] # "started"
  BY <1>1, <1>3 DEF Deliver, TypeOK
<1> QED
  BY <1>2, <1>3

\* The empty wire and the absence of audio are well typed.
LEMMA NothingType == <<>> \in Seq(Audio) /\ NoAudio \in Audio
BY DEF NoAudio, Audio

\* What each update of a slot sets and leaves.
LEMMA SlotUpdates ==
  ASSUME NEW r \in SlotRec, NEW w \in Seq(Audio)
  PROVE  /\ /\ Dialed(r) \in SlotRec /\ Dialed(r).owner = r.owner /\ Dialed(r).tag = r.tag
            /\ Dialed(r).req = r.req /\ Dialed(r).sock /\ Dialed(r).state = "Connecting"
            /\ Dialed(r).wire = r.wire
         /\ /\ Sending(r) \in SlotRec /\ Sending(r).owner = r.owner /\ Sending(r).tag = r.tag
            /\ Sending(r).req = r.req /\ Sending(r).sock = r.sock /\ Sending(r).state = "Sending"
            /\ Sending(r).wire = r.wire
         /\ /\ Receiving(r, w) \in SlotRec /\ Receiving(r, w).owner = r.owner
            /\ Receiving(r, w).tag = r.tag /\ Receiving(r, w).req = r.req
            /\ Receiving(r, w).sock = r.sock /\ Receiving(r, w).state = "Receiving"
            /\ Receiving(r, w).wire = w
         /\ /\ Answered(r, w) \in SlotRec /\ Answered(r, w).owner = r.owner
            /\ Answered(r, w).state = "Idle" /\ Answered(r, w).wire = w
         /\ /\ Redialed(r) \in SlotRec /\ Redialed(r).owner = r.owner /\ Redialed(r).tag = r.tag
            /\ Redialed(r).req = r.req /\ Redialed(r).sock = r.sock
            /\ Redialed(r).state = "Connecting" /\ Redialed(r).wire = <<>>
         /\ /\ Undialed(r) \in SlotRec /\ Undialed(r).owner = r.owner
            /\ ~Undialed(r).sock /\ Undialed(r).wire = <<>>
         /\ /\ Dropped(r) \in SlotRec /\ Dropped(r).owner = r.owner
            /\ ~Dropped(r).sock /\ Dropped(r).wire = <<>>
         /\ /\ Released(r) \in SlotRec /\ Released(r).owner = NoConn
            /\ Released(r).sock = r.sock /\ Released(r).state = r.state
            /\ Released(r).wire = r.wire
<1> USE DEF SlotRec, States
<1>1. /\ Dialed(r) \in SlotRec /\ Dialed(r).owner = r.owner /\ Dialed(r).tag = r.tag
      /\ Dialed(r).req = r.req /\ Dialed(r).sock /\ Dialed(r).state = "Connecting"
      /\ Dialed(r).wire = r.wire
  BY Zenon DEF Dialed
<1>2. /\ Sending(r) \in SlotRec /\ Sending(r).owner = r.owner /\ Sending(r).tag = r.tag
      /\ Sending(r).req = r.req /\ Sending(r).sock = r.sock /\ Sending(r).state = "Sending"
      /\ Sending(r).wire = r.wire
  BY DEF Sending
<1>3. /\ Receiving(r, w) \in SlotRec /\ Receiving(r, w).owner = r.owner
      /\ Receiving(r, w).tag = r.tag /\ Receiving(r, w).req = r.req
      /\ Receiving(r, w).sock = r.sock /\ Receiving(r, w).state = "Receiving"
      /\ Receiving(r, w).wire = w
  BY Zenon DEF Receiving
<1>4. /\ Answered(r, w) \in SlotRec /\ Answered(r, w).owner = r.owner
      /\ Answered(r, w).state = "Idle" /\ Answered(r, w).wire = w
  BY Zenon DEF Answered
<1>5. /\ Redialed(r) \in SlotRec /\ Redialed(r).owner = r.owner /\ Redialed(r).tag = r.tag
      /\ Redialed(r).req = r.req /\ Redialed(r).sock = r.sock
      /\ Redialed(r).state = "Connecting" /\ Redialed(r).wire = <<>>
  BY NothingType, Zenon DEF Redialed
<1>6. /\ Undialed(r) \in SlotRec /\ Undialed(r).owner = r.owner
      /\ ~Undialed(r).sock /\ Undialed(r).wire = <<>>
  BY NothingType, Zenon DEF Undialed
<1>7. /\ Dropped(r) \in SlotRec /\ Dropped(r).owner = r.owner
      /\ ~Dropped(r).sock /\ Dropped(r).wire = <<>>
  <2>1. LeftOver(r.resp) \in {"empty", "ours", "old"}
    BY Zenon DEF LeftOver
  <2> QED
    BY <2>1, NothingType, Zenon DEF Dropped
<1>8. /\ Released(r) \in SlotRec /\ Released(r).owner = NoConn
      /\ Released(r).sock = r.sock /\ Released(r).state = r.state
      /\ Released(r).wire = r.wire
  BY DEF Released
<1> QED
  BY <1>1, <1>2, <1>3, <1>4, <1>5, <1>6, <1>7, <1>8

\* The same, for the three updates of which a larger step needs nothing else.
LEMMA ReceivingFields ==
  ASSUME NEW r \in SlotRec, NEW w \in Seq(Audio)
  PROVE  /\ Receiving(r, w) \in SlotRec /\ Receiving(r, w).owner = r.owner
         /\ Receiving(r, w).req = r.req /\ Receiving(r, w).sock = r.sock
         /\ Receiving(r, w).state = "Receiving" /\ Receiving(r, w).wire = w
BY Zenon DEF SlotRec, States, Receiving

LEMMA AnsweredFields ==
  ASSUME NEW r \in SlotRec, NEW w \in Seq(Audio)
  PROVE  Answered(r, w) \in SlotRec /\ Answered(r, w).wire = w /\ Answered(r, w).state = "Idle"
BY Zenon DEF SlotRec, States, Answered

\* Which updates empty the response buffer, and which keep it.
LEMMA RespFields ==
  ASSUME NEW r \in SlotRec, NEW w, NEW m
  PROVE  /\ Built(r, m).resp = "empty" /\ Redialed(r).resp = "empty"
         /\ Dialed(r).resp = r.resp /\ Sending(r).resp = r.resp /\ Receiving(r, w).resp = r.resp
BY DEF SlotRec, Built, Redialed, Dialed, Sending, Receiving

LEMMA ReadPartFields ==
  ASSUME NEW r \in SlotRec
  PROVE  /\ ReadPart(r) \in SlotRec /\ ReadPart(r).owner = r.owner /\ ReadPart(r).tag = r.tag
         /\ ReadPart(r).req = r.req /\ ReadPart(r).sock = r.sock /\ ReadPart(r).state = r.state
         /\ ReadPart(r).wire = r.wire /\ ReadPart(r).resp = "ours"
BY DEF SlotRec, ReadPart

LEMMA ReleasedFields ==
  ASSUME NEW r \in SlotRec
  PROVE  /\ Released(r) \in SlotRec /\ Released(r).owner = NoConn
         /\ Released(r).sock = r.sock /\ Released(r).wire = r.wire
BY DEF SlotRec, Released

\* What build sets and leaves.
LEMMA SlotBuilt ==
  ASSUME NEW r \in SlotRec, NEW m \in Cmd
  PROVE  /\ Built(r, m) \in SlotRec /\ Built(r, m).owner = m.conn /\ Built(r, m).tag = m.tag
         /\ Built(r, m).req = m.body /\ Built(r, m).sock = r.sock
         /\ Built(r, m).state = r.state /\ Built(r, m).wire = r.wire
BY Zenon DEF Built, SlotRec, Cmd

\* Finishing a request with a well-typed slot keeps thread B's state well typed.
LEMMA FinishType ==
  ASSUME TypeOK, NEW s \in Slot, NEW rec \in SlotRec, NEW ok \in BOOLEAN, NEW audio \in Audio,
         Finish(s, rec, ok, audio)
  PROVE  /\ slot' \in [Slot -> SlotRec]
         /\ free' \in Seq(Slot)
         /\ dones' \in Seq(Done)
         /\ produced' \in BOOLEAN
<1>1. slot' \in [Slot -> SlotRec]
  <2>1. Released(rec) \in SlotRec
    BY NothingType, SlotUpdates, Zenon
  <2>2. slot' = [slot EXCEPT ![s] = Released(rec)]
    BY DEF Finish
  <2> QED
    BY <2>1, <2>2 DEF TypeOK
<1>2. free' \in Seq(Slot)
  BY DEF Finish, TypeOK
<1>3. CASE slot[s].owner = NoConn
  BY <1>1, <1>2, <1>3 DEF Finish, TypeOK
<1>4. CASE slot[s].owner # NoConn
  <2>1. slot[s].owner \in Conn /\ slot[s].tag \in Nat
    BY <1>4 DEF TypeOK, SlotRec
  <2>2. [conn |-> slot[s].owner, tag |-> slot[s].tag, ok |-> ok, audio |-> audio] \in Done
    BY <2>1 DEF Done
  <2>3. dones' = Append(dones, [conn |-> slot[s].owner, tag |-> slot[s].tag, ok |-> ok,
                                audio |-> audio])
    BY <1>4, Zenon DEF Finish, PushDone
  <2>4. produced' \in BOOLEAN
    BY <1>4, Zenon DEF Finish, PushDone
  <2>5. dones' \in Seq(Done)
    BY <2>2, <2>3 DEF TypeOK
  <2> QED
    BY <1>1, <1>2, <2>4, <2>5
<1> QED
  BY <1>3, <1>4

\* A command that submit, timeout or removal queues is well typed.
LEMMA CommandType ==
  ASSUME NEW c \in Conn
  PROVE  /\ Abort(c) \in Cmd
         /\ \A b \in Batch : Submit(c, b) \in Cmd
BY DEF Abort, Submit, Cmd, NoAudio, AudioOf, Audio, Tag, Batch

-----------------------------------------------------------------------------
\* A prefix of a sequence.
LEMMA Prefix ==
  ASSUME NEW S, NEW q \in Seq(S), NEW n \in Nat, n <= Len(q)
  PROVE  /\ SubSeq(q, 1, n) \in Seq(S)
         /\ Len(SubSeq(q, 1, n)) = n
         /\ \A i \in 1 .. n : SubSeq(q, 1, n)[i] = q[i]
OBVIOUS

\* The last slot of a non-empty free list, and the list without it.
LEMMA FrontLast ==
  ASSUME NEW q \in Seq(Slot), q # <<>>
  PROVE  /\ Last(q) \in Slot
         /\ Front(q) \in Seq(Slot)
         /\ Len(q) \in Nat \ {0}
         /\ Len(Front(q)) = Len(q) - 1
         /\ \A i \in 1 .. Len(q) - 1 : Front(q)[i] = q[i]
         /\ q[Len(q)] = Last(q)
<1>1. Len(q) \in Nat \ {0} /\ Len(q) \in DOMAIN q
  OBVIOUS
<1>2. Last(q) \in Slot /\ q[Len(q)] = Last(q)
  BY <1>1 DEF Last
<1>3. Len(q) - 1 \in Nat /\ Len(q) - 1 <= Len(q)
  BY <1>1
<1>4. /\ Front(q) \in Seq(Slot)
      /\ Len(Front(q)) = Len(q) - 1
      /\ \A i \in 1 .. Len(q) - 1 : Front(q)[i] = q[i]
  BY <1>3, Prefix, Zenon DEF Front
<1> QED
  BY <1>1, <1>2, <1>4

\* submit keeps thread B's state well typed.
LEMMA SubmitType ==
  ASSUME TypeOK, NEW m \in Cmd, PoolSubmit(m)
  PROVE  /\ slot' \in [Slot -> SlotRec] /\ free' \in Seq(Slot)
         /\ dones' \in Seq(Done) /\ produced' \in BOOLEAN
<1> DEFINE d == [conn |-> m.conn, tag |-> m.tag, ok |-> FALSE, audio |-> NoAudio]
<1>0. /\ m.conn \in Conn /\ m.tag \in Nat /\ m.body \in Audio
      /\ NoAudio \in Audio
  BY DEF Cmd, NoAudio, Audio
<1>1. d \in Done
  BY <1>0 DEF Done
<1>2. CASE free = <<>>
  <2>1. dones' = Append(dones, d) /\ slot' = slot /\ free' = free
    BY <1>2, Zenon DEF PoolSubmit, PushDone
  <2>2. produced' \in BOOLEAN
    BY <1>2, Zenon DEF PoolSubmit, PushDone
  <2> HIDE DEF d
  <2> QED
    BY <1>1, <2>1, <2>2 DEF TypeOK
<1>3. CASE free # <<>>
  <2> DEFINE s == Last(free)
             built == Built(slot[s], m)
  <2>1. s \in Slot /\ Front(free) \in Seq(Slot)
    BY <1>3, FrontLast DEF TypeOK
  <2>2. built \in SlotRec
    <3>1. slot[s] \in SlotRec
      BY <2>1 DEF TypeOK
    <3> QED
      BY <3>1, SlotBuilt
  <2>4. \/ /\ slot' = [slot EXCEPT ![s] = Sending(built)]
           /\ free' = Front(free) /\ dones' = dones /\ produced' = produced
        \/ /\ slot' = [slot EXCEPT ![s] = Dialed(built)]
           /\ free' = Front(free) /\ dones' = dones /\ produced' = produced
        \/ /\ slot' = [slot EXCEPT ![s] = Released(built)]
           /\ free' = free /\ dones' = Append(dones, d) /\ produced' = TRUE
    BY <1>3, Zenon DEF PoolSubmit, PushDone
  <2> HIDE DEF built
  <2>3. Sending(built) \in SlotRec /\ Dialed(built) \in SlotRec /\ Released(built) \in SlotRec
    BY <2>2, NothingType, SlotUpdates, Zenon
  <2> HIDE DEF s, built, d
  <2>5. slot' \in [Slot -> SlotRec]
    <3>1. ASSUME NEW r \in SlotRec, slot' = [slot EXCEPT ![s] = r]
          PROVE  slot' \in [Slot -> SlotRec]
      BY <3>1, ZenonT(60) DEF TypeOK
    <3> QED
      BY <2>3, <2>4, <3>1, Zenon
  <2>7. free' \in Seq(Slot)
    <3>1. free \in Seq(Slot)
      BY DEF TypeOK
    <3> QED
      BY <2>1, <2>4, <3>1, Zenon
  <2>8. dones' \in Seq(Done)
    <3>1. Append(dones, d) \in Seq(Done)
      BY <1>1 DEF TypeOK
    <3> QED
      BY <2>4, <3>1, ZenonT(60) DEF TypeOK
  <2>6. produced' \in BOOLEAN
    BY <2>4, ZenonT(60) DEF TypeOK
  <2> QED
    BY <2>5, <2>6, <2>7, <2>8
<1> QED
  BY <1>2, <1>3

\* So does abort_owner.
LEMMA AbortType ==
  ASSUME TypeOK, NEW c \in Conn, PoolAbort(c)
  PROVE  /\ slot' \in [Slot -> SlotRec] /\ free' \in Seq(Slot)
         /\ dones' \in Seq(Done) /\ produced' \in BOOLEAN
<1>1. dones' \in Seq(Done) /\ produced' \in BOOLEAN
  BY DEF PoolAbort, TypeOK
<1>2. CASE \E s \in Slot : slot[s].owner = c
  <2>1. PICK s \in Slot :
          /\ slot' = [slot EXCEPT ![s] = Released(Dropped(@))]
          /\ free' = Append(free, s)
    BY <1>2, Zenon DEF PoolAbort
  <2>2. slot' \in [Slot -> SlotRec]
    <3>1. slot[s] \in SlotRec
      BY DEF TypeOK
    <3>2. Released(Dropped(slot[s])) \in SlotRec
      BY <3>1, NothingType, SlotUpdates, Zenon
    <3> QED
      BY <2>1, <3>2 DEF TypeOK
  <2>3. free' \in Seq(Slot)
    BY <2>1 DEF TypeOK
  <2> QED
    BY <1>1, <2>2, <2>3
<1>3. CASE ~\E s \in Slot : slot[s].owner = c
  BY <1>1, <1>3 DEF PoolAbort, TypeOK
<1> QED
  BY <1>2, <1>3

\* Driving a slot keeps thread B's state well typed.
LEMMA SlotMoves ==
  ASSUME TypeOK, NEW s \in Slot
  PROVE  /\ SlotAdvance(s) \/ SlotProbe(s) => slot' \in [Slot -> SlotRec]
         /\ SlotRespond(s) \/ SlotError(s) =>
              /\ slot' \in [Slot -> SlotRec] /\ free' \in Seq(Slot)
              /\ dones' \in Seq(Done) /\ produced' \in BOOLEAN
<1>0. slot \in [Slot -> SlotRec] /\ slot[s] \in SlotRec
  BY DEF TypeOK
<1>b. slot[s].wire \in Seq(Audio) /\ slot[s].req \in Audio
  BY <1>0 DEF SlotRec
<1>1. /\ slot \in [Slot -> SlotRec] /\ slot[s] \in SlotRec
      /\ slot[s].wire \in Seq(Audio) /\ slot[s].req \in Audio
      /\ NoAudio \in Audio /\ <<>> \in Seq(Audio)
  BY <1>0, <1>b, NothingType
<1>2. Written(s) \in Seq(Audio)
  BY <1>1 DEF Written
<1>3. ASSUME NEW r \in SlotRec, slot' = [slot EXCEPT ![s] = r] PROVE slot' \in [Slot -> SlotRec]
  BY <1>1, <1>3
<1>4. ASSUME SlotAdvance(s) PROVE slot' \in [Slot -> SlotRec]
  <2>1. /\ Sending(slot[s]) \in SlotRec /\ Receiving(slot[s], Written(s)) \in SlotRec
        /\ ReadPart(slot[s]) \in SlotRec
    BY <1>1, <1>2, SlotUpdates, ReadPartFields
  <2> QED
    BY <1>3, <1>4, <2>1, Zenon DEF SlotAdvance
<1>5. ASSUME SlotProbe(s) PROVE slot' \in [Slot -> SlotRec]
  <2>1. Dropped(slot[s]) \in SlotRec
    BY <1>1, SlotUpdates
  <2> QED
    BY <1>3, <1>5, <2>1, Zenon DEF SlotProbe
<1>6. ASSUME SlotRespond(s)
      PROVE  /\ slot' \in [Slot -> SlotRec] /\ free' \in Seq(Slot)
             /\ dones' \in Seq(Done) /\ produced' \in BOOLEAN
  <2>1. PICK ok \in BOOLEAN :
          Finish(s, Answered(slot[s], Tail(Written(s))), ok,
                 IF ok /\ slot[s].resp # "old" THEN Head(Written(s)) ELSE NoAudio)
    BY <1>6, Zenon DEF SlotRespond
  <2>2. Tail(Written(s)) \in Seq(Audio) /\ Head(Written(s)) \in Audio
    BY <1>2, <1>6 DEF SlotRespond
  <2>3. Answered(slot[s], Tail(Written(s))) \in SlotRec
    BY <1>1, <2>2, SlotUpdates, Zenon
  <2>4. (IF ok /\ slot[s].resp # "old" THEN Head(Written(s)) ELSE NoAudio) \in Audio
    BY <1>1, <2>2, Zenon
  <2> QED
    BY <2>1, <2>3, <2>4, FinishType, Zenon
<1>7. ASSUME SlotError(s)
      PROVE  /\ slot' \in [Slot -> SlotRec] /\ free' \in Seq(Slot)
             /\ dones' \in Seq(Done) /\ produced' \in BOOLEAN
  <2>1. /\ Redialed(slot[s]) \in SlotRec /\ Undialed(slot[s]) \in SlotRec
        /\ Dropped(slot[s]) \in SlotRec
    BY <1>1, SlotUpdates
  <2>2. \/ /\ slot' = [slot EXCEPT ![s] = Redialed(@)]
           /\ UNCHANGED <<free, dones, produced>>
        \/ Finish(s, Undialed(slot[s]), FALSE, NoAudio)
        \/ Finish(s, Dropped(slot[s]), FALSE, NoAudio)
    BY <1>7, Zenon DEF SlotError
  <2>3. CASE slot' = [slot EXCEPT ![s] = Redialed(@)] /\ UNCHANGED <<free, dones, produced>>
    BY <1>1, <2>1, <2>3 DEF TypeOK
  <2>4. FALSE \in BOOLEAN
    OBVIOUS
  <2> QED
    BY <1>1, <2>1, <2>2, <2>3, <2>4, FinishType, Zenon
<1> QED
  BY <1>4, <1>5, <1>6, <1>7

\* Type correctness, one step per action.
LEMMA TypeStep == ASSUME TypeOK, [Next]_vars PROVE TypeOK'
<1> USE DEF aVars, bVars
<1>1. CASE Poll
  BY <1>1, ZenonT(60) DEF Poll, TypeOK
<1>2. CASE DrainBegin
  BY <1>2, ZenonT(60) DEF DrainBegin, TypeOK
<1>3. CASE DrainOne
  <2>1. Head(dones) \in Done /\ dones' \in Seq(Done)
    BY <1>3 DEF DrainOne, TypeOK
  <2>2. /\ Head(dones).conn \in Conn /\ Head(dones).ok \in BOOLEAN
        /\ Head(dones).audio \in Audio
    BY <2>1 DEF Done
  <2>3. CASE Matches(Head(dones).conn, Head(dones).tag)
    <3>1. Deliver(Head(dones).conn, Head(dones).ok, Head(dones).audio)
      BY <1>3, <2>3 DEF DrainOne
    <3>2. /\ phase' \in [Conn -> {"none", "http", "ws", "started", "closed"}]
          /\ code' \in [Conn -> {0, 1002, 1003}]
          /\ closing' \in SUBSET Conn
          /\ pending' \in [Conn -> Batch]
          /\ out' \in [Conn -> Seq(Message)]
      BY <2>2, <3>1, DeliverType
    <3> QED
      BY <1>3, <2>1, <3>2, ZenonT(60) DEF DrainOne, TypeOK
  <2>4. CASE ~Matches(Head(dones).conn, Head(dones).tag)
    BY <1>3, <2>1, <2>4 DEF DrainOne, TypeOK
  <2> QED
    BY <2>3, <2>4
<1>4. CASE DrainEnd
  BY <1>4 DEF DrainEnd, TypeOK
<1>5. CASE TimersBegin
  BY <1>5 DEF TimersBegin, TypeOK
<1>6. CASE TimersEnd
  BY <1>6 DEF TimersEnd, TypeOK
<1>7. CASE ClosingEnd
  BY <1>7 DEF ClosingEnd, TypeOK
<1>8. ASSUME NEW c \in Conn, Accept(c) PROVE TypeOK'
  <2>1. phase' \in [Conn -> {"none", "http", "ws", "started", "closed"}]
    <3>1. CASE phase' = [phase EXCEPT ![c] = "http"]
      BY <3>1 DEF TypeOK
    <3>2. CASE phase' = [phase EXCEPT ![c] = "closed"]
      BY <3>2 DEF TypeOK
    <3> QED
      BY <1>8, <3>1, <3>2, Zenon DEF Accept
  <2>2. conns' \in SUBSET Conn
    BY <1>8 DEF Accept, TypeOK
  <2> QED
    BY <1>8, <2>1, <2>2 DEF Accept, TypeOK
<1>9. ASSUME NEW c \in Conn, Handshake(c) PROVE TypeOK'
  <2>1. Keep(c, "ws") \/ Shut(c, 0)
    BY <1>9 DEF Handshake
  <2> QED
    BY <1>9, <2>1, OutcomeType DEF Handshake, TypeOK
<1>10. ASSUME NEW c \in Conn, NEW m \in Inbound, OnReadable(c, m) PROVE TypeOK'
  <2>1. /\ seq' \in [Conn -> Nat]
        /\ meta' \in [Conn -> Seq(Nat)]
    <3>1. CASE UNCHANGED <<seq, meta>>
      BY <3>1 DEF TypeOK
    <3>2. CASE /\ seq' = [seq EXCEPT ![c] = @ + 1]
               /\ meta' = [meta EXCEPT ![c] = Append(@, seq[c] + 1)]
      BY <3>2 DEF TypeOK
    <3> QED
      BY <1>10, <3>1, <3>2, Zenon DEF OnReadable
  <2>2. \E k \in {0, 1002, 1003}, p \in {"ws", "started"} : Keep(c, p) \/ Shut(c, k)
    BY <1>10 DEF OnReadable, FlushWs
  <2>3. /\ phase' \in [Conn -> {"none", "http", "ws", "started", "closed"}]
        /\ code' \in [Conn -> {0, 1002, 1003}]
        /\ closing' \in SUBSET Conn
    BY <2>2, OutcomeType
  <2> QED
    BY <1>10, <2>1, <2>3 DEF OnReadable, TypeOK
<1>11. ASSUME NEW c \in Conn, OnWritable(c) PROVE TypeOK'
  <2>1. Shut(c, 0)
    BY <1>11 DEF OnWritable
  <2> QED
    BY <1>11, <2>1, OutcomeType DEF OnWritable, TypeOK
<1>12. ASSUME NEW c \in Conn, TimerFlush(c) PROVE TypeOK'
  <2> DEFINE b == [oldest |-> meta[c][1], newest |-> meta[c][Len(meta[c])]]
  <2>1. meta[c] \in Seq(Nat) /\ meta[c] # <<>>
    BY <1>12 DEF TimerFlush, TypeOK
  <2>2. 1 \in DOMAIN meta[c] /\ Len(meta[c]) \in DOMAIN meta[c]
    BY <2>1
  <2>3. b \in Batch
    BY <2>1, <2>2 DEF Batch
  <2>4. /\ cmds' = Append(cmds, Submit(c, b))
        /\ pending' = [pending EXCEPT ![c] = b]
    BY <1>12 DEF TimerFlush
  <2>5. Submit(c, b) \in Cmd
    BY <2>3, CommandType
  <2> HIDE DEF b
  <2>6. cmds' \in Seq(Cmd) /\ pending' \in [Conn -> Batch]
    BY <2>3, <2>4, <2>5 DEF TypeOK
  <2>7. meta' \in [Conn -> Seq(Nat)]
    BY <1>12 DEF TimerFlush, TypeOK
  <2> QED
    BY <1>12, <2>6, <2>7 DEF TimerFlush, TypeOK
<1>13. ASSUME NEW c \in Conn, TimerTimeout(c) PROVE TypeOK'
  <2>1. Deliver(c, FALSE, NoAudio) /\ NoAudio \in Audio
    BY <1>13, Zenon DEF TimerTimeout, NoAudio, Audio
  <2>2. /\ phase' \in [Conn -> {"none", "http", "ws", "started", "closed"}]
        /\ code' \in [Conn -> {0, 1002, 1003}]
        /\ closing' \in SUBSET Conn
        /\ pending' \in [Conn -> Batch]
        /\ out' \in [Conn -> Seq(Message)]
    BY <2>1, DeliverType, Zenon
  <2>3. cmds' \in Seq(Cmd)
    BY <1>13, CommandType DEF TimerTimeout, TypeOK
  <2> QED
    BY <1>13, <2>2, <2>3 DEF TimerTimeout, TypeOK
<1>14. ASSUME NEW c \in Conn, Remove(c) PROVE TypeOK'
  <2>1. cmds' \in Seq(Cmd)
    <3>1. Append(cmds, Abort(c)) \in Seq(Cmd)
      BY CommandType DEF TypeOK
    <3> QED
      BY <1>14, <3>1, ZenonT(60) DEF Remove, TypeOK
  <2>2. pending' \in [Conn -> Batch]
    BY <1>14 DEF Remove, TypeOK, NoBatch, Batch
  <2> QED
    BY <1>14, <2>1, <2>2 DEF Remove, TypeOK
<1>15. CASE EventsEnd
  BY <1>15 DEF EventsEnd, TypeOK
<1>16. CASE Command
  <2> DEFINE m == Head(cmds)
  <2>1. m \in Cmd /\ cmds' \in Seq(Cmd)
    BY <1>16 DEF Command, TypeOK
  <2>2. m.conn \in Conn /\ m.tag \in Nat /\ m.body \in Audio
    BY <2>1 DEF Cmd
  <2>3. \/ m.op = "submit" /\ PoolSubmit(m)
        \/ m.op = "abort" /\ PoolAbort(m.conn)
    BY <1>16 DEF Command
  <2> HIDE DEF m
  <2>4. /\ slot' \in [Slot -> SlotRec] /\ free' \in Seq(Slot)
        /\ dones' \in Seq(Done) /\ produced' \in BOOLEAN
    <3>1. CASE PoolSubmit(m)
      BY <2>1, <3>1, SubmitType
    <3>2. CASE PoolAbort(m.conn)
      BY <2>2, <3>2, AbortType
    <3> QED
      BY <2>3, <3>1, <3>2
  <2> QED
    BY <1>16, <2>1, <2>4 DEF Command, TypeOK
<1>17. CASE CommandsEnd
  BY <1>17, ZenonT(60) DEF CommandsEnd, TypeOK
<1>18. ASSUME NEW s \in Slot, SlotAdvance(s) PROVE TypeOK'
  <2>1. slot' \in [Slot -> SlotRec]
    BY <1>18, SlotMoves
  <2> QED
    BY <1>18, <2>1 DEF SlotAdvance, TypeOK
<1>19. ASSUME NEW s \in Slot, SlotRespond(s) \/ SlotError(s) PROVE TypeOK'
  <2>0. UNCHANGED <<aVars, wake, cmds, bPc>>
    BY <1>19, Zenon DEF SlotRespond, SlotError
  <2>1. /\ slot' \in [Slot -> SlotRec] /\ free' \in Seq(Slot)
        /\ dones' \in Seq(Done) /\ produced' \in BOOLEAN
    BY <1>19, SlotMoves
  <2> QED
    BY <2>0, <2>1 DEF TypeOK
<1>20. ASSUME NEW s \in Slot, SlotProbe(s) PROVE TypeOK'
  <2>1. slot' \in [Slot -> SlotRec]
    BY <1>20, SlotMoves
  <2> QED
    BY <1>20, <2>1 DEF SlotProbe, TypeOK
<1>21. CASE UNCHANGED vars
  BY <1>21 DEF vars, TypeOK
<1> QED
  BY <1>1, <1>2, <1>3, <1>4, <1>5, <1>6, <1>7, <1>8, <1>9, <1>10, <1>11, <1>12, <1>13,
     <1>14, <1>15, <1>16, <1>17, <1>18, <1>19, <1>20, <1>21
     DEF Next, ThreadA, ThreadB

\* Every variable of the two threads keeps its type.
THEOREM TypeCorrect == Spec => []TypeOK
<1>1. Init => TypeOK
  <2> SUFFICES ASSUME Init PROVE TypeOK
    OBVIOUS
  <2>1. Cardinality(Slot) \in Nat
    BY SlotAssumption
  <2>2. free \in Seq(Slot)
    <3>1. free \in [1 .. Cardinality(Slot) -> Slot]
      BY Zenon DEF Init
    <3> QED
      BY <2>1, <3>1, SMT
  <2>3. NewSlot \in SlotRec
    BY DEF NewSlot, SlotRec, NoAudio, Audio, States
  <2>4. slot \in [Slot -> SlotRec]
    BY <2>3 DEF Init
  <2>5. pending \in [Conn -> Batch]
    BY DEF Init, NoBatch, Batch
  <2>6. ready \in BOOLEAN /\ wake \in BOOLEAN /\ produced \in BOOLEAN
    BY Zenon DEF Init
  <2> QED
    BY <2>2, <2>4, <2>5, <2>6 DEF Init, TypeOK
<1>2. TypeOK /\ [Next]_vars => TypeOK'
  BY TypeStep
<1> QED
  BY <1>1, <1>2, PTL DEF Spec

-----------------------------------------------------------------------------
\* Returning an owned slot keeps the free list exact.
LEMMA FreePush ==
  ASSUME TypeOK, FreeListExact, NEW s \in Slot, slot[s].owner # NoConn,
         NEW r \in SlotRec, r.owner = NoConn,
         slot' = [slot EXCEPT ![s] = r], free' = Append(free, s)
  PROVE  FreeListExact'
<1>1. /\ free \in Seq(Slot) /\ slot \in [Slot -> SlotRec]
      /\ DOMAIN free = 1 .. Len(free) /\ Len(free) \in Nat
  BY DEF TypeOK
<1>2. /\ DOMAIN free' = 1 .. Len(free) + 1
      /\ free'[Len(free) + 1] = s
      /\ \A i \in 1 .. Len(free) : free'[i] = free[i]
  BY <1>1
<1>3. \A i \in 1 .. Len(free) : free[i] # s
  BY <1>1 DEF FreeListExact
<1>4. ASSUME NEW i \in DOMAIN free', NEW j \in DOMAIN free', free'[i] = free'[j] PROVE i = j
  <2>1. CASE i = Len(free) + 1 \/ j = Len(free) + 1
    BY <1>1, <1>2, <1>3, <1>4, <2>1
  <2>2. CASE i # Len(free) + 1 /\ j # Len(free) + 1
    <3>1. i \in DOMAIN free /\ j \in DOMAIN free
      BY <1>1, <1>2, <2>2
    <3> QED
      BY <1>1, <1>2, <1>4, <3>1 DEF FreeListExact
  <2> QED
    BY <2>1, <2>2
<1>5. ASSUME NEW t \in Slot
      PROVE  slot'[t].owner = NoConn <=> \E i \in DOMAIN free' : free'[i] = t
  <2>1. CASE t = s
    <3>1. slot'[t].owner = NoConn
      BY <1>1, <2>1
    <3>2. Len(free) + 1 \in DOMAIN free' /\ free'[Len(free) + 1] = t
      BY <1>1, <1>2, <2>1
    <3> QED
      BY <3>1, <3>2
  <2>2. CASE t # s
    <3>1. slot'[t] = slot[t]
      BY <1>1, <2>2
    <3>2. (\E i \in DOMAIN free' : free'[i] = t) <=> (\E i \in DOMAIN free : free[i] = t)
      BY <1>1, <1>2, <2>2
    <3> QED
      BY <3>1, <3>2 DEF FreeListExact
  <2> QED
    BY <2>1, <2>2
<1> QED
  BY <1>4, <1>5 DEF FreeListExact

\* Lending the last free slot keeps the free list exact.
LEMMA FreePop ==
  ASSUME TypeOK, FreeListExact, free # <<>>,
         NEW r \in SlotRec, r.owner # NoConn,
         slot' = [slot EXCEPT ![Last(free)] = r], free' = Front(free)
  PROVE  FreeListExact'
<1> DEFINE s == Last(free)
<1>1. /\ free \in Seq(Slot) /\ slot \in [Slot -> SlotRec]
      /\ DOMAIN free = 1 .. Len(free) /\ Len(free) \in Nat
  BY DEF TypeOK
<1>2. /\ s \in Slot /\ free' \in Seq(Slot) /\ Len(free) \in Nat \ {0}
      /\ Len(free') = Len(free) - 1 /\ DOMAIN free' = 1 .. Len(free) - 1
      /\ free[Len(free)] = s
  <2>1. /\ s \in Slot /\ free' \in Seq(Slot) /\ Len(free) \in Nat \ {0}
        /\ Len(free') = Len(free) - 1 /\ free[Len(free)] = s
    BY <1>1, FrontLast, Zenon
  <2>2. DOMAIN free' = 1 .. Len(free')
    BY <2>1
  <2> QED
    BY <2>1, <2>2
<1>3. \A i \in 1 .. Len(free) - 1 : free'[i] = free[i]
  BY <1>1, FrontLast
<1>4. \A i \in 1 .. Len(free) - 1 : free[i] # s /\ i \in DOMAIN free
  <2>1. ASSUME NEW i \in 1 .. Len(free) - 1 PROVE free[i] # s /\ i \in DOMAIN free
    <3> DEFINE n == Len(free)
    <3>2. DOMAIN free = 1 .. n /\ n \in Nat \ {0} /\ i \in 1 .. n - 1
      BY <1>1, <1>2, Zenon
    <3> HIDE DEF n
    <3>3. i \in 1 .. n /\ n \in 1 .. n /\ i # n
      BY <3>2
    <3>1. i \in DOMAIN free /\ Len(free) \in DOMAIN free /\ i # Len(free)
      BY <3>2, <3>3, Zenon DEF n
    <3> QED
      BY <1>2, <3>1, Zenon DEF FreeListExact
  <2> QED
    BY <2>1
<1> HIDE DEF s
<1>5. ASSUME NEW i \in DOMAIN free', NEW j \in DOMAIN free', free'[i] = free'[j] PROVE i = j
  <2>1. i \in DOMAIN free /\ j \in DOMAIN free /\ free[i] = free[j]
    BY <1>2, <1>3, <1>4, <1>5
  <2> QED
    BY <2>1, Zenon DEF FreeListExact
<1>6. ASSUME NEW t \in Slot
      PROVE  slot'[t].owner = NoConn <=> \E i \in DOMAIN free' : free'[i] = t
  <2>1. CASE t = s
    <3>1. slot'[t].owner # NoConn
      BY <1>1, <1>2, <2>1 DEF s
    <3> QED
      BY <1>2, <1>3, <1>4, <2>1, <3>1, Zenon
  <2>2. CASE t # s
    <3>1. slot'[t] = slot[t]
      BY <1>1, <2>2 DEF s
    <3>2. ASSUME NEW i \in DOMAIN free, free[i] = t PROVE i \in DOMAIN free' /\ free'[i] = t
      <4>1. i # Len(free)
        BY <1>2, <2>2, <3>2
      <4>2. i \in 1 .. Len(free) - 1
        BY <1>1, <1>2, <4>1
      <4> QED
        BY <1>2, <1>3, <3>2, <4>2
    <3>3. ASSUME NEW i \in DOMAIN free', free'[i] = t PROVE i \in DOMAIN free /\ free[i] = t
      BY <1>2, <1>3, <1>4, <3>3
    <3> QED
      BY <3>1, <3>2, <3>3, Zenon DEF FreeListExact
  <2> QED
    BY <2>1, <2>2
<1> QED
  BY <1>5, <1>6 DEF FreeListExact

\* The last slot of the free list belongs to nobody.
LEMMA LastIsFree ==
  ASSUME TypeOK, FreeListExact, free # <<>>
  PROVE  Last(free) \in Slot /\ slot[Last(free)].owner = NoConn
<1>1. free \in Seq(Slot)
  BY DEF TypeOK
<1>2. /\ Last(free) \in Slot /\ Len(free) \in Nat \ {0} /\ free[Len(free)] = Last(free)
  BY <1>1, FrontLast
<1>3. Len(free) \in DOMAIN free
  BY <1>1, <1>2
<1> QED
  BY <1>2, <1>3, Zenon DEF FreeListExact

\* The state of the pool that no step of thread B leaves.
PoolInv == FreeListExact /\ SocketClean

\* What SocketClean says of one slot.
Clean(r) ==
  IF r.owner = NoConn
  THEN r.wire = <<>> /\ (r.sock => r.state = "Idle")
  ELSE /\ r.sock
       /\ r.state \in {"Connecting", "Sending", "Receiving"}
       /\ r.wire = IF r.state = "Receiving" THEN <<r.req>> ELSE <<>>
       /\ r.resp \in IF r.state = "Receiving" THEN {"empty", "ours"} ELSE {"empty"}

\* Replacing one slot by a clean one keeps the pool's sockets clean.
LEMMA CleanUpdate ==
  ASSUME TypeOK, SocketClean, NEW s \in Slot, NEW r, Clean(r),
         slot' = [slot EXCEPT ![s] = r]
  PROVE  SocketClean'
<1>1. ASSUME NEW t \in Slot PROVE Clean(slot'[t])
  <2>1. CASE t = s
    <3>1. slot'[t] = r
      BY <2>1 DEF TypeOK
    <3> QED
      BY <3>1, Zenon
  <2>2. CASE t # s
    <3>1. slot'[t] = slot[t]
      BY <2>2 DEF TypeOK
    <3>2. Clean(slot[t])
      BY Zenon DEF SocketClean, Clean
    <3> QED
      BY <3>1, <3>2, Zenon
  <2> QED
    BY <2>1, <2>2
<1> QED
  BY <1>1, Zenon DEF SocketClean, Clean

\* A slot that is being driven has an owner, and its socket carries only its request.
LEMMA DrivenIsOwned ==
  ASSUME TypeOK, SocketClean, NEW s \in Slot, Driving(s)
  PROVE  /\ slot[s].owner # NoConn
         /\ slot[s].sock
         /\ Written(s) = <<slot[s].req>>
         /\ slot[s].state # "Receiving" => slot[s].wire = <<>> /\ slot[s].resp = "empty"
         /\ slot[s].resp # "old"
<1>1. slot[s].owner # NoConn
  BY Zenon DEF SocketClean, Driving
<1>2. slot[s].wire = IF slot[s].state = "Receiving" THEN <<slot[s].req>> ELSE <<>>
  BY <1>1, Zenon DEF SocketClean
<1>3. slot[s].sock
  BY Zenon DEF Driving
<1>5. slot[s].resp \in IF slot[s].state = "Receiving" THEN {"empty", "ours"} ELSE {"empty"}
  BY <1>1, Zenon DEF SocketClean
<1>4. Written(s) = <<slot[s].req>>
  <2>1. CASE slot[s].state = "Receiving"
    BY <1>2, <2>1 DEF Written
  <2>2. CASE slot[s].state # "Receiving"
    BY <1>2, <2>2 DEF Written
  <2> QED
    BY <2>1, <2>2
<1> QED
  BY <1>1, <1>2, <1>3, <1>4, <1>5, Zenon

\* Finishing a driven slot, its socket free of requests, keeps the pool's invariant.
LEMMA FinishPool ==
  ASSUME TypeOK, PoolInv, NEW s \in Slot, Driving(s), NEW rec \in SlotRec, NEW ok, NEW audio,
         rec.wire = <<>>, rec.sock => rec.state = "Idle",
         Finish(s, rec, ok, audio)
  PROVE  PoolInv'
<1> DEFINE r == Released(rec)
<1>1. slot' = [slot EXCEPT ![s] = r] /\ free' = Append(free, s)
  BY Zenon DEF Finish
<1>2. r \in SlotRec /\ r.owner = NoConn /\ r.wire = rec.wire /\ r.sock = rec.sock
      /\ r.state = rec.state
  BY NothingType, SlotUpdates, Zenon
<1>3. Clean(r)
  BY <1>2, Zenon DEF Clean
<1> HIDE DEF r
<1>4. slot[s].owner # NoConn
  BY DrivenIsOwned, Zenon DEF PoolInv
<1>5. FreeListExact'
  BY <1>1, <1>2, <1>4, FreePush, Zenon DEF PoolInv
<1>6. SocketClean'
  BY <1>1, <1>3, CleanUpdate, Zenon DEF PoolInv
<1> QED
  BY <1>5, <1>6 DEF PoolInv

\* Updating an owned slot in place keeps the pool's invariant.
LEMMA UpdatePool ==
  ASSUME TypeOK, PoolInv, NEW s \in Slot, NEW r \in SlotRec, Clean(r),
         r.owner = NoConn <=> slot[s].owner = NoConn,
         slot' = [slot EXCEPT ![s] = r], free' = free
  PROVE  PoolInv'
<1>1. SocketClean'
  BY CleanUpdate, Zenon DEF PoolInv
<1>2. ASSUME NEW t \in Slot PROVE slot'[t].owner = NoConn <=> slot[t].owner = NoConn
  BY <1>2 DEF TypeOK
<1>3. FreeListExact'
  BY <1>2, Zenon DEF PoolInv, FreeListExact
<1> QED
  BY <1>1, <1>3 DEF PoolInv

\* submit keeps the pool's invariant.
LEMMA SubmitPool ==
  ASSUME TypeOK, PoolInv, NEW m \in Cmd, PoolSubmit(m)
  PROVE  PoolInv'
<1>0. m.conn \in Conn /\ m.tag \in Nat /\ m.body \in Audio /\ m.conn # NoConn
  BY ConnAssumption DEF Cmd
<1>1. CASE free = <<>>
  <2>1. slot' = slot /\ free' = free
    BY <1>1, Zenon DEF PoolSubmit
  <2> QED
    BY <2>1, Zenon DEF PoolInv, FreeListExact, SocketClean
<1>2. CASE free # <<>>
  <2> DEFINE s == Last(free)
             built == Built(slot[s], m)
             reuse == Sending(built)
             dial  == Dialed(built)
             give  == Released(built)
  <2>1. s \in Slot /\ slot[s].owner = NoConn /\ slot[s] \in SlotRec
    BY <1>2, LastIsFree DEF TypeOK, PoolInv
  <2>2. slot[s].wire = <<>> /\ (slot[s].sock => slot[s].state = "Idle")
    BY <2>1, Zenon DEF PoolInv, SocketClean
  <2>3. \/ slot[s].sock /\ slot' = [slot EXCEPT ![s] = reuse] /\ free' = Front(free)
        \/ slot' = [slot EXCEPT ![s] = dial] /\ free' = Front(free)
        \/ ~slot[s].sock /\ slot' = [slot EXCEPT ![s] = give] /\ free' = free
    BY <1>2, Zenon DEF PoolSubmit
  <2>4. /\ built \in SlotRec /\ built.owner = m.conn /\ built.wire = slot[s].wire
        /\ built.sock = slot[s].sock /\ built.state = slot[s].state /\ built.resp = "empty"
    <3>1. built.resp = "empty"
      BY <2>1, RespFields, Zenon
    <3> QED
      BY <2>1, <3>1, SlotBuilt
  <2> HIDE DEF built
  <2>5. /\ reuse \in SlotRec /\ dial \in SlotRec /\ give \in SlotRec
        /\ reuse.owner = m.conn /\ reuse.wire = <<>> /\ reuse.state = "Sending"
        /\ reuse.sock = slot[s].sock
        /\ dial.owner = m.conn /\ dial.wire = <<>> /\ dial.state = "Connecting"
        /\ give.owner = NoConn /\ give.wire = <<>> /\ give.sock = slot[s].sock
    BY <2>2, <2>4, NothingType, SlotUpdates, Zenon
  <2>10. reuse.resp = "empty" /\ dial.resp = "empty"
    BY <2>4, RespFields, Zenon
  <2>6. dial.sock
    BY <2>4, NothingType, SlotUpdates, Zenon
  <2> HIDE DEF s, reuse, dial, give
  <2>7. CASE slot[s].sock /\ slot' = [slot EXCEPT ![s] = reuse] /\ free' = Front(free)
    <3>1. Clean(reuse)
      BY <1>0, <2>5, <2>7, <2>10 DEF Clean
    <3>2. SocketClean'
      BY <2>1, <2>7, <3>1, CleanUpdate, Zenon DEF PoolInv
    <3>3. FreeListExact'
      BY <1>0, <1>2, <2>5, <2>7, FreePop, Zenon DEF PoolInv, s
    <3> QED
      BY <3>2, <3>3 DEF PoolInv
  <2>8. CASE slot' = [slot EXCEPT ![s] = dial] /\ free' = Front(free)
    <3>1. Clean(dial)
      BY <1>0, <2>5, <2>6, <2>10 DEF Clean
    <3>2. SocketClean'
      BY <2>1, <2>8, <3>1, CleanUpdate, Zenon DEF PoolInv
    <3>3. FreeListExact'
      BY <1>0, <1>2, <2>5, <2>8, FreePop, Zenon DEF PoolInv, s
    <3> QED
      BY <3>2, <3>3 DEF PoolInv
  <2>9. CASE ~slot[s].sock /\ slot' = [slot EXCEPT ![s] = give] /\ free' = free
    <3>1. Clean(give)
      BY <2>5, <2>9, Zenon DEF Clean
    <3> QED
      BY <2>1, <2>5, <2>9, <3>1, UpdatePool, Zenon
  <2> QED
    BY <2>3, <2>7, <2>8, <2>9
<1> QED
  BY <1>1, <1>2

\* abort_owner keeps the pool's invariant.
LEMMA AbortPool ==
  ASSUME TypeOK, PoolInv, NEW c \in Conn, PoolAbort(c)
  PROVE  PoolInv'
<1>1. CASE \E s \in Slot : slot[s].owner = c
  <2>1. PICK s \in Slot :
          /\ slot[s].owner = c
          /\ slot' = [slot EXCEPT ![s] = Released(Dropped(@))]
          /\ free' = Append(free, s)
    BY <1>1, Zenon DEF PoolAbort
  <2> DEFINE r == Released(Dropped(slot[s]))
  <2>2. slot[s] \in SlotRec
    BY DEF TypeOK
  <2>3. r \in SlotRec /\ r.owner = NoConn /\ r.wire = <<>> /\ ~r.sock
    <3>1. Dropped(slot[s]) \in SlotRec /\ Dropped(slot[s]).wire = <<>> /\ ~Dropped(slot[s]).sock
      BY <2>2, NothingType, SlotUpdates, Zenon
    <3> QED
      BY <3>1, ReleasedFields, Zenon
  <2>4. slot' = [slot EXCEPT ![s] = r] /\ free' = Append(free, s) /\ slot[s].owner # NoConn
    BY <2>1, ConnAssumption
  <2> HIDE DEF r
  <2>5. Clean(r)
    BY <2>3, Zenon DEF Clean
  <2>6. SocketClean'
    BY <2>4, <2>5, CleanUpdate, Zenon DEF PoolInv
  <2>7. FreeListExact'
    BY <2>3, <2>4, FreePush, Zenon DEF PoolInv
  <2> QED
    BY <2>6, <2>7 DEF PoolInv
<1>2. CASE ~\E s \in Slot : slot[s].owner = c
  <2>1. slot' = slot /\ free' = free
    BY <1>2, Zenon DEF PoolAbort
  <2> QED
    BY <2>1, Zenon DEF PoolInv, FreeListExact, SocketClean
<1> QED
  BY <1>1, <1>2

\* Every step of either thread keeps the pool's invariant.
LEMMA PoolStep == ASSUME TypeOK, PoolInv, [Next]_vars PROVE PoolInv'
<1>1. CASE UNCHANGED <<slot, free>>
  BY <1>1, Zenon DEF PoolInv, FreeListExact, SocketClean
<1>2. ASSUME NEW s \in Slot, SlotAdvance(s) PROVE PoolInv'
  <2> DEFINE sending == Sending(slot[s])
             receiving == Receiving(slot[s], Written(s))
             part == ReadPart(slot[s])
  <2>1. /\ slot[s] \in SlotRec /\ slot[s].owner # NoConn /\ slot[s].sock
        /\ Written(s) = <<slot[s].req>> /\ slot[s].req \in Audio
        /\ slot[s].state # "Receiving" => slot[s].wire = <<>> /\ slot[s].resp = "empty"
    <3>1. slot[s] \in SlotRec
      BY DEF TypeOK
    <3>2. slot[s].req \in Audio
      BY <3>1 DEF SlotRec
    <3>3. Driving(s)
      BY <1>2, Zenon DEF SlotAdvance
    <3> QED
      BY <3>1, <3>2, <3>3, DrivenIsOwned, Zenon DEF PoolInv
  <2>2. \/ slot[s].state = "Connecting" /\ slot' = [slot EXCEPT ![s] = sending]
        \/ slot[s].state # "Receiving" /\ slot' = [slot EXCEPT ![s] = receiving]
        \/ slot[s].state = "Receiving" /\ slot' = [slot EXCEPT ![s] = part]
    BY <1>2, Zenon DEF SlotAdvance
  <2>3. free' = free
    BY <1>2, Zenon DEF SlotAdvance
  <2>4. /\ sending \in SlotRec /\ receiving \in SlotRec
        /\ sending.owner = slot[s].owner /\ receiving.owner = slot[s].owner
        /\ sending.sock = slot[s].sock /\ receiving.sock = slot[s].sock
        /\ sending.state = "Sending" /\ receiving.state = "Receiving"
        /\ sending.wire = slot[s].wire /\ receiving.wire = <<slot[s].req>>
        /\ receiving.req = slot[s].req
        /\ sending.resp = slot[s].resp /\ receiving.resp = slot[s].resp
    <3>1. Written(s) \in Seq(Audio)
      BY <2>1
    <3>2. /\ sending \in SlotRec /\ sending.owner = slot[s].owner /\ sending.sock = slot[s].sock
          /\ sending.state = "Sending" /\ sending.wire = slot[s].wire
      BY <2>1, NothingType, SlotUpdates, Zenon
    <3>3. /\ receiving \in SlotRec /\ receiving.owner = slot[s].owner
          /\ receiving.sock = slot[s].sock /\ receiving.state = "Receiving"
          /\ receiving.wire = Written(s) /\ receiving.req = slot[s].req
      BY <2>1, <3>1, ReceivingFields, Zenon
    <3>4. sending.resp = slot[s].resp /\ receiving.resp = slot[s].resp
      BY <2>1, RespFields, Zenon
    <3> QED
      BY <2>1, <3>2, <3>3, <3>4, Zenon
  <2>7. /\ part \in SlotRec /\ part.owner = slot[s].owner /\ part.sock = slot[s].sock
        /\ part.state = slot[s].state /\ part.req = slot[s].req /\ part.wire = slot[s].wire
        /\ part.resp = "ours"
    BY <2>1, ReadPartFields, Zenon
  <2> HIDE DEF sending, receiving, part
  <2>5. CASE slot[s].state = "Connecting" /\ slot' = [slot EXCEPT ![s] = sending]
    <3>1. slot[s].wire = <<>> /\ slot[s].resp = "empty"
      BY <2>1, <2>5
    <3>2. Clean(sending)
      BY <2>1, <2>4, <3>1 DEF Clean
    <3> QED
      BY <2>3, <2>4, <2>5, <3>2, UpdatePool, Zenon
  <2>6. CASE slot[s].state # "Receiving" /\ slot' = [slot EXCEPT ![s] = receiving]
    <3>1. Clean(receiving)
      BY <2>1, <2>4, <2>6 DEF Clean
    <3> QED
      BY <2>3, <2>4, <2>6, <3>1, UpdatePool, Zenon
  <2>8. CASE slot[s].state = "Receiving" /\ slot' = [slot EXCEPT ![s] = part]
    <3>1. slot[s].wire = <<slot[s].req>>
      BY <2>1, <2>8 DEF Written
    <3>2. Clean(part)
      BY <2>1, <2>7, <2>8, <3>1 DEF Clean
    <3> QED
      BY <2>1, <2>3, <2>7, <2>8, <3>2, UpdatePool, Zenon
  <2> QED
    BY <2>2, <2>5, <2>6, <2>8
<1>3. ASSUME NEW s \in Slot, SlotRespond(s) PROVE PoolInv'
  <2>1. Driving(s) /\ slot[s] \in SlotRec
    BY <1>3 DEF SlotRespond, TypeOK
  <2>2. PICK ok \in BOOLEAN :
          Finish(s, Answered(slot[s], Tail(Written(s))), ok,
                 IF ok /\ slot[s].resp # "old" THEN Head(Written(s)) ELSE NoAudio)
    BY <1>3, Zenon DEF SlotRespond
  <2>3. Written(s) = <<slot[s].req>>
    BY <2>1, DrivenIsOwned, Zenon DEF PoolInv
  <2>4. Tail(Written(s)) = <<>>
    BY <2>3
  <2> DEFINE rec == Answered(slot[s], Tail(Written(s)))
  <2>5. rec \in SlotRec /\ rec.wire = <<>> /\ rec.state = "Idle"
    <3>1. Tail(Written(s)) \in Seq(Audio)
      BY <2>4, NothingType, Zenon
    <3> QED
      BY <2>1, <2>4, <3>1, AnsweredFields, Zenon
  <2> HIDE DEF rec
  <2> QED
    BY <2>1, <2>2, <2>5, FinishPool, Zenon DEF rec
<1>4. ASSUME NEW s \in Slot, SlotError(s) PROVE PoolInv'
  <2> DEFINE redial == Redialed(slot[s])
             failed == Undialed(slot[s])
             again  == Dropped(slot[s])
  <2>1. Driving(s) /\ slot[s] \in SlotRec
    BY <1>4 DEF SlotError, TypeOK
  <2>2. slot[s].owner # NoConn /\ slot[s].sock
    BY <2>1, DrivenIsOwned, Zenon DEF PoolInv
  <2>3. \/ slot' = [slot EXCEPT ![s] = redial] /\ free' = free
        \/ Finish(s, failed, FALSE, NoAudio)
        \/ Finish(s, again, FALSE, NoAudio)
    BY <1>4, Zenon DEF SlotError
  <2>4. /\ redial \in SlotRec /\ failed \in SlotRec /\ again \in SlotRec
        /\ redial.owner = slot[s].owner /\ redial.sock = slot[s].sock
        /\ redial.state = "Connecting" /\ redial.wire = <<>>
        /\ failed.wire = <<>> /\ ~failed.sock /\ again.wire = <<>> /\ ~again.sock
    BY <2>1, NothingType, SlotUpdates, ZenonT(60)
  <2>7. redial.resp = "empty"
    BY <2>1, RespFields, Zenon
  <2> HIDE DEF redial, failed, again
  <2>5. CASE slot' = [slot EXCEPT ![s] = redial] /\ free' = free
    <3>1. Clean(redial)
      BY <2>2, <2>4, <2>7 DEF Clean
    <3> QED
      BY <2>4, <2>5, <3>1, UpdatePool, Zenon
  <2>6. CASE Finish(s, failed, FALSE, NoAudio) \/ Finish(s, again, FALSE, NoAudio)
    BY <2>1, <2>4, <2>6, FinishPool, Zenon
  <2> QED
    BY <2>3, <2>5, <2>6, Zenon
<1>5. ASSUME NEW s \in Slot, SlotProbe(s) PROVE PoolInv'
  <2> DEFINE r == Dropped(slot[s])
  <2>1. slot[s] \in SlotRec
    BY DEF TypeOK
  <2>2. r \in SlotRec /\ r.owner = slot[s].owner /\ r.wire = <<>> /\ ~r.sock
    BY <2>1, NothingType, SlotUpdates, Zenon
  <2>3. slot' = [slot EXCEPT ![s] = r] /\ free' = free
    BY <1>5, Zenon DEF SlotProbe
  <2>4. slot[s].owner = NoConn
    BY <1>5, Zenon DEF SlotProbe, PoolInv, SocketClean
  <2> HIDE DEF r
  <2>5. Clean(r)
    BY <2>2, <2>4, Zenon DEF Clean
  <2> QED
    BY <2>2, <2>3, <2>5, UpdatePool, Zenon
<1>6. CASE Command
  <2> DEFINE m == Head(cmds)
  <2>1. m \in Cmd
    BY <1>6 DEF Command, TypeOK
  <2>2. m.conn \in Conn
    BY <2>1 DEF Cmd
  <2>3. PoolSubmit(m) \/ PoolAbort(m.conn)
    BY <1>6 DEF Command
  <2> HIDE DEF m
  <2> QED
    BY <2>1, <2>2, <2>3, SubmitPool, AbortPool, Zenon
<1>7. ThreadA \/ EventsEnd \/ CommandsEnd \/ UNCHANGED vars => UNCHANGED <<slot, free>>
  BY ZenonT(60) DEF ThreadA, Poll, DrainBegin, DrainOne, DrainEnd, TimersBegin, TimersEnd, ClosingEnd,
        Accept, Handshake, OnReadable, OnWritable, TimerFlush, TimerTimeout, Remove,
        EventsEnd, CommandsEnd, vars, bVars
<1> QED
  BY <1>1, <1>2, <1>3, <1>4, <1>5, <1>6, <1>7 DEF Next, ThreadB

\* A fresh pool satisfies the invariant.
LEMMA PoolInit == Init => PoolInv
<1> SUFFICES ASSUME Init PROVE PoolInv
  OBVIOUS
<1>1. ASSUME NEW s \in Slot PROVE slot[s] = NewSlot
  BY DEF Init
<1>2. NewSlot.owner = NoConn /\ NewSlot.wire = <<>> /\ ~NewSlot.sock
  BY DEF NewSlot
<1>3. SocketClean
  BY <1>1, <1>2, Zenon DEF SocketClean
<1>4. FreeListExact
  BY <1>1, <1>2, Zenon DEF FreeListExact, Init
<1> QED
  BY <1>3, <1>4 DEF PoolInv

\* For any number of slots: no slot is lent twice or lost, whatever the two threads,
\* the server and the network do.
THEOREM FreeListIsExact == Spec => []FreeListExact
<1>1. TypeOK /\ PoolInv /\ [Next]_vars => PoolInv'
  BY PoolStep
<1>2. PoolInv => FreeListExact
  BY DEF PoolInv
<1> QED
  BY <1>1, <1>2, PoolInit, TypeCorrect, PTL DEF Spec

\* For any number of slots: a keep-alive socket passed on owes no response, and a
\* slot at work reads the response of its own request.
THEOREM SocketsAreClean == Spec => []SocketClean
<1>1. TypeOK /\ PoolInv /\ [Next]_vars => PoolInv'
  BY PoolStep
<1>2. PoolInv => SocketClean
  BY DEF PoolInv
<1> QED
  BY <1>1, <1>2, PoolInit, TypeCorrect, PTL DEF Spec
-----------------------------------------------------------------------------
\* The wake-up: A looks at RESULT only in the iteration whose poll returned it.
WakeInv == NoLostWake /\ (ready => aPc = "events")

\* Thread B announces what it sends before it sleeps again.
LEMMA SubmitAnnounces ==
  ASSUME NEW m, PoolSubmit(m)
  PROVE  produced' \/ (dones' = dones /\ produced' = produced)
<1>1. ASSUME NEW c, NEW t, NEW ok, NEW a, PushDone(c, t, ok, a) PROVE produced'
  BY <1>1, Zenon DEF PushDone
<1> QED
  BY <1>1, Zenon DEF PoolSubmit

LEMMA FinishAnnounces ==
  ASSUME NEW s, NEW rec, NEW ok, NEW a, Finish(s, rec, ok, a)
  PROVE  produced' \/ (dones' = dones /\ produced' = produced)
BY Zenon DEF Finish, PushDone

LEMMA WakeB == ASSUME WakeInv, ThreadB PROVE WakeInv'
<1>1. ASSUME /\ produced' \/ (dones' = dones /\ produced' = produced)
             /\ wake' = wake /\ ready' = ready /\ aPc' = aPc
      PROVE  WakeInv'
  BY <1>1, Zenon DEF WakeInv, NoLostWake
<1>2. CASE EventsEnd
  BY <1>1, <1>2, Zenon DEF EventsEnd, aVars
<1>3. CASE Command
  <2>1. produced' \/ (dones' = dones /\ produced' = produced)
    BY <1>3, SubmitAnnounces, Zenon DEF Command, PoolAbort
  <2> QED
    BY <1>1, <1>3, <2>1, Zenon DEF Command, aVars
<1>4. CASE CommandsEnd
  <2>1. dones' = dones /\ ready' = ready /\ aPc' = aPc /\ wake' = (wake \/ produced)
    BY <1>4, Zenon DEF CommandsEnd, aVars
  <2> QED
    BY <2>1, Zenon DEF WakeInv, NoLostWake
<1>5. ASSUME NEW s \in Slot, SlotAdvance(s) \/ SlotProbe(s) PROVE WakeInv'
  BY <1>1, <1>5, Zenon DEF SlotAdvance, SlotProbe, aVars
<1>6. ASSUME NEW s \in Slot, SlotRespond(s) PROVE WakeInv'
  BY <1>1, <1>6, FinishAnnounces, Zenon DEF SlotRespond, aVars
<1>7. ASSUME NEW s \in Slot, SlotError(s) PROVE WakeInv'
  BY <1>1, <1>7, FinishAnnounces, Zenon DEF SlotError, aVars
<1> QED
  BY <1>2, <1>3, <1>4, <1>5, <1>6, <1>7, Zenon DEF ThreadB

LEMMA WakeA == ASSUME WakeInv, ThreadA PROVE WakeInv'
<1>1. ASSUME produced' = produced, wake' = wake, ready' = ready, aPc' = aPc, dones' = dones
      PROVE  WakeInv'
  BY <1>1, Zenon DEF WakeInv, NoLostWake
<1>2. CASE Poll
  <2>1. /\ aPc = "poll" /\ aPc' = "events" /\ ready' = wake
        /\ dones' = dones /\ produced' = produced
    BY <1>2, Zenon DEF Poll, bVars
  <2>2. ~ready /\ aPc # "drain"
    BY <2>1 DEF WakeInv
  <2> QED
    BY <2>1, <2>2, Zenon DEF WakeInv, NoLostWake
<1>3. CASE DrainBegin
  BY <1>3, Zenon DEF DrainBegin, bVars, WakeInv, NoLostWake
<1>4. CASE DrainOne
  <2>1. aPc = "drain" /\ aPc' = aPc /\ ready' = ready
    BY <1>4, Zenon DEF DrainOne
  <2> QED
    BY <2>1, Zenon DEF WakeInv, NoLostWake
<1>5. CASE DrainEnd
  <2>1. dones = <<>> /\ dones' = dones /\ aPc' = "events"
    BY <1>5, Zenon DEF DrainEnd
  <2> QED
    BY <2>1, Zenon DEF WakeInv, NoLostWake
<1>6. CASE TimersBegin
  <2>1. /\ aPc = "events" /\ ~ready /\ ready' = ready /\ wake' = wake
        /\ dones' = dones /\ produced' = produced
    BY <1>6, Zenon DEF TimersBegin, bVars
  <2>2. aPc # "drain"
    BY <2>1
  <2> QED
    BY <2>1, <2>2, Zenon DEF WakeInv, NoLostWake
<1>7. CASE TimersEnd \/ ClosingEnd
  <2>1. /\ aPc \in {"timers", "closing"} /\ ready' = ready /\ wake' = wake
        /\ dones' = dones /\ produced' = produced
    BY <1>7, Zenon DEF TimersEnd, ClosingEnd, bVars
  <2>2. aPc # "drain" /\ aPc # "events"
    BY <2>1
  <2> QED
    BY <2>1, <2>2, Zenon DEF WakeInv, NoLostWake
<1>8. ASSUME NEW c \in Conn, Accept(c) \/ Handshake(c) \/ OnWritable(c) PROVE WakeInv'
  BY <1>1, <1>8, Zenon DEF Accept, Handshake, OnWritable, bVars
<1>9. ASSUME NEW c \in Conn, NEW m \in Inbound, OnReadable(c, m) PROVE WakeInv'
  BY <1>1, <1>9, Zenon DEF OnReadable, bVars
<1>10. ASSUME NEW c \in Conn, TimerFlush(c) \/ TimerTimeout(c) \/ Remove(c) PROVE WakeInv'
  BY <1>1, <1>10, Zenon DEF TimerFlush, TimerTimeout, Remove, bVars
<1> QED
  BY <1>2, <1>3, <1>4, <1>5, <1>6, <1>7, <1>8, <1>9, <1>10, Zenon DEF ThreadA

\* A result never waits unannounced in the channel to thread A (inference.rs, the
\* `produced` flag; main.rs, the RESULT event): for any number of connections,
\* slots and frames, A is draining, is about to, or will be woken.
THEOREM NoWakeIsLost == Spec => []NoLostWake
<1>1. Init => WakeInv
  BY Zenon DEF Init, WakeInv, NoLostWake
<1>2. WakeInv /\ [Next]_vars => WakeInv'
  <2>1. ASSUME WakeInv, UNCHANGED vars PROVE WakeInv'
    BY <2>1, Zenon DEF vars, WakeInv, NoLostWake
  <2> QED
    BY <2>1, WakeA, WakeB DEF Next
<1>3. WakeInv => NoLostWake
  BY DEF WakeInv
<1> QED
  BY <1>1, <1>2, <1>3, PTL DEF Spec
-----------------------------------------------------------------------------
(* Where a request of connection c with tag t can be. *)

Sub(q, i, c, t) == i \in DOMAIN q /\ q[i].op = "submit" /\ q[i].conn = c /\ q[i].tag = t
Abt(q, i, c)    == i \in DOMAIN q /\ q[i].op = "abort" /\ q[i].conn = c
Own(f, s, c, t) == s \in Slot /\ f[s].owner = c /\ f[s].tag = t
Ans(d, k, c, t) == k \in DOMAIN d /\ d[k].conn = c /\ d[k].tag = t

\* Connection c waits for the batch with tag t.
Live(c, t) == c \in conns /\ pending[c].oldest = t

\* The last frame of c that has left its buffer.
Flushed(c) == seq[c] - Len(meta[c])

\* The buffer of a connection is what follows the frames that have left it, and the
\* batch at inference ends there; only a connection in the map has one.
BufferInv ==
  /\ closing \subseteq conns
  /\ \A c \in Conn :
       /\ Len(meta[c]) <= seq[c]
       /\ \A i \in DOMAIN meta[c] : meta[c][i] = Flushed(c) + i
       /\ pending[c] # NoBatch => /\ c \in conns
                                  /\ 1 <= pending[c].oldest
                                  /\ pending[c].oldest <= pending[c].newest
                                  /\ pending[c].newest = Flushed(c)
       /\ phase[c] \in {"none", "http", "ws"} => seq[c] = 0 /\ pending[c] = NoBatch

-----------------------------------------------------------------------------
(* How the places of a request change when the channels and the pool do. *)

\* A request of c for tag v and the audio a reaches the channel, behind all others.
Submitted(c, v, a) ==
  \E n \in Nat :
    /\ \A i \in Nat : \A d, t : Sub(cmds', i, d, t) <=>
         Sub(cmds, i, d, t) \/ (i = n /\ d = c /\ t = v)
    /\ \A i \in Nat : \A d : Abt(cmds', i, d) <=> Abt(cmds, i, d)
    /\ \A i \in Nat : \A d, t : Sub(cmds, i, d, t) => i < n /\ cmds'[i] = cmds[i]
    /\ \A i \in Nat : \A d : Abt(cmds, i, d) => i < n
    /\ cmds'[n].body = a

\* Thread A does that when it appends a submit to the channel.
LEMMA SubmitView ==
  ASSUME TypeOK, NEW c \in Conn, NEW b, cmds' = Append(cmds, Submit(c, b))
  PROVE  Submitted(c, b.oldest, AudioOf(c, b))
<1> DEFINE m == Submit(c, b)
           n == Len(cmds) + 1
<1>1. /\ cmds \in Seq(Cmd) /\ Len(cmds) \in Nat /\ DOMAIN cmds = 1 .. Len(cmds)
      /\ DOMAIN cmds' = 1 .. Len(cmds) + 1
      /\ \A i \in 1 .. Len(cmds) : cmds'[i] = cmds[i]
      /\ cmds'[Len(cmds) + 1] = m
  BY DEF TypeOK
<1>2. m.op = "submit" /\ m.conn = c /\ m.tag = b.oldest /\ m.body = AudioOf(c, b)
  BY DEF Submit, Tag
<1> HIDE DEF m
<1>3. /\ n \in Nat /\ cmds'[n].body = AudioOf(c, b)
      /\ \A i \in Nat : \A d, t : Sub(cmds', i, d, t) <=>
           Sub(cmds, i, d, t) \/ (i = n /\ d = c /\ t = b.oldest)
      /\ \A i \in Nat : \A d : Abt(cmds', i, d) <=> Abt(cmds, i, d)
      /\ \A i \in Nat : \A d, t : Sub(cmds, i, d, t) => i < n /\ cmds'[i] = cmds[i]
      /\ \A i \in Nat : \A d : Abt(cmds, i, d) => i < n
  BY <1>1, <1>2 DEF Sub, Abt
<1> QED
  BY <1>3, Zenon DEF Submitted

\* An abort comes behind all requests in the channel and moves none of them.
LEMMA AbortView ==
  ASSUME TypeOK, NEW c \in Conn, cmds' = Append(cmds, Abort(c))
  PROVE  \E n \in Nat :
           /\ \A i \in Nat : \A d, t : Sub(cmds', i, d, t) <=> Sub(cmds, i, d, t)
           /\ \A i \in Nat : \A d : Abt(cmds', i, d) <=> Abt(cmds, i, d) \/ (i = n /\ d = c)
           /\ \A i \in Nat : \A d, t : Sub(cmds, i, d, t) => i < n /\ cmds'[i] = cmds[i]
<1> DEFINE m == Abort(c)
           n == Len(cmds) + 1
<1>1. /\ cmds \in Seq(Cmd) /\ Len(cmds) \in Nat /\ DOMAIN cmds = 1 .. Len(cmds)
      /\ DOMAIN cmds' = 1 .. Len(cmds) + 1
      /\ \A i \in 1 .. Len(cmds) : cmds'[i] = cmds[i]
      /\ cmds'[Len(cmds) + 1] = m
  BY DEF TypeOK
<1>2. m.op = "abort" /\ m.conn = c
  BY DEF Abort
<1> HIDE DEF m
<1>3. /\ n \in Nat
      /\ \A i \in Nat : \A d, t : Sub(cmds', i, d, t) <=> Sub(cmds, i, d, t)
      /\ \A i \in Nat : \A d : Abt(cmds', i, d) <=> Abt(cmds, i, d) \/ (i = n /\ d = c)
      /\ \A i \in Nat : \A d, t : Sub(cmds, i, d, t) => i < n /\ cmds'[i] = cmds[i]
  BY <1>1, <1>2 DEF Sub, Abt
<1> QED
  BY <1>3, Zenon

\* Taking the first command moves every other one place forward.
LEMMA PopView ==
  ASSUME TypeOK, cmds # <<>>, cmds' = Tail(cmds)
  PROVE  /\ \A i \in Nat : \A d, t : Sub(cmds', i, d, t) <=> i >= 1 /\ Sub(cmds, i + 1, d, t)
         /\ \A i \in Nat : \A d : Abt(cmds', i, d) <=> i >= 1 /\ Abt(cmds, i + 1, d)
         /\ \A i \in DOMAIN cmds' : cmds'[i] = cmds[i + 1]
         /\ \A i \in Nat : \A d, t :
              Sub(cmds, i, d, t) => i = 1 \/ (i - 1 \in Nat \ {0} /\ Sub(cmds', i - 1, d, t))
         /\ \A i \in Nat : \A d :
              Abt(cmds, i, d) => i = 1 \/ (i - 1 \in Nat \ {0} /\ Abt(cmds', i - 1, d))
<1>1. /\ cmds \in Seq(Cmd) /\ Len(cmds) \in Nat \ {0} /\ DOMAIN cmds = 1 .. Len(cmds)
      /\ DOMAIN cmds' = 1 .. Len(cmds) - 1
      /\ \A i \in 1 .. Len(cmds) - 1 : cmds'[i] = cmds[i + 1]
  BY DEF TypeOK
<1> QED
  BY <1>1 DEF Sub, Abt

\* A result for c and tag u reaches the channel; if it is a success its audio is a.
Reported(c, u, a) ==
  \E n \in Nat :
    /\ \A k \in Nat : \A d, t :
         Ans(dones', k, d, t) <=> Ans(dones, k, d, t) \/ (k = n /\ d = c /\ t = u)
    /\ \A k \in Nat : \A d, t : Ans(dones, k, d, t) => k # n /\ dones'[k] = dones[k]
    /\ dones'[n].audio = IF dones'[n].ok THEN a ELSE NoAudio

\* Thread B does that when it appends an answer to the channel.
LEMMA ReportView ==
  ASSUME TypeOK, NEW m, NEW a, dones' = Append(dones, m),
         m.audio = IF m.ok THEN a ELSE NoAudio
  PROVE  Reported(m.conn, m.tag, a)
<1>1. /\ dones \in Seq(Done) /\ Len(dones) \in Nat /\ DOMAIN dones = 1 .. Len(dones)
      /\ DOMAIN dones' = 1 .. Len(dones) + 1
      /\ \A i \in 1 .. Len(dones) : dones'[i] = dones[i]
      /\ dones'[Len(dones) + 1] = m
  BY DEF TypeOK
<1>2. /\ \A k \in Nat : \A d, t : Ans(dones', k, d, t) <=>
           Ans(dones, k, d, t) \/ (k = Len(dones) + 1 /\ d = m.conn /\ t = m.tag)
      /\ \A k \in Nat : \A d, t : Ans(dones, k, d, t) => k # Len(dones) + 1 /\ dones'[k] = dones[k]
  BY <1>1 DEF Ans
<1>3. Len(dones) + 1 \in Nat
  BY <1>1
<1>4. dones'[Len(dones) + 1].audio = IF dones'[Len(dones) + 1].ok THEN a ELSE NoAudio
  BY <1>1, Zenon
<1> QED
  BY <1>2, <1>3, <1>4, Zenon DEF Reported

\* Taking the first answer moves every other one place forward.
LEMMA TakeView ==
  ASSUME TypeOK, dones # <<>>, dones' = Tail(dones)
  PROVE  /\ \A k \in Nat : \A d, t : Ans(dones', k, d, t) <=> k >= 1 /\ Ans(dones, k + 1, d, t)
         /\ \A k \in DOMAIN dones' : dones'[k] = dones[k + 1]
         /\ \A k \in Nat : \A d, t :
              Ans(dones, k, d, t) => k = 1 \/ (k - 1 \in Nat \ {0} /\ Ans(dones', k - 1, d, t))
         /\ Ans(dones, 1, Head(dones).conn, Head(dones).tag) /\ Head(dones) = dones[1]
<1>1. /\ dones \in Seq(Done) /\ Len(dones) \in Nat \ {0} /\ DOMAIN dones = 1 .. Len(dones)
      /\ DOMAIN dones' = 1 .. Len(dones) - 1
      /\ \A i \in 1 .. Len(dones) - 1 : dones'[i] = dones[i + 1]
      /\ Head(dones) = dones[1]
  BY DEF TypeOK
<1> QED
  BY <1>1 DEF Ans

\* No slot changes hands.
SameOwners ==
  \A r \in Slot, d \in Conn, t \in Nat :
    /\ Own(slot', r, d, t) <=> Own(slot, r, d, t)
    /\ Own(slot, r, d, t) => slot'[r].req = slot[r].req

\* Slot s goes to connection c, for tag u and the audio a.
Lent(s, c, u, a) ==
  /\ \A r \in Slot, d \in Conn, t \in Nat :
       /\ Own(slot', r, d, t) <=> Own(slot, r, d, t) \/ (r = s /\ d = c /\ t = u)
       /\ Own(slot, r, d, t) => slot'[r].req = slot[r].req
  /\ slot'[s].req = a

\* Slot s is given back.
Returned(s) ==
  \A r \in Slot, d \in Conn, t \in Nat :
    /\ Own(slot', r, d, t) <=> Own(slot, r, d, t) /\ r # s
    /\ Own(slot, r, d, t) => r = s \/ slot'[r].req = slot[r].req

\* A slot that keeps its request, or stays unowned, changes no owner.
LEMMA UpdateOwners ==
  ASSUME TypeOK, NEW s \in Slot, NEW r \in SlotRec, slot' = [slot EXCEPT ![s] = r],
         \/ r.owner = slot[s].owner /\ r.tag = slot[s].tag /\ r.req = slot[s].req
         \/ r.owner = NoConn /\ slot[s].owner = NoConn
  PROVE  SameOwners
<1>1. slot'[s] = r /\ \A x \in Slot : x # s => slot'[x] = slot[x]
  BY DEF TypeOK
<1> QED
  BY <1>1, ConnAssumption DEF SameOwners, Own

\* submit refuses the request or lends it a slot.
LEMMA SubmitOutcome ==
  ASSUME TypeOK, PoolInv, NEW m \in Cmd, PoolSubmit(m)
  PROVE  \/ /\ SameOwners
            /\ dones' = Append(dones, [conn |-> m.conn, tag |-> m.tag, ok |-> FALSE,
                                       audio |-> NoAudio])
         \/ \E s \in Slot : Lent(s, m.conn, m.tag, m.body) /\ dones' = dones
<1>0. m.conn \in Conn /\ m.tag \in Nat /\ m.body \in Audio /\ m.conn # NoConn
  BY ConnAssumption DEF Cmd
<1>1. CASE free = <<>>
  BY <1>1 DEF PoolSubmit, PushDone, SameOwners
<1>2. CASE free # <<>>
  <2> DEFINE s == Last(free)
             built == Built(slot[s], m)
             reuse == Sending(built)
             dial  == Dialed(built)
             give  == Released(built)
  <2>1. s \in Slot /\ slot[s].owner = NoConn /\ slot[s] \in SlotRec
    BY <1>2, LastIsFree DEF TypeOK, PoolInv
  <2>2. \/ slot' = [slot EXCEPT ![s] = reuse] /\ dones' = dones
        \/ slot' = [slot EXCEPT ![s] = dial] /\ dones' = dones
        \/ /\ slot' = [slot EXCEPT ![s] = give]
           /\ dones' = Append(dones, [conn |-> m.conn, tag |-> m.tag, ok |-> FALSE,
                                      audio |-> NoAudio])
    BY <1>2, Zenon DEF PoolSubmit, PushDone
  <2>3. built \in SlotRec /\ built.owner = m.conn /\ built.tag = m.tag /\ built.req = m.body
    BY <2>1, SlotBuilt
  <2> HIDE DEF built
  <2>4. /\ reuse.owner = m.conn /\ reuse.tag = m.tag /\ reuse.req = m.body
        /\ dial.owner = m.conn /\ dial.tag = m.tag /\ dial.req = m.body
        /\ give \in SlotRec /\ give.owner = NoConn
    BY <2>3, NothingType, SlotUpdates, Zenon
  <2> HIDE DEF s, reuse, dial, give
  <2>5. ASSUME NEW r, slot' = [slot EXCEPT ![s] = r],
               r.owner = m.conn, r.tag = m.tag, r.req = m.body
        PROVE  Lent(s, m.conn, m.tag, m.body)
    <3>1. slot'[s] = r /\ \A x \in Slot : x # s => slot'[x] = slot[x]
      BY <2>1, <2>5 DEF TypeOK
    <3> QED
      BY <2>1, <2>5, <3>1, ConnAssumption, ZenonT(60) DEF Lent, Own
  <2> QED
    BY <2>1, <2>2, <2>4, <2>5, UpdateOwners, Zenon
<1> QED
  BY <1>1, <1>2, Zenon

\* Giving a slot back changes nothing for the other slots.
LEMMA ReturnOwners ==
  ASSUME TypeOK, NEW s \in Slot, NEW r, slot' = [slot EXCEPT ![s] = r], r.owner = NoConn
  PROVE  Returned(s)
<1>1. slot'[s] = r /\ \A x \in Slot : x # s => slot'[x] = slot[x]
  BY DEF TypeOK
<1> QED
  BY <1>1, ConnAssumption DEF Returned, Own

\* abort_owner takes back the slot of c, if it has one.
LEMMA AbortOutcome ==
  ASSUME TypeOK, NEW c \in Conn, PoolAbort(c)
  PROVE  /\ dones' = dones
         /\ \/ SameOwners /\ \A s \in Slot : slot[s].owner # c
            \/ \E s \in Slot : slot[s].owner = c /\ Returned(s)
<1>1. dones' = dones
  BY Zenon DEF PoolAbort
<1>2. CASE \E s \in Slot : slot[s].owner = c
  <2>1. PICK s \in Slot :
          /\ slot[s].owner = c
          /\ slot' = [slot EXCEPT ![s] = Released(Dropped(@))]
    BY <1>2, Zenon DEF PoolAbort
  <2> DEFINE r == Released(Dropped(slot[s]))
  <2>2. slot[s] \in SlotRec
    BY DEF TypeOK
  <2>3. r.owner = NoConn
    BY <2>2, NothingType, SlotUpdates, Zenon
  <2>4. slot' = [slot EXCEPT ![s] = r]
    BY <2>1
  <2> HIDE DEF r
  <2> QED
    BY <1>1, <2>1, <2>3, <2>4, ReturnOwners, Zenon
<1>3. CASE ~\E s \in Slot : slot[s].owner = c
  <2>1. slot' = slot
    BY <1>3, Zenon DEF PoolAbort
  <2> QED
    BY <1>1, <1>3, <2>1 DEF SameOwners
<1> QED
  BY <1>2, <1>3

\* A slot that finishes is given back, and its result goes to its owner.
LEMMA FinishOutcome ==
  ASSUME TypeOK, PoolInv, NEW s \in Slot, Driving(s), NEW rec \in SlotRec, NEW ok, NEW audio,
         Finish(s, rec, ok, audio)
  PROVE  /\ slot[s].owner \in Conn /\ slot[s].tag \in Nat
         /\ Returned(s)
         /\ dones' = Append(dones, [conn |-> slot[s].owner, tag |-> slot[s].tag, ok |-> ok,
                                    audio |-> audio])
<1>1. slot[s].owner # NoConn
  BY DrivenIsOwned, Zenon DEF PoolInv
<1>2. slot[s].owner \in Conn /\ slot[s].tag \in Nat
  BY <1>1 DEF TypeOK, SlotRec
<1>3. slot' = [slot EXCEPT ![s] = Released(rec)]
  BY Zenon DEF Finish
<1>4. Released(rec).owner = NoConn
  BY NothingType, SlotUpdates, Zenon
<1>5. Returned(s)
  BY <1>3, <1>4, ReturnOwners, Zenon
<1> QED
  BY <1>1, <1>2, <1>5, Zenon DEF Finish, PushDone
-----------------------------------------------------------------------------
(* The buffers. *)

\* What a handler that ends in Keep, Shut or flush_ws does to the phases and to closing.
LEMMA OutcomeView ==
  ASSUME TypeOK, NEW c \in Conn, NEW p, NEW k, Keep(c, p) \/ Shut(c, k)
  PROVE  /\ phase'[c] = p \/ phase'[c] = "closed"
         /\ \A d \in Conn : d # c => phase'[d] = phase[d]
         /\ closing' \subseteq closing \cup {c}
BY DEF Keep, Shut, TypeOK

\* A step that leaves the buffers and the batches alone, drops no connection that has a
\* batch and moves no connection to an early phase.
LEMMA BufferSame ==
  ASSUME TypeOK, BufferInv, UNCHANGED <<seq, meta, pending>>,
         closing' \subseteq conns',
         \A c \in Conn : c \in conns /\ c \notin conns' => pending[c] = NoBatch,
         \A c \in Conn : \/ phase'[c] = phase[c]
                         \/ phase[c] \in {"none", "http", "ws"}
                         \/ phase'[c] \notin {"none", "http", "ws"}
  PROVE  BufferInv'
BY DEF BufferInv, Flushed

\* The buffer of c becomes the batch b.
LEMMA FlushView ==
  ASSUME TypeOK, BufferInv, NEW c \in Conn, TimerFlush(c)
  PROVE  \E b \in Batch :
           /\ b.oldest = Flushed(c) + 1 /\ b.newest = seq[c] /\ b.oldest <= b.newest
           /\ cmds' = Append(cmds, Submit(c, b))
           /\ pending' = [pending EXCEPT ![c] = b]
           /\ Flushed(c)' = seq[c] /\ Flushed(c) \in Nat
           /\ \A d \in Conn : d # c => Flushed(d)' = Flushed(d)
<1> DEFINE b == [oldest |-> meta[c][1], newest |-> meta[c][Len(meta[c])]]
<1>1. /\ meta[c] \in Seq(Nat) /\ meta[c] # <<>> /\ seq[c] \in Nat
      /\ Len(meta[c]) \in Nat \ {0} /\ DOMAIN meta[c] = 1 .. Len(meta[c])
      /\ Len(meta[c]) <= seq[c]
  BY DEF TypeOK, BufferInv, TimerFlush
<1>2. /\ meta[c][1] = Flushed(c) + 1 /\ meta[c][Len(meta[c])] = seq[c]
      /\ Flushed(c) \in Nat /\ Flushed(c) + 1 <= seq[c]
  BY <1>1 DEF BufferInv, Flushed
<1>3. cmds' = Append(cmds, Submit(c, b)) /\ pending' = [pending EXCEPT ![c] = b]
  BY Zenon DEF TimerFlush
<1>4. b \in Batch /\ b.oldest = Flushed(c) + 1 /\ b.newest = seq[c] /\ b.oldest <= b.newest
  BY <1>1, <1>2 DEF Batch
<1>5. /\ Flushed(c)' = seq[c] /\ Flushed(c) \in Nat
      /\ \A d \in Conn : d # c => Flushed(d)' = Flushed(d)
  BY <1>1, <1>2 DEF TimerFlush, Flushed, TypeOK
<1> HIDE DEF b
<1> QED
  BY <1>3, <1>4, <1>5, Zenon

\* A batch is taken out: by an answer, a timeout or the removal of its connection.
LEMMA BufferAnswer ==
  ASSUME TypeOK, BufferInv, NEW c \in Conn, pending' = [pending EXCEPT ![c] = NoBatch],
         UNCHANGED <<seq, meta>>, closing' \subseteq conns',
         \A d \in Conn : d \in conns /\ d \notin conns' => d = c,
         \A d \in Conn : \/ phase'[d] = phase[d]
                         \/ phase'[d] \notin {"none", "http", "ws"}
  PROVE  BufferInv'
<1>1. \A d \in Conn : pending'[d] = IF d = c THEN NoBatch ELSE pending[d]
  BY DEF TypeOK
<1> QED
  BY <1>1 DEF BufferInv, Flushed

\* Deliver closes the connection or leaves its phase.
LEMMA DeliverView ==
  ASSUME TypeOK, NEW c \in Conn, NEW ok, NEW audio, Deliver(c, ok, audio)
  PROVE  /\ pending' = [pending EXCEPT ![c] = NoBatch]
         /\ \A d \in Conn : phase'[d] = phase[d] \/ phase'[d] = "closed"
         /\ closing' \subseteq closing \cup {c}
<1>1. CASE phase[c] = "started"
  BY <1>1, OutcomeView, Zenon DEF Deliver, FlushWs
<1>2. CASE phase[c] # "started"
  BY <1>2, Zenon DEF Deliver
<1> QED
  BY <1>1, <1>2

\* A frame joins the buffer of c.
Buffered(c) ==
  /\ seq' = [seq EXCEPT ![c] = @ + 1]
  /\ meta' = [meta EXCEPT ![c] = Append(@, seq[c] + 1)]

\* A message is read: the connection goes on or is closed, and its buffer may have grown.
LEMMA ReadView ==
  ASSUME TypeOK, NEW c \in Conn, NEW m \in Inbound, OnReadable(c, m)
  PROVE  /\ c \in conns /\ UNCHANGED <<pending, conns, cmds, dones, slot, out>>
         /\ phase'[c] = "started" \/ phase'[c] = "closed"
         /\ \A d \in Conn : d # c => phase'[d] = phase[d]
         /\ closing' \subseteq closing \cup {c}
         /\ UNCHANGED <<seq, meta>> \/ (phase[c] = "started" /\ Buffered(c))
<1>1. /\ c \in conns /\ UNCHANGED <<pending, conns, cmds, dones, slot, out>>
      /\ UNCHANGED <<seq, meta>> \/ (phase[c] = "started" /\ Buffered(c))
  BY DEF OnReadable, Buffered, bVars
<1>2. \/ Keep(c, "started") \/ Shut(c, 0) \/ Shut(c, 1002) \/ Shut(c, 1003)
  BY ZenonT(60) DEF OnReadable, FlushWs
<1> QED
  BY <1>1, <1>2, OutcomeView

\* What that does to the buffers.
LEMMA FrameView ==
  ASSUME TypeOK, BufferInv, NEW c \in Conn, Buffered(c)
  PROVE  /\ \A d \in Conn : Flushed(d)' = Flushed(d)
         /\ \A d \in Conn : Len(meta'[d]) <= seq'[d]
         /\ \A d \in Conn : \A i \in DOMAIN meta'[d] : meta'[d][i] = Flushed(d) + i
<1>1. /\ meta[c] \in Seq(Nat) /\ seq[c] \in Nat
      /\ meta'[c] = Append(meta[c], seq[c] + 1) /\ seq'[c] = seq[c] + 1
      /\ \A d \in Conn : d # c => meta'[d] = meta[d] /\ seq'[d] = seq[d]
  BY DEF TypeOK, Buffered
<1>2. PICK q \in Nat, n \in Nat : q = seq[c] /\ n = Len(meta[c])
  BY <1>1
<1>3. /\ Len(meta'[c]) = n + 1 /\ DOMAIN meta'[c] = 1 .. n + 1 /\ DOMAIN meta[c] = 1 .. n
      /\ meta'[c][n + 1] = q + 1
      /\ \A i \in 1 .. n : meta'[c][i] = meta[c][i]
  BY <1>1, <1>2
<1>4. seq'[c] = q + 1 /\ \A d \in Conn : d # c => meta'[d] = meta[d] /\ seq'[d] = seq[d]
  BY <1>1, <1>2
<1>5. Flushed(c) = q - n /\ Flushed(c)' = (q + 1) - (n + 1)
  BY <1>2, <1>3, <1>4 DEF Flushed
<1>6. \A d \in Conn : Flushed(d)' = Flushed(d)
  <2>1. Flushed(c)' = Flushed(c)
    BY <1>5
  <2> QED
    BY <1>4, <2>1, Zenon DEF Flushed
<1>7. n <= q /\ \A i \in 1 .. n : meta[c][i] = Flushed(c) + i
  BY <1>2, <1>3 DEF BufferInv
<1>8. \A i \in 1 .. n + 1 : meta'[c][i] = Flushed(c) + i
  <2> SUFFICES ASSUME NEW i \in 1 .. n + 1 PROVE meta'[c][i] = Flushed(c) + i
    OBVIOUS
  <2>1. CASE i = n + 1
    BY <1>3, <1>5, <2>1
  <2>2. CASE i \in 1 .. n
    BY <1>3, <1>7, <2>2, Zenon
  <2> QED
    BY <2>1, <2>2
<1>9. \A d \in Conn : d # c => /\ Len(meta'[d]) <= seq'[d]
                             /\ \A i \in DOMAIN meta'[d] : meta'[d][i] = Flushed(d) + i
  BY <1>4 DEF BufferInv
<1>10. Len(meta'[c]) <= seq'[c]
  BY <1>3, <1>4, <1>7
<1>11. \A i \in DOMAIN meta'[c] : meta'[c][i] = Flushed(c) + i
  BY <1>3, <1>8, Zenon
<1> QED
  BY <1>6, <1>9, <1>10, <1>11, Zenon

\* Every step keeps the buffers and their batches.
LEMMA BufferStep == ASSUME TypeOK, BufferInv, [Next]_vars PROVE BufferInv'
<1>1. CASE UNCHANGED <<phase, seq, meta, pending, conns, closing>>
  BY <1>1, BufferSame DEF BufferInv
<1>2. CASE UNCHANGED vars
  BY <1>1, <1>2 DEF vars
<1>3. CASE ThreadB
  BY <1>1, <1>3, Zenon
    DEF ThreadB, EventsEnd, Command, CommandsEnd, SlotAdvance, SlotRespond, SlotError, SlotProbe, aVars
<1>4. CASE Poll \/ DrainBegin \/ DrainEnd \/ TimersBegin \/ TimersEnd \/ ClosingEnd
  BY <1>1, <1>4, Zenon DEF Poll, DrainBegin, DrainEnd, TimersBegin, TimersEnd, ClosingEnd
<1>5. CASE DrainOne
  <2> DEFINE d == Head(dones)
  <2>0. d \in Done
    BY <1>5 DEF DrainOne, TypeOK
  <2>1. d.conn \in Conn
    BY <2>0 DEF Done
  <2>2. CASE Matches(d.conn, d.tag)
    <3>1. Deliver(d.conn, d.ok, d.audio) /\ UNCHANGED <<seq, meta, conns>> /\ d.conn \in conns
      BY <1>5, <2>2 DEF DrainOne, Matches
    <3>2. /\ pending' = [pending EXCEPT ![d.conn] = NoBatch]
          /\ \A e \in Conn : phase'[e] = phase[e] \/ phase'[e] = "closed"
          /\ closing' \subseteq closing \cup {d.conn}
      BY <2>1, <3>1, DeliverView, Zenon
    <3> QED
      BY <2>1, <3>1, <3>2, BufferAnswer, Zenon DEF BufferInv
  <2>3. CASE ~Matches(d.conn, d.tag)
    BY <1>1, <1>5, <2>3 DEF DrainOne
  <2> QED
    BY <2>2, <2>3
<1>6. ASSUME NEW c \in Conn,
             \/ Accept(c) \/ Handshake(c) \/ OnWritable(c) \/ TimerFlush(c) \/ TimerTimeout(c)
             \/ Remove(c) \/ \E m \in Inbound : OnReadable(c, m)
      PROVE  BufferInv'
  <2>1. CASE Accept(c)
    BY <2>1, BufferSame DEF Accept, BufferInv, TypeOK
  <2>2. CASE Handshake(c)
    <3>1. (Keep(c, "ws") \/ Shut(c, 0)) /\ phase[c] = "http" /\ c \in conns
          /\ UNCHANGED <<seq, meta, pending, conns>>
      BY <2>2 DEF Handshake
    <3> QED
      BY <3>1, OutcomeView, BufferSame, Zenon DEF BufferInv
  <2>3. CASE OnWritable(c)
    <3>1. Shut(c, 0) /\ c \in conns /\ UNCHANGED <<seq, meta, pending, conns>>
      BY <2>3 DEF OnWritable
    <3>2. Keep(c, "closed") \/ Shut(c, 0)
      BY <3>1
    <3> QED
      BY <3>1, <3>2, OutcomeView, BufferSame, Zenon DEF BufferInv
  <2>4. ASSUME NEW m \in Inbound, OnReadable(c, m) PROVE BufferInv'
    <3>1. /\ c \in conns /\ UNCHANGED <<pending, conns>>
          /\ phase'[c] = "started" \/ phase'[c] = "closed"
          /\ \A d \in Conn : d # c => phase'[d] = phase[d]
          /\ closing' \subseteq closing \cup {c}
          /\ UNCHANGED <<seq, meta>> \/ (phase[c] = "started" /\ Buffered(c))
      BY <2>4, ReadView, Zenon
    <3>2. CASE UNCHANGED <<seq, meta>>
      BY <3>1, <3>2, BufferSame, Zenon DEF BufferInv
    <3>3. CASE Buffered(c)
      <4>1. /\ \A d \in Conn : Flushed(d)' = Flushed(d)
            /\ \A d \in Conn : Len(meta'[d]) <= seq'[d]
            /\ \A d \in Conn : \A i \in DOMAIN meta'[d] : meta'[d][i] = Flushed(d) + i
        BY <3>3, FrameView, Zenon
      <4>2. \A d \in Conn : d # c => seq'[d] = seq[d]
        BY <3>3 DEF TypeOK, Buffered
      <4> QED
        BY <3>1, <4>1, <4>2, Zenon DEF BufferInv
    <3> QED
      BY <3>1, <3>2, <3>3, Zenon
  <2>5. CASE TimerFlush(c)
    <3>1. PICK b \in Batch :
            /\ b.oldest = Flushed(c) + 1 /\ b.newest = seq[c] /\ b.oldest <= b.newest
            /\ pending' = [pending EXCEPT ![c] = b]
            /\ Flushed(c)' = seq[c] /\ Flushed(c) \in Nat
            /\ \A d \in Conn : d # c => Flushed(d)' = Flushed(d)
      BY <2>5, FlushView, Zenon
    <3>2. /\ meta'[c] = <<>> /\ \A d \in Conn : d # c => meta'[d] = meta[d]
          /\ UNCHANGED <<seq, phase, conns, closing>> /\ c \in conns
          /\ meta[c] # <<>>
      BY <2>5 DEF TimerFlush, TypeOK
    <3>3. seq[c] \in Nat \ {0} /\ Len(meta'[c]) = 0
      BY <3>1, <3>2 DEF TypeOK
    <3>4. pending'[c] = b /\ \A d \in Conn : d # c => pending'[d] = pending[d]
      BY <3>1 DEF TypeOK
    <3> QED
      BY <3>1, <3>2, <3>3, <3>4 DEF BufferInv
  <2>6. CASE TimerTimeout(c)
    <3>1. Deliver(c, FALSE, NoAudio) /\ UNCHANGED <<seq, meta, conns>> /\ c \in conns
      BY <2>6, Zenon DEF TimerTimeout
    <3>2. /\ pending' = [pending EXCEPT ![c] = NoBatch]
          /\ \A e \in Conn : phase'[e] = phase[e] \/ phase'[e] = "closed"
          /\ closing' \subseteq closing \cup {c}
      BY <3>1, DeliverView, Zenon
    <3> QED
      BY <3>1, <3>2, BufferAnswer, Zenon DEF BufferInv
  <2>7. CASE Remove(c)
    <3>1. /\ pending' = [pending EXCEPT ![c] = NoBatch] /\ UNCHANGED <<seq, meta, phase>>
          /\ closing' = closing \ {c} /\ conns' = conns \ {c}
      BY <2>7 DEF Remove
    <3> QED
      BY <3>1, BufferAnswer, Zenon DEF BufferInv
  <2> QED
    BY <1>6, <2>1, <2>2, <2>3, <2>4, <2>5, <2>6, <2>7, ZenonT(60)
<1> QED
  BY <1>2, <1>3, <1>4, <1>5, <1>6, ZenonT(60) DEF Next, ThreadA

\* Nothing is buffered initially.
LEMMA BufferInit == Init => BufferInv
BY DEF Init, BufferInv, Flushed
=============================================================================
