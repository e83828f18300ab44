-------------------------- MODULE InferBenchProofs --------------------------
(***************************************************************************)
(* The inference server and the benchmark that loads it, for any number of *)
(* requests, streams and workers: the server's permits are exact, and the  *)
(* benchmark's report is about every request made.                         *)
(***************************************************************************)
EXTENDS InferBench, FiniteSetTheorems, SequenceTheorems, TLAPS

\* More than the provers' default time, for slow machines.
USE SMTT(30)
-----------------------------------------------------------------------------
(* The server. *)

HandlerStates == {"none", "queued", "answered", "dropped"} \cup Holding

Queue == 1 .. Len(waiters)

ServerTypes ==
  /\ handler \in [Request -> HandlerStates]
  /\ permits \in Nat
  /\ waiters \in Seq(Request)

\* The queue holds every waiting handler once.
QueueExact ==
  /\ \A i, j \in Queue : waiters[i] = waiters[j] => i = j
  /\ \A i \in Queue : handler[waiters[i]] = "queued"
  /\ \A r \in Request : handler[r] = "queued" => \E i \in Queue : waiters[i] = r

\* The inductive invariant of the server.
ServerInv ==
  /\ ServerTypes
  /\ QueueExact
  /\ permits + Cardinality(Streams) = MaxConcurrent
  /\ waiters # <<>> => permits = 0

\* Requests are finitely many, and so are those in some state.
LEMMA RequestSets == \A S \in SUBSET Request : IsFiniteSet(S) /\ Cardinality(S) \in Nat
BY RequestsFinite, FS_Subset, FS_CardinalityType

LEMMA OneMore ==
  ASSUME NEW S, IsFiniteSet(S), NEW x, x \notin S
  PROVE  IsFiniteSet(S \cup {x}) /\ Cardinality(S \cup {x}) = Cardinality(S) + 1
BY FS_AddElement

LEMMA OneLess ==
  ASSUME NEW S, IsFiniteSet(S), NEW x \in S
  PROVE  IsFiniteSet(S \ {x}) /\ Cardinality(S \ {x}) = Cardinality(S) - 1
BY FS_RemoveElement

\* A handler takes a stream, gives one up, or keeps what it has.
LEMMA StreamsMove ==
  ASSUME ServerTypes, NEW r \in Request, NEW to \in HandlerStates,
         handler' = [handler EXCEPT ![r] = to]
  PROVE  /\ handler' \in [Request -> HandlerStates]
         /\ handler'[r] = to /\ \A q \in Request \ {r} : handler'[q] = handler[q]
         /\ Cardinality(Streams) \in Nat
         /\ handler[r] \notin Holding /\ to \in Holding =>
              Cardinality(Streams') = Cardinality(Streams) + 1
         /\ handler[r] \in Holding /\ to \notin Holding =>
              Cardinality(Streams') = Cardinality(Streams) - 1
         /\ (handler[r] \in Holding <=> to \in Holding) => Cardinality(Streams') = Cardinality(Streams)
<1>1. /\ handler' \in [Request -> HandlerStates]
      /\ handler'[r] = to /\ \A q \in Request \ {r} : handler'[q] = handler[q]
  BY DEF ServerTypes
<1>2. IsFiniteSet(Streams) /\ Cardinality(Streams) \in Nat
  BY RequestSets DEF Streams
<1>3. Streams' = {q \in Request : handler'[q] \in Holding}
  BY DEF Streams, Holding
<1>4. ASSUME handler[r] \notin Holding, to \in Holding PROVE Cardinality(Streams') = Cardinality(Streams) + 1
  <2>1. Streams' = Streams \cup {r} /\ r \notin Streams
    BY <1>1, <1>3, <1>4, Zenon DEF Streams
  <2> QED
    BY <1>2, <2>1, OneMore
<1>5. ASSUME handler[r] \in Holding, to \notin Holding PROVE Cardinality(Streams') = Cardinality(Streams) - 1
  <2>1. Streams' = Streams \ {r} /\ r \in Streams
    BY <1>1, <1>3, <1>5, Zenon DEF Streams
  <2> QED
    BY <1>2, <2>1, OneLess
<1>6. ASSUME handler[r] \in Holding <=> to \in Holding PROVE Cardinality(Streams') = Cardinality(Streams)
  <2>1. Streams' = Streams
    BY <1>1, <1>3, <1>6, Zenon DEF Streams
  <2> QED
    BY <2>1
<1> QED
  BY <1>1, <1>2, <1>4, <1>5, <1>6

\* A handler that neither waits nor starts to wait leaves the queue as it is.
LEMMA QueueStays ==
  ASSUME ServerTypes, QueueExact, NEW r \in Request, NEW to \in HandlerStates \ {"queued"},
         handler[r] # "queued", handler' = [handler EXCEPT ![r] = to], waiters' = waiters
  PROVE  QueueExact'
<1>1. \A q \in Request : handler'[q] = "queued" <=> handler[q] = "queued"
  BY DEF ServerTypes
<1>2. waiters \in Seq(Request) /\ \A i \in Queue : waiters[i] \in Request
  BY DEF ServerTypes, Queue
<1> QED
  BY <1>1, <1>2, Zenon DEF QueueExact, Queue

\* A handler that arrives when no permit is free goes to the end of the queue.
LEMMA QueueGrows ==
  ASSUME ServerTypes, QueueExact, NEW r \in Request, handler[r] = "none",
         handler' = [handler EXCEPT ![r] = "queued"], waiters' = Append(waiters, r)
  PROVE  QueueExact' /\ waiters' \in Seq(Request)
<1>1. PICK n \in Nat : n = Len(waiters)
  BY DEF ServerTypes
<1>2. /\ waiters \in Seq(Request) /\ \A i \in 1 .. n : waiters[i] \in Request
      /\ Len(waiters') = n + 1 /\ waiters' \in Seq(Request)
      /\ waiters'[n + 1] = r /\ \A i \in 1 .. n : waiters'[i] = waiters[i]
  BY <1>1 DEF ServerTypes
<1>3. handler'[r] = "queued" /\ \A q \in Request \ {r} : handler'[q] = handler[q]
  BY DEF ServerTypes
<1>4. \A i \in 1 .. n : handler[waiters[i]] = "queued" /\ waiters[i] # r
  BY <1>1 DEF QueueExact, Queue
<1>5. 1 .. n + 1 = (1 .. n) \cup {n + 1} /\ n + 1 \notin 1 .. n
  OBVIOUS
<1>6. \A i, j \in 1 .. n + 1 : waiters'[i] = waiters'[j] => i = j
  <2>1. \A i, j \in 1 .. n : waiters[i] = waiters[j] => i = j
    BY <1>1, Zenon DEF QueueExact, Queue
  <2> QED
    BY <1>2, <1>4, <1>5, <2>1
<1>7. \A i \in 1 .. n + 1 : handler'[waiters'[i]] = "queued"
  BY <1>2, <1>3, <1>4, <1>5
<1>8. ASSUME NEW q \in Request, handler'[q] = "queued" PROVE \E i \in 1 .. n + 1 : waiters'[i] = q
  <2>1. CASE q = r
    BY <1>2, <1>5, <2>1
  <2>2. CASE q # r
    <3>1. PICK i \in 1 .. n : waiters[i] = q
      BY <1>1, <1>3, <1>8, <2>2, Zenon DEF QueueExact, Queue
    <3> QED
      BY <1>2, <1>5, <3>1
  <2> QED
    BY <2>1, <2>2, Zenon
<1> QED
  BY <1>2, <1>6, <1>7, <1>8 DEF QueueExact, Queue

\* Taking the i-th waiter out of the queue.
Out(w, i) == SubSeq(w, 1, i - 1) \o SubSeq(w, i + 1, Len(w))

\* Where the others are afterwards.
LEMMA OutView ==
  ASSUME NEW w \in Seq(Request), NEW i \in 1 .. Len(w)
  PROVE  /\ Out(w, i) \in Seq(Request) /\ Len(Out(w, i)) = Len(w) - 1
         /\ \A j \in 1 .. Len(w) - 1 : Out(w, i)[j] = w[IF j < i THEN j ELSE j + 1]
<1>1. PICK n \in Nat : n = Len(w)
  OBVIOUS
<1>2. PICK a \in Seq(Request) : /\ a = SubSeq(w, 1, i - 1) /\ Len(a) = i - 1
                                /\ \A j \in 1 .. i - 1 : a[j] = w[j]
  <2>1. /\ SubSeq(w, 1, i - 1) \in Seq(Request) /\ Len(SubSeq(w, 1, i - 1)) = i - 1
        /\ \A j \in 1 .. i - 1 : SubSeq(w, 1, i - 1)[j] = w[j]
    OBVIOUS
  <2> QED
    BY <2>1, Zenon
<1>3. PICK b \in Seq(Request) : /\ b = SubSeq(w, i + 1, Len(w)) /\ Len(b) = n - i
                                /\ \A j \in 1 .. n - i : b[j] = w[i + j]
  <2>1. /\ SubSeq(w, i + 1, Len(w)) \in Seq(Request) /\ Len(SubSeq(w, i + 1, Len(w))) = n - i
        /\ \A j \in 1 .. n - i : SubSeq(w, i + 1, Len(w))[j] = w[i + j]
    BY <1>1
  <2> QED
    BY <2>1, Zenon
<1>4. PICK c \in Seq(Request) :
        /\ c = Out(w, i) /\ Len(c) = Len(a) + Len(b)
        /\ \A j \in 1 .. Len(a) + Len(b) : c[j] = IF j <= Len(a) THEN a[j] ELSE b[j - Len(a)]
  <2>1. /\ a \o b \in Seq(Request) /\ Len(a \o b) = Len(a) + Len(b)
        /\ \A j \in 1 .. Len(a) + Len(b) : (a \o b)[j] = IF j <= Len(a) THEN a[j] ELSE b[j - Len(a)]
    BY ConcatProperties
  <2>2. Out(w, i) = a \o b
    BY <1>2, <1>3, Zenon DEF Out
  <2> QED
    BY <2>1, <2>2, Zenon
<1>5. Len(c) = n - 1 /\ \A j \in 1 .. n - 1 : c[j] = IF j <= i - 1 THEN a[j] ELSE b[j - (i - 1)]
  <2>1. Len(a) = i - 1 /\ Len(b) = n - i /\ (i - 1) + (n - i) = n - 1
    <3>1. (i - 1) + (n - i) = n - 1
      OBVIOUS
    <3> QED
      BY <1>2, <1>3, <3>1, Zenon
  <2> QED
    BY <1>4, <2>1, Zenon
<1>6. ASSUME NEW j \in 1 .. n - 1 PROVE c[j] = w[IF j < i THEN j ELSE j + 1]
  <2>1. CASE j < i
    <3>1. j \in 1 .. i - 1 /\ j <= i - 1
      BY <2>1
    <3>2. c[j] = w[j]
      BY <1>2, <1>5, <3>1, Zenon
    <3> QED
      BY <2>1, <3>2, Zenon
  <2>2. CASE ~(j < i)
    <3>1. j - (i - 1) \in 1 .. n - i /\ i + (j - (i - 1)) = j + 1 /\ ~(j <= i - 1)
      BY <1>1, <2>2
    <3>2. PICK k \in 1 .. n - i : k = j - (i - 1)
      BY <3>1
    <3>3. c[j] = b[k] /\ b[k] = w[i + k]
      BY <1>3, <1>5, <3>1, <3>2, Zenon
    <3> QED
      BY <2>2, <3>1, <3>2, <3>3, Zenon
  <2> QED
    BY <2>1, <2>2, Zenon
<1> QED
  BY <1>1, <1>4, <1>5, <1>6, Zenon

\* A handler leaves the queue, dropped or granted a permit; the others stay in it.
LEMMA QueueShrinks ==
  ASSUME ServerTypes, QueueExact, NEW i \in Queue, waiters' = Out(waiters, i),
         handler' \in [Request -> HandlerStates], handler'[waiters[i]] # "queued",
         \A q \in Request \ {waiters[i]} : handler'[q] = "queued" <=> handler[q] = "queued"
  PROVE  QueueExact' /\ waiters' \in Seq(Request)
<1>1. PICK n \in Nat : n = Len(waiters)
  BY DEF ServerTypes
<1> DEFINE old(j) == IF j < i THEN j ELSE j + 1
<1>2. /\ waiters' \in Seq(Request) /\ Len(waiters') = n - 1
      /\ \A j \in 1 .. n - 1 : waiters'[j] = waiters[old(j)]
  BY <1>1, OutView DEF ServerTypes, Queue
<1>3. /\ \A j \in 1 .. n - 1 : old(j) \in 1 .. n /\ old(j) # i
      /\ \A j, k \in 1 .. n - 1 : old(j) = old(k) => j = k
  BY <1>1 DEF Queue
<1>4. \A k \in 1 .. n : k # i => \E j \in 1 .. n - 1 : old(j) = k
  <2> SUFFICES ASSUME NEW k \in 1 .. n, k # i PROVE \E j \in 1 .. n - 1 : old(j) = k
    OBVIOUS
  <2>1. CASE k < i
    <3>1. k \in 1 .. n - 1 /\ old(k) = k
      BY <1>1, <2>1 DEF Queue
    <3> QED
      BY <3>1, Zenon
  <2>2. CASE ~(k < i)
    <3>1. k - 1 \in 1 .. n - 1 /\ old(k - 1) = k
      BY <1>1, <2>2 DEF Queue
    <3> QED
      BY <3>1, Zenon
  <2> QED
    BY <2>1, <2>2
<1> HIDE DEF old
<1>5. /\ \A j \in 1 .. n : waiters[j] \in Request /\ handler[waiters[j]] = "queued"
      /\ \A j, k \in 1 .. n : waiters[j] = waiters[k] => j = k
      /\ i \in 1 .. n
  BY <1>1 DEF QueueExact, Queue, ServerTypes
<1>6. \A j, k \in 1 .. n - 1 : waiters'[j] = waiters'[k] => j = k
  <2> SUFFICES ASSUME NEW j \in 1 .. n - 1, NEW k \in 1 .. n - 1, waiters'[j] = waiters'[k] PROVE j = k
    BY Zenon
  <2>1. waiters[old(j)] = waiters[old(k)] /\ old(j) \in 1 .. n /\ old(k) \in 1 .. n
    BY <1>2, <1>3, Zenon
  <2>2. old(j) = old(k)
    BY <1>5, <2>1, Zenon
  <2> QED
    BY <1>3, <2>2, Zenon
<1>7. \A j \in 1 .. n - 1 : handler'[waiters'[j]] = "queued"
  <2> SUFFICES ASSUME NEW j \in 1 .. n - 1 PROVE handler'[waiters'[j]] = "queued"
    OBVIOUS
  <2>1. waiters'[j] = waiters[old(j)] /\ old(j) \in 1 .. n /\ old(j) # i
    BY <1>2, <1>3, Zenon
  <2>2. waiters[old(j)] \in Request \ {waiters[i]} /\ handler[waiters[old(j)]] = "queued"
    BY <1>5, <2>1, Zenon
  <2> QED
    BY <2>1, <2>2, Zenon
<1>8. ASSUME NEW q \in Request, handler'[q] = "queued" PROVE \E j \in 1 .. n - 1 : waiters'[j] = q
  <2>1. q # waiters[i] /\ handler[q] = "queued"
    BY <1>8, Zenon
  <2>2. PICK k \in 1 .. n : waiters[k] = q
    BY <1>1, <2>1, Zenon DEF QueueExact, Queue
  <2>3. PICK j \in 1 .. n - 1 : old(j) = k
    BY <1>4, <2>1, <2>2, Zenon
  <2> QED
    BY <1>2, <2>2, <2>3, Zenon
<1> QED
  BY <1>2, <1>6, <1>7, <1>8, Zenon DEF QueueExact, Queue

\* A handler gives up its stream, and whoever waits longest gets it.
LEMMA ReleaseView ==
  ASSUME ServerInv, NEW r \in Request, handler[r] \in Holding, NEW to \in {"answered", "dropped"},
         Release(r, to)
  PROVE  ServerInv'
<1>1. ServerTypes /\ QueueExact /\ MaxConcurrent \in Nat /\ permits + Cardinality(Streams) = MaxConcurrent
  BY MaxConcurrentPositive DEF ServerInv
<1>2. to \in HandlerStates \ {"queued"} /\ to \notin Holding /\ handler[r] # "queued"
  BY DEF HandlerStates, Holding
<1>3. CASE waiters = <<>>
  <2>1. handler' = [handler EXCEPT ![r] = to] /\ permits' = permits + 1 /\ waiters' = waiters
    BY <1>3, Zenon DEF Release
  <2>2. QueueExact'
    BY <1>1, <1>2, <2>1, QueueStays, Zenon
  <2>3. handler' \in [Request -> HandlerStates] /\ Cardinality(Streams') = Cardinality(Streams) - 1
        /\ Cardinality(Streams) \in Nat
    BY <1>1, <1>2, <2>1, StreamsMove, Zenon
  <2>4. permits' \in Nat /\ permits' + Cardinality(Streams') = MaxConcurrent
    BY <1>1, <2>1, <2>3 DEF ServerTypes
  <2> QED
    BY <1>1, <1>3, <2>1, <2>2, <2>3, <2>4, Zenon DEF ServerInv, ServerTypes
<1>4. CASE waiters # <<>>
  <2> DEFINE h == Head(waiters)
             free == [handler EXCEPT ![r] = to]
  <2>1. handler' = [handler EXCEPT ![r] = to, ![h] = "granted"] /\ waiters' = Tail(waiters) /\ permits' = permits
    BY <1>4, Zenon DEF Release
  <2>2. 1 \in Queue /\ h = waiters[1] /\ h \in Request /\ Tail(waiters) = Out(waiters, 1)
    <3>1. waiters \in Seq(Request) /\ Len(waiters) \in Nat \ {0}
      BY <1>1, <1>4 DEF ServerTypes
    <3>2. 1 \in Queue /\ h = waiters[1] /\ h \in Request
      BY <3>1 DEF Queue
    <3>3. /\ Tail(waiters) \in Seq(Request) /\ Len(Tail(waiters)) = Len(waiters) - 1
          /\ \A j \in 1 .. Len(waiters) - 1 : Tail(waiters)[j] = waiters[j + 1]
      BY <3>1
    <3>4. /\ Out(waiters, 1) \in Seq(Request) /\ Len(Out(waiters, 1)) = Len(waiters) - 1
          /\ \A j \in 1 .. Len(waiters) - 1 : Out(waiters, 1)[j] = waiters[IF j < 1 THEN j ELSE j + 1]
      BY <3>1, <3>2, OutView, Zenon DEF Queue
    <3>5. \A j \in 1 .. Len(waiters) - 1 : Out(waiters, 1)[j] = Tail(waiters)[j]
      <4>1. \A j \in 1 .. Len(waiters) - 1 : ~(j < 1)
        BY <3>1
      <4> QED
        BY <3>3, <3>4, <4>1, Zenon
    <3>6. Tail(waiters) = Out(waiters, 1)
      <4>1. PICK u \in Seq(Request), v \in Seq(Request) : u = Tail(waiters) /\ v = Out(waiters, 1)
        BY <3>3, <3>4, Zenon
      <4>2. Len(u) = Len(v) /\ \A j \in 1 .. Len(u) : u[j] = v[j]
        BY <3>3, <3>4, <3>5, <4>1, Zenon
      <4>3. u = v
        BY <4>2, SeqEqual
      <4> QED
        BY <4>1, <4>3, Zenon
    <3> QED
      BY <3>2, <3>6, Zenon
  <2>3. handler[h] = "queued" /\ h # r
    <3>1. handler[waiters[1]] = "queued"
      BY <1>1, <2>2, Zenon DEF QueueExact
    <3>2. handler[h] = "queued"
      BY <2>2, <3>1, Zenon
    <3> QED
      BY <1>2, <3>2, Zenon
  <2> HIDE DEF h
  <2>4. /\ handler' \in [Request -> HandlerStates] /\ handler'[r] = to /\ handler'[h] = "granted"
        /\ \A q \in Request \ {r, h} : handler'[q] = handler[q]
    BY <1>1, <1>2, <2>1, <2>2, <2>3, Zenon DEF ServerTypes, HandlerStates, Holding
  <2>5. QueueExact' /\ waiters' \in Seq(Request)
    <3>1. handler'[waiters[1]] # "queued"
      BY <2>2, <2>4 DEF h
    <3>2. \A q \in Request \ {waiters[1]} : handler'[q] = "queued" <=> handler[q] = "queued"
      BY <1>2, <2>2, <2>4, Zenon DEF h
    <3> QED
      BY <1>1, <2>1, <2>2, <2>4, <3>1, <3>2, QueueShrinks, Zenon
  <2>6. Cardinality(Streams') = Cardinality(Streams)
    <3>1. /\ r \in Streams /\ h \notin Streams \ {r}
          /\ Streams' = (Streams \ {r}) \cup {h}
      <4>1. Streams' = {q \in Request : handler'[q] \in Holding}
        BY DEF Streams, Holding
      <4>2. handler'[h] \in Holding /\ handler'[r] \notin Holding /\ handler[h] \notin Holding
        BY <1>2, <2>3, <2>4, Zenon DEF Holding
      <4> QED
        BY <2>2, <2>4, <4>1, <4>2, Zenon DEF Streams
    <3>2. IsFiniteSet(Streams) /\ Cardinality(Streams) \in Nat
      BY RequestSets DEF Streams
    <3>3. IsFiniteSet(Streams \ {r}) /\ Cardinality(Streams \ {r}) = Cardinality(Streams) - 1
      BY <3>1, <3>2, OneLess, Zenon
    <3>4. Cardinality((Streams \ {r}) \cup {h}) = Cardinality(Streams \ {r}) + 1
      BY <3>1, <3>3, OneMore, Zenon
    <3> QED
      BY <3>1, <3>2, <3>3, <3>4
  <2>7. permits = 0
    BY <1>4, Zenon DEF ServerInv
  <2> QED
    BY <1>1, <2>1, <2>4, <2>5, <2>6, <2>7, Zenon DEF ServerInv, ServerTypes
<1> QED
  BY <1>3, <1>4

\* A handler that holds a stream, or has finished, goes on without a change to the
\* permits and to the queue.
LEMMA ServerGoesOn ==
  ASSUME ServerInv, NEW r \in Request, NEW to \in HandlerStates \ {"queued"}, handler[r] # "queued",
         handler' = [handler EXCEPT ![r] = to], handler[r] \in Holding <=> to \in Holding,
         permits' = permits, waiters' = waiters
  PROVE  ServerInv'
<1>1. ServerTypes /\ QueueExact
  BY DEF ServerInv
<1>2. QueueExact'
  BY <1>1, QueueStays, Zenon
<1>3. handler' \in [Request -> HandlerStates] /\ Cardinality(Streams') = Cardinality(Streams)
  BY <1>1, StreamsMove, Zenon
<1> QED
  BY <1>1, <1>2, <1>3, Zenon DEF ServerInv, ServerTypes

LEMMA ArriveView == ASSUME ServerInv, NEW r \in Request, NEW even, Arrive(r, even) PROVE ServerInv'
<1>1. /\ ServerTypes /\ QueueExact /\ MaxConcurrent \in Nat /\ permits \in Nat /\ handler[r] = "none"
      /\ permits + Cardinality(Streams) = MaxConcurrent /\ (waiters # <<>> => permits = 0)
  BY MaxConcurrentPositive DEF ServerInv, ServerTypes, Arrive
<1>2. /\ "answered" \in HandlerStates \ {"queued"} /\ "computing" \in HandlerStates \ {"queued"}
      /\ "queued" \in HandlerStates /\ "none" # "queued"
      /\ "none" \notin Holding /\ "answered" \notin Holding /\ "computing" \in Holding /\ "queued" \notin Holding
  BY DEF HandlerStates, Holding
<1>3. CASE handler' = [handler EXCEPT ![r] = "answered"] /\ permits' = permits /\ waiters' = waiters
  BY <1>1, <1>2, <1>3, ServerGoesOn, Zenon
<1>4. CASE /\ permits > 0 /\ handler' = [handler EXCEPT ![r] = "computing"]
           /\ permits' = permits - 1 /\ waiters' = waiters
  <2>1. QueueExact'
    BY <1>1, <1>2, <1>4, QueueStays, Zenon
  <2>2. handler' \in [Request -> HandlerStates] /\ Cardinality(Streams') = Cardinality(Streams) + 1
        /\ Cardinality(Streams) \in Nat
    BY <1>1, <1>2, <1>4, StreamsMove, Zenon
  <2>3. /\ permits' \in Nat /\ permits' + Cardinality(Streams') = MaxConcurrent
        /\ (waiters' # <<>> => permits' = 0)
    BY <1>1, <1>4, <2>2
  <2> QED
    BY <1>1, <1>4, <2>1, <2>2, <2>3, Zenon DEF ServerInv, ServerTypes
<1>5. CASE /\ permits = 0 /\ handler' = [handler EXCEPT ![r] = "queued"]
           /\ permits' = permits /\ waiters' = Append(waiters, r)
  <2>1. QueueExact' /\ waiters' \in Seq(Request)
    BY <1>1, <1>5, QueueGrows, Zenon
  <2>2. handler' \in [Request -> HandlerStates] /\ Cardinality(Streams') = Cardinality(Streams)
    BY <1>1, <1>2, <1>5, StreamsMove, Zenon
  <2> QED
    BY <1>1, <1>5, <2>1, <2>2, Zenon DEF ServerInv, ServerTypes
<1> QED
  BY <1>3, <1>4, <1>5, Zenon DEF Arrive

LEMMA ServerStepView == ASSUME ServerInv, NEW r \in Request, ServerStep(r) PROVE ServerInv'
<1>1. ServerTypes /\ QueueExact
  BY DEF ServerInv
<1>2. /\ "computing" \in HandlerStates \ {"queued"} /\ "sleeping" \in HandlerStates \ {"queued"}
      /\ "granted" # "queued" /\ "computing" # "queued" /\ "answered" \in {"answered", "dropped"}
      /\ "granted" \in Holding /\ "computing" \in Holding /\ "sleeping" \in Holding
  BY DEF HandlerStates, Holding
<1>3. ASSUME handler' = handler, permits' = permits, waiters' = waiters PROVE ServerInv'
  BY <1>3, Zenon DEF ServerInv, ServerTypes, QueueExact, Queue, Streams
<1>4. CASE Resume(r)
  BY <1>2, <1>4, ServerGoesOn, Zenon DEF Resume
<1>5. CASE Computed(r)
  <2>1. CASE handler[r] = "computing"
    BY <1>2, <1>5, <2>1, ServerGoesOn, Zenon DEF Computed
  <2>2. CASE handler[r] # "computing"
    BY <1>3, <1>5, <2>2, Zenon DEF Computed
  <2> QED
    BY <2>1, <2>2
<1>6. CASE ComputePanics(r)
  <2>1. CASE handler[r] = "computing"
    BY <1>2, <1>6, <2>1, ReleaseView, Zenon DEF ComputePanics
  <2>2. CASE handler[r] # "computing"
    BY <1>3, <1>6, <2>2, Zenon DEF ComputePanics
  <2> QED
    BY <2>1, <2>2
<1>7. CASE Slept(r)
  BY <1>2, <1>7, ReleaseView, Zenon DEF Slept
<1> QED
  BY <1>4, <1>5, <1>6, <1>7, Zenon DEF ServerStep

LEMMA ClientGoneView == ASSUME ServerInv, NEW r \in Request, ClientGone(r) PROVE ServerInv'
<1>1. ServerTypes /\ QueueExact
  BY DEF ServerInv
<1>2. /\ "dropped" \in {"answered", "dropped"} /\ "dropped" \in HandlerStates
      /\ "dropped" \notin Holding /\ "queued" \notin Holding
  BY DEF HandlerStates, Holding
<1>3. CASE handler[r] \in Holding /\ Release(r, "dropped")
  BY <1>2, <1>3, ReleaseView, Zenon
<1>4. CASE /\ handler[r] = "queued" /\ handler' = [handler EXCEPT ![r] = "dropped"]
           /\ \E i \in DOMAIN waiters : waiters[i] = r /\ waiters' = RemoveAt(waiters, i)
           /\ permits' = permits
  <2>1. PICK i \in Queue : waiters[i] = r /\ waiters' = Out(waiters, i)
    <3>1. DOMAIN waiters = Queue
      BY <1>1 DEF ServerTypes, Queue
    <3> QED
      BY <1>4, <3>1, Zenon DEF RemoveAt, Out
  <2>2. /\ handler' \in [Request -> HandlerStates] /\ handler'[r] = "dropped"
        /\ \A q \in Request \ {r} : handler'[q] = handler[q]
        /\ Cardinality(Streams') = Cardinality(Streams)
    BY <1>1, <1>2, <1>4, StreamsMove, ZenonT(60)
  <2>3. handler'[waiters[i]] # "queued"
        /\ \A q \in Request \ {waiters[i]} : handler'[q] = "queued" <=> handler[q] = "queued"
    BY <2>1, <2>2
  <2>4. QueueExact' /\ waiters' \in Seq(Request)
    BY <1>1, <2>1, <2>2, <2>3, QueueShrinks, Zenon
  <2>5. waiters # <<>>
    BY <1>1, <2>1 DEF ServerTypes, Queue
  <2> QED
    BY <1>1, <1>4, <2>2, <2>4, <2>5, Zenon DEF ServerInv, ServerTypes
<1> QED
  BY <1>3, <1>4, Zenon DEF ClientGone

LEMMA ServerInitially == ServerInit => ServerInv
<1> SUFFICES ASSUME ServerInit PROVE ServerInv
  OBVIOUS
<1>1. /\ handler = [r \in Request |-> "none"] /\ permits = MaxConcurrent /\ waiters = <<>>
      /\ Len(waiters) = 0 /\ Queue = {} /\ MaxConcurrent \in Nat
  BY MaxConcurrentPositive DEF ServerInit, Queue
<1>2. ServerTypes
  BY <1>1 DEF ServerTypes, HandlerStates
<1>3. QueueExact
  BY <1>1 DEF QueueExact
<1>4. Streams = {}
  BY <1>1 DEF Streams, Holding
<1> QED
  BY <1>1, <1>2, <1>3, <1>4, FS_EmptySet DEF ServerInv

\* Every step of the benchmark, of its rivals and of the server.
LEMMA ServerInvStep == ServerInv /\ [Next]_vars => ServerInv'
<1> SUFFICES ASSUME ServerInv, [Next]_vars PROVE ServerInv'
  OBVIOUS
<1>1. ASSUME UNCHANGED server PROVE ServerInv'
  BY <1>1, Zenon DEF server, ServerInv, ServerTypes, QueueExact, Queue, Streams
<1>2. Own \subseteq Request /\ Foreign \subseteq Request
  BY ForeignRequests DEF Own
<1>3. CASE UNCHANGED vars
  BY <1>1, <1>3, Zenon DEF vars
<1>4. ASSUME NEW r \in Own, Issue(r) \/ IssueFails(r) \/ Return(r) \/ Reset(r) \/ Post(r) \/ Panic(r)
      PROVE  ServerInv'
  BY <1>1, <1>2, <1>4, ArriveView, ClientGoneView, Zenon
     DEF Issue, IssueFails, Return, Reset, Post, Panic
<1>5. ASSUME NEW r \in Foreign, Others(r) PROVE ServerInv'
  BY <1>2, <1>5, ArriveView, ClientGoneView, Zenon DEF Others
<1>6. ASSUME NEW r \in Request, ServerStep(r) PROVE ServerInv'
  BY <1>6, ServerStepView, Zenon
<1>7. CASE IssueEnd \/ Expire \/ Join \/ JoinFails \/ Collect \/ Finish \/ Done
  BY <1>1, <1>7, Zenon DEF IssueEnd, Expire, Join, JoinFails, Collect, Finish, Done, vars
<1> QED
  BY <1>3, <1>4, <1>5, <1>6, <1>7, Zenon DEF Next

\* For any number of requests, of the benchmark and of others, and any number of
\* streams: a permit of concurrency_sem is never lost or doubled, whatever computes,
\* panics or leaves, and no stream idles while a request waits.
THEOREM PermitsAreExact == Spec => []PermitsExact
<1>1. Init => ServerInv
  BY ServerInitially DEF Init
<1>2. ServerInv => PermitsExact
  <2> SUFFICES ASSUME ServerInv PROVE PermitsExact
    OBVIOUS
  <2>1. /\ waiters \in Seq(Request) /\ Len(waiters) \in Nat /\ DOMAIN waiters = Queue
        /\ Queue = 1 .. Len(waiters) /\ \A i \in Queue : waiters[i] \in Request
    BY DEF ServerInv, ServerTypes, Queue
  <2>2. ToSet(waiters) = {waiters[i] : i \in Queue}
    BY <2>1, Zenon DEF ToSet
  <2>3. ToSet(waiters) = {r \in Request : handler[r] = "queued"}
    <3>1. ASSUME NEW x \in ToSet(waiters) PROVE x \in Request /\ handler[x] = "queued"
      <4>1. PICK i \in Queue : x = waiters[i]
        BY <2>2, Zenon
      <4> QED
        BY <2>1, <4>1, Zenon DEF ServerInv, QueueExact
    <3>2. ASSUME NEW x \in Request, handler[x] = "queued" PROVE x \in ToSet(waiters)
      <4>1. PICK i \in Queue : waiters[i] = x
        BY <3>2, Zenon DEF ServerInv, QueueExact
      <4> QED
        BY <2>2, <4>1, Zenon
    <3> QED
      BY <3>1, <3>2, Zenon
  <2>4. Cardinality(ToSet(waiters)) = Len(waiters)
    <3> DEFINE f == [i \in Queue |-> waiters[i]]
    <3>1. f \in Bijection(Queue, ToSet(waiters))
      <4>1. f \in [Queue -> ToSet(waiters)]
        BY <2>2, Zenon
      <4>2. \A i, j \in Queue : f[i] = f[j] => i = j
        BY Zenon DEF ServerInv, QueueExact
      <4>3. \A x \in ToSet(waiters) : \E i \in Queue : f[i] = x
        BY <2>2, Zenon
      <4> QED
        BY <4>1, <4>2, <4>3, Zenon DEF Bijection, Injection, Surjection, IsInjective
    <3>2. ExistsBijection(Queue, ToSet(waiters))
      BY <3>1, Zenon DEF ExistsBijection
    <3>3. IsFiniteSet(Queue) /\ Cardinality(Queue) = Len(waiters)
      <4>1. PICK n \in Nat : n = Len(waiters)
        BY <2>1, Zenon
      <4>2. IsFiniteSet(1 .. n) /\ Cardinality(1 .. n) = IF 1 > n THEN 0 ELSE n - 1 + 1
        BY FS_Interval
      <4>3. Cardinality(1 .. n) = n
        BY <4>2
      <4> QED
        BY <2>1, <4>1, <4>2, <4>3, Zenon
    <3> QED
      BY <3>2, <3>3, FS_Bijection, Zenon
  <2> QED
    BY <2>3, <2>4, Zenon DEF ServerInv, PermitsExact
<1> QED
  BY <1>1, <1>2, ServerInvStep, PTL DEF Spec
-----------------------------------------------------------------------------
(* The benchmark. *)

TaskStates == {"none", "sending", "returned", "sent", "panicked"}

\* The results of kind k in the channel, and the tasks that have sent one.
InChannel(q, k) == {i \in 1 .. Len(q) : q[i] = k}
SentAs(k) == {r \in Own : task[r] = "sent" /\ result[r] = k}

BenchTypes ==
  /\ task \in [Own -> TaskStates]
  /\ result \in [Own -> Results \cup {"none"}]
  /\ channel \in Seq(Results)
  /\ summary \in [Results -> Nat]

\* A task has a result once send_infer has returned; main collects when every task
\* has finished, and is done when it has collected everything.
BenchStages ==
  /\ \A r \in Own : result[r] # "none" <=> task[r] \in {"returned", "sent"}
  /\ main \in {"collect", "done"} => \A r \in Own : task[r] \in {"none", "sent"}
  /\ main = "done" => channel = <<>>

\* What a task has sent is in the channel or in the summary.
BenchTally ==
  /\ \A k \in Results : summary[k] + Cardinality(InChannel(channel, k)) = Cardinality(SentAs(k))
  /\ Attempted + Len(channel) = Cardinality(InTask({"sent"}))

\* The inductive invariant of the benchmark.
BenchInv == BenchTypes /\ BenchStages /\ BenchTally

LEMMA OwnSets == \A S \in SUBSET Own : IsFiniteSet(S) /\ Cardinality(S) \in Nat
BY RequestSets DEF Own

LEMMA InChannelFinite ==
  ASSUME NEW q \in Seq(Results), NEW k
  PROVE  IsFiniteSet(InChannel(q, k)) /\ Cardinality(InChannel(q, k)) \in Nat
<1>1. PICK n \in Nat : n = Len(q)
  OBVIOUS
<1>2. IsFiniteSet(1 .. n)
  BY FS_Interval
<1>3. InChannel(q, k) \subseteq 1 .. n
  BY <1>1 DEF InChannel
<1> QED
  BY <1>2, <1>3, FS_Subset, FS_CardinalityType, Zenon

LEMMA InChannelAppend ==
  ASSUME NEW q \in Seq(Results), NEW v \in Results, NEW k
  PROVE  Cardinality(InChannel(Append(q, v), k)) = Cardinality(InChannel(q, k)) + (IF k = v THEN 1 ELSE 0)
<1>1. PICK n \in Nat : n = Len(q)
  OBVIOUS
<1>2. PICK t : t = Append(q, v)
  BY Zenon
<1>3. Len(t) = n + 1 /\ t[n + 1] = v /\ \A i \in 1 .. n : t[i] = q[i]
  BY <1>1, <1>2
<1>4. 1 .. n + 1 = (1 .. n) \cup {n + 1} /\ n + 1 \notin 1 .. n
  OBVIOUS
<1>5. n + 1 \notin InChannel(q, k)
  BY <1>1, <1>4, Zenon DEF InChannel
<1>6. IsFiniteSet(InChannel(q, k)) /\ Cardinality(InChannel(q, k)) \in Nat
  BY InChannelFinite
<1>7. CASE k = v
  <2>1. InChannel(t, k) = InChannel(q, k) \cup {n + 1}
    BY <1>1, <1>3, <1>4, <1>7, Zenon DEF InChannel
  <2> QED
    BY <1>2, <1>5, <1>6, <1>7, <2>1, OneMore, Zenon
<1>8. CASE k # v
  <2>1. InChannel(t, k) = InChannel(q, k)
    BY <1>1, <1>3, <1>4, <1>8, Zenon DEF InChannel
  <2> QED
    BY <1>2, <1>6, <1>8, <2>1
<1> QED
  BY <1>7, <1>8

LEMMA InChannelTail ==
  ASSUME NEW q \in Seq(Results), q # <<>>, NEW k
  PROVE  Cardinality(InChannel(q, k)) = Cardinality(InChannel(Tail(q), k)) + (IF k = Head(q) THEN 1 ELSE 0)
<1>1. PICK n \in Nat : n = Len(Tail(q))
  OBVIOUS
<1>2. /\ Len(q) = n + 1 /\ Head(q) = q[1] /\ \A i \in 1 .. n : Tail(q)[i] = q[i + 1]
  BY <1>1
<1> DEFINE Rest == InChannel(q, k) \ {1}
           Later == InChannel(Tail(q), k)
           f == [i \in Rest |-> i - 1]
<1>3. \A i \in Rest : i \in 2 .. n + 1 /\ q[i] = k /\ i - 1 \in 1 .. n /\ Tail(q)[i - 1] = k
  BY <1>2 DEF InChannel
<1>4. \A j \in Later : j \in 1 .. n /\ j + 1 \in Rest /\ (j + 1) - 1 = j
  BY <1>1, <1>2 DEF InChannel
<1>5. f \in Bijection(Rest, Later)
  <2>1. f \in [Rest -> Later]
    BY <1>1, <1>3 DEF InChannel
  <2> HIDE DEF Rest, Later
  <2>2. \A i, j \in Rest : f[i] = f[j] => i = j
    BY <1>3
  <2>3. \A j \in Later : \E i \in Rest : f[i] = j
    BY <1>4
  <2> QED
    BY <2>1, <2>2, <2>3, Zenon DEF Bijection, Injection, Surjection, IsInjective
<1>6. IsFiniteSet(InChannel(q, k)) /\ Cardinality(InChannel(q, k)) \in Nat
  BY InChannelFinite
<1>7. IsFiniteSet(Rest) /\ Cardinality(Rest) = IF 1 \in InChannel(q, k) THEN Cardinality(InChannel(q, k)) - 1
                                                                         ELSE Cardinality(InChannel(q, k))
  BY <1>6, FS_RemoveElement, Zenon
<1>8. Cardinality(Later) = Cardinality(Rest)
  <2>1. ExistsBijection(Rest, Later)
    BY <1>5, Zenon DEF ExistsBijection
  <2> QED
    BY <1>7, <2>1, FS_Bijection, Zenon
<1>9. 1 \in InChannel(q, k) <=> k = Head(q)
  BY <1>2 DEF InChannel
<1> QED
  BY <1>6, <1>7, <1>8, <1>9

\* One result more in the summary is one request more that was attempted.
LEMMA AttemptedRecord ==
  ASSUME summary \in [Results -> Nat], NEW k \in Results, summary' = [summary EXCEPT ![k] = @ + 1]
  PROVE  Attempted' = Attempted + 1 /\ Attempted \in Nat
<1>1. /\ \A j \in Results : summary[j] \in Nat /\ summary'[j] = IF j = k THEN summary[j] + 1 ELSE summary[j]
      /\ {"completed", "http_status", "timeout", "connect", "request"} = Results
  BY DEF Results
<1>2. k \in {"completed", "http_status", "timeout", "connect", "request"}
  BY DEF Results
<1> QED
  BY <1>1, <1>2 DEF Attempted

\* A task that is not yet sending its result moves on; its result is its own affair.
LEMMA TaskMoves ==
  ASSUME BenchInv, NEW r \in Own, task[r] # "sent", NEW to \in TaskStates \ {"sent"},
         task' = [task EXCEPT ![r] = to],
         result' \in [Own -> Results \cup {"none"}], \A q \in Own \ {r} : result'[q] = result[q],
         result'[r] # "none" <=> to = "returned",
         channel' = channel, summary' = summary, main' = main, main \notin {"collect", "done"}
  PROVE  BenchInv'
<1>1. /\ task \in [Own -> TaskStates] /\ channel \in Seq(Results) /\ summary \in [Results -> Nat]
      /\ task' \in [Own -> TaskStates] /\ task'[r] = to /\ \A q \in Own \ {r} : task'[q] = task[q]
  BY DEF BenchInv, BenchTypes
<1>2. BenchTypes'
  BY <1>1, Zenon DEF BenchTypes
<1>3. BenchStages'
  <2>1. ASSUME NEW q \in Own PROVE result'[q] # "none" <=> task'[q] \in {"returned", "sent"}
    <3>1. CASE q = r
      BY <1>1, <3>1
    <3>2. CASE q # r
      BY <1>1, <3>2, Zenon DEF BenchInv, BenchStages
    <3> QED
      BY <3>1, <3>2
  <2> QED
    BY <2>1 DEF BenchStages
<1>4. BenchTally'
  <2>1. ASSUME NEW k PROVE SentAs(k)' = SentAs(k)
    <3>1. SentAs(k)' = {q \in Own : task'[q] = "sent" /\ result'[q] = k}
      BY DEF SentAs, Own
    <3> QED
      BY <1>1, <3>1, Zenon DEF SentAs
  <2>2. InTask({"sent"})' = InTask({"sent"})
    <3>1. InTask({"sent"})' = {q \in Own : task'[q] \in {"sent"}}
      BY DEF InTask, Own
    <3> QED
      BY <1>1, <3>1, Zenon DEF InTask
  <2>3. Attempted' = Attempted
    BY DEF Attempted
  <2> QED
    BY <2>1, <2>2, <2>3, Zenon DEF BenchInv, BenchTally
<1> QED
  BY <1>2, <1>3, <1>4, Zenon DEF BenchInv

\* A result goes into the channel.
LEMMA PostView == ASSUME BenchInv, NEW r \in Own, Post(r) PROVE BenchInv'
<1>1. /\ task \in [Own -> TaskStates] /\ channel \in Seq(Results) /\ summary \in [Results -> Nat]
      /\ result \in [Own -> Results \cup {"none"}]
  BY DEF BenchInv, BenchTypes
<1>2. /\ task[r] = "returned" /\ task' = [task EXCEPT ![r] = "sent"] /\ result' = result
      /\ channel' = Append(channel, result[r]) /\ summary' = summary /\ main' = main
  BY DEF Post
<1>3. result[r] \in Results /\ main \notin {"collect", "done"}
  BY <1>1, <1>2 DEF BenchInv, BenchStages
<1>4. /\ task' \in [Own -> TaskStates] /\ task'[r] = "sent" /\ \A q \in Own \ {r} : task'[q] = task[q]
  BY <1>1, <1>2 DEF TaskStates
<1>5. BenchTypes'
  <2>1. channel' \in Seq(Results)
    BY <1>1, <1>2, <1>3
  <2> QED
    BY <1>1, <1>2, <1>4, <2>1, Zenon DEF BenchTypes
<1>6. BenchStages'
  <2>1. ASSUME NEW q \in Own PROVE result'[q] # "none" <=> task'[q] \in {"returned", "sent"}
    <3>1. CASE q = r
      BY <1>2, <1>4, <3>1, Zenon DEF BenchInv, BenchStages
    <3>2. CASE q # r
      BY <1>2, <1>4, <3>2, Zenon DEF BenchInv, BenchStages
    <3> QED
      BY <3>1, <3>2
  <2> QED
    BY <1>2, <1>3, <2>1, Zenon DEF BenchStages
<1>7. ASSUME NEW k \in Results
      PROVE  summary'[k] + Cardinality(InChannel(channel', k)) = Cardinality(SentAs(k)')
  <2>1. Cardinality(InChannel(channel', k)) = Cardinality(InChannel(channel, k)) + (IF k = result[r] THEN 1 ELSE 0)
    BY <1>1, <1>2, <1>3, InChannelAppend, Zenon
  <2>2. Cardinality(SentAs(k)') = Cardinality(SentAs(k)) + (IF k = result[r] THEN 1 ELSE 0)
    <3>1. SentAs(k)' = {q \in Own : task'[q] = "sent" /\ result'[q] = k}
      BY DEF SentAs, Own
    <3>2. IsFiniteSet(SentAs(k)) /\ Cardinality(SentAs(k)) \in Nat /\ r \notin SentAs(k)
      BY <1>2, OwnSets, Zenon DEF SentAs
    <3>3. CASE k = result[r]
      <4>1. SentAs(k)' = SentAs(k) \cup {r}
        BY <1>2, <1>4, <3>1, <3>3, Zenon DEF SentAs
      <4> QED
        BY <3>2, <3>3, <4>1, OneMore, Zenon
    <3>4. CASE k # result[r]
      <4>1. SentAs(k)' = SentAs(k)
        BY <1>2, <1>4, <3>1, <3>4, Zenon DEF SentAs
      <4> QED
        BY <3>2, <3>4, <4>1
    <3> QED
      BY <3>3, <3>4, Zenon
  <2>3. /\ summary[k] + Cardinality(InChannel(channel, k)) = Cardinality(SentAs(k))
        /\ summary[k] \in Nat /\ Cardinality(InChannel(channel, k)) \in Nat
    BY <1>1, InChannelFinite, Zenon DEF BenchInv, BenchTally
  <2> QED
    BY <1>2, <2>1, <2>2, <2>3
<1>8. Attempted' + Len(channel') = Cardinality(InTask({"sent"})')
  <2>1. InTask({"sent"})' = InTask({"sent"}) \cup {r} /\ r \notin InTask({"sent"})
    <3>1. InTask({"sent"})' = {q \in Own : task'[q] \in {"sent"}}
      BY DEF InTask, Own
    <3>2. task[r] # "sent"
      BY <1>2
    <3>3. r \notin InTask({"sent"})
      BY <3>2 DEF InTask
    <3>4. \A q \in Own : q \in InTask({"sent"}) <=> task[q] = "sent"
      BY DEF InTask
    <3>5. \A q \in Own : q \in InTask({"sent"})' <=> task'[q] = "sent"
      BY <3>1
    <3>6. InTask({"sent"}) \subseteq Own /\ InTask({"sent"})' \subseteq Own
      BY <3>1 DEF InTask
    <3> QED
      BY <1>4, <3>3, <3>4, <3>5, <3>6, Zenon
  <2>2. IsFiniteSet(InTask({"sent"})) /\ Cardinality(InTask({"sent"})) \in Nat
    BY OwnSets DEF InTask
  <2>3. Cardinality(InTask({"sent"})') = Cardinality(InTask({"sent"})) + 1
    BY <2>1, <2>2, OneMore, Zenon
  <2>4. Len(channel') = Len(channel) + 1 /\ Len(channel) \in Nat
    BY <1>1, <1>2, <1>3
  <2>5. Attempted' = Attempted /\ Attempted \in Nat
    BY <1>1, <1>2 DEF Attempted, Results
  <2>6. Attempted + Len(channel) = Cardinality(InTask({"sent"}))
    BY DEF BenchInv, BenchTally
  <2> QED
    BY <2>2, <2>3, <2>4, <2>5, <2>6
<1>9. BenchTally'
  BY <1>7, <1>8, Zenon DEF BenchTally, InChannel
<1> QED
  BY <1>5, <1>6, <1>9, Zenon DEF BenchInv

\* A result goes from the channel into the summary.
LEMMA CollectView == ASSUME BenchInv, Collect PROVE BenchInv'
<1>1. /\ task \in [Own -> TaskStates] /\ channel \in Seq(Results) /\ summary \in [Results -> Nat]
      /\ result \in [Own -> Results \cup {"none"}]
  BY DEF BenchInv, BenchTypes
<1>2. /\ channel # <<>> /\ channel' = Tail(channel) /\ summary' = [summary EXCEPT ![Head(channel)] = @ + 1]
      /\ task' = task /\ result' = result /\ main' = main /\ main = "collect"
  BY DEF Collect
<1>3. PICK h \in Results : h = Head(channel)
  BY <1>1, <1>2
<1>4. summary' \in [Results -> Nat] /\ \A k \in Results : summary'[k] = IF k = h THEN summary[k] + 1 ELSE summary[k]
  BY <1>1, <1>2, <1>3
<1>5. channel' \in Seq(Results) /\ Len(channel) = Len(channel') + 1 /\ Len(channel') \in Nat
  BY <1>1, <1>2
<1>6. BenchTypes' /\ BenchStages'
  BY <1>1, <1>2, <1>4, <1>5, Zenon DEF BenchInv, BenchTypes, BenchStages
<1>7. ASSUME NEW k \in Results
      PROVE  summary'[k] + Cardinality(InChannel(channel', k)) = Cardinality(SentAs(k)')
  <2>1. Cardinality(InChannel(channel, k)) = Cardinality(InChannel(channel', k)) + (IF k = h THEN 1 ELSE 0)
    BY <1>1, <1>2, <1>3, InChannelTail, Zenon
  <2>2. SentAs(k)' = SentAs(k)
    BY <1>2, Zenon DEF SentAs
  <2>3. /\ summary[k] + Cardinality(InChannel(channel, k)) = Cardinality(SentAs(k))
        /\ summary[k] \in Nat /\ Cardinality(InChannel(channel', k)) \in Nat
    BY <1>1, <1>5, InChannelFinite, Zenon DEF BenchInv, BenchTally
  <2> QED
    BY <1>4, <2>1, <2>2, <2>3
<1>8. Attempted' + Len(channel') = Cardinality(InTask({"sent"})')
  <2>1. InTask({"sent"})' = InTask({"sent"})
    BY <1>2, Zenon DEF InTask
  <2>2. Attempted' = Attempted + 1 /\ Attempted \in Nat
    BY <1>1, <1>2, <1>3, AttemptedRecord, Zenon
  <2>3. Attempted + Len(channel) = Cardinality(InTask({"sent"}))
    BY DEF BenchInv, BenchTally
  <2> QED
    BY <1>5, <2>1, <2>2, <2>3
<1>9. BenchTally'
  BY <1>7, <1>8, Zenon DEF BenchTally, InChannel
<1> QED
  BY <1>6, <1>9, Zenon DEF BenchInv

LEMMA BenchInitially == Init => BenchInv
<1> SUFFICES ASSUME Init PROVE BenchInv
  OBVIOUS
<1>1. /\ task = [r \in Own |-> "none"] /\ result = [r \in Own |-> "none"] /\ channel = <<>>
      /\ summary = [k \in Results |-> 0] /\ main \in {"issue", "join"} /\ Len(channel) = 0
  BY DEF Init
<1>2. BenchTypes
  BY <1>1 DEF BenchTypes, TaskStates
<1>3. BenchStages
  BY <1>1 DEF BenchStages
<1>4. InTask({"sent"}) = {} /\ \A k : SentAs(k) = {} /\ InChannel(channel, k) = {}
  BY <1>1 DEF InTask, SentAs, InChannel
<1>5. Attempted = 0
  BY <1>1 DEF Attempted, Results
<1>6. BenchTally
  <2>1. Cardinality({}) = 0
    BY FS_EmptySet, Zenon
  <2>2. \A k \in Results : summary[k] + Cardinality(InChannel(channel, k)) = Cardinality(SentAs(k))
    <3> SUFFICES ASSUME NEW k \in Results
                 PROVE  summary[k] + Cardinality(InChannel(channel, k)) = Cardinality(SentAs(k))
      OBVIOUS
    <3>1. summary[k] = 0 /\ Cardinality(InChannel(channel, k)) = 0 /\ Cardinality(SentAs(k)) = 0
      BY <1>1, <1>4, <2>1, Zenon
    <3> QED
      BY <3>1
  <2>3. Cardinality(InTask({"sent"})) = 0
    BY <1>4, <2>1, Zenon
  <2> QED
    BY <1>1, <1>5, <2>2, <2>3 DEF BenchTally
<1> QED
  BY <1>2, <1>3, <1>6, Zenon DEF BenchInv

LEMMA BenchInvStep == BenchInv /\ [Next]_vars => BenchInv'
<1> SUFFICES ASSUME BenchInv, [Next]_vars PROVE BenchInv'
  OBVIOUS
<1>1. /\ task \in [Own -> TaskStates] /\ channel \in Seq(Results) /\ summary \in [Results -> Nat]
      /\ result \in [Own -> Results \cup {"none"}]
      /\ \A r \in Own : result[r] # "none" <=> task[r] \in {"returned", "sent"}
      /\ main \in {"collect", "done"} => \A r \in Own : task[r] \in {"none", "sent"}
  BY DEF BenchInv, BenchTypes, BenchStages
<1>2. ASSUME task' = task, result' = result, channel' = channel, summary' = summary,
             main' \in {"collect", "done"} => \A r \in Own : task[r] \in {"none", "sent"},
             main' = "done" => channel = <<>>
      PROVE  BenchInv'
  <2>1. BenchTypes' /\ BenchTally'
    BY <1>2, Zenon DEF BenchInv, BenchTypes, BenchTally, InChannel, SentAs, InTask, Attempted
  <2>2. BenchStages'
    BY <1>1, <1>2, Zenon DEF BenchStages
  <2> QED
    BY <2>1, <2>2 DEF BenchInv
<1>3. ASSUME UNCHANGED bench PROVE BenchInv'
  BY <1>2, <1>3, Zenon DEF bench, BenchInv, BenchStages
<1>4. ASSUME NEW r \in Own, Issue(r) PROVE BenchInv'
  <2>1. /\ task[r] = "none" /\ task' = [task EXCEPT ![r] = "sending"] /\ main' = main
        /\ result' = result /\ channel' = channel /\ summary' = summary /\ main \in {"issue", "join"}
    BY <1>4, Zenon DEF Issue
  <2>2. /\ task[r] # "sent" /\ "sending" \in TaskStates \ {"sent"} /\ main \notin {"collect", "done"}
        /\ result'[r] # "none" <=> "sending" = "returned"
    BY <1>1, <2>1 DEF TaskStates
  <2> QED
    BY <1>1, <2>1, <2>2, TaskMoves, Zenon
<1>5. ASSUME NEW r \in Own, IssueFails(r) PROVE BenchInv'
  <2>1. PICK k \in {"timeout", "connect", "request"} :
          /\ task[r] = "none" /\ task' = [task EXCEPT ![r] = "returned"] /\ main' = main
          /\ result' = [result EXCEPT ![r] = k] /\ channel' = channel /\ summary' = summary
          /\ main \in {"issue", "join"}
    BY <1>5, Zenon DEF IssueFails
  <2>2. /\ task[r] # "sent" /\ "returned" \in TaskStates \ {"sent"} /\ main \notin {"collect", "done"}
        /\ result'[r] # "none" /\ result' \in [Own -> Results \cup {"none"}]
        /\ \A q \in Own \ {r} : result'[q] = result[q]
    BY <1>1, <2>1 DEF TaskStates, Results
  <2> QED
    BY <2>1, <2>2, TaskMoves, Zenon
<1>6. ASSUME NEW r \in Own, Return(r) PROVE BenchInv'
  <2>1. PICK k : /\ k \in {"timeout", "request"}
                           \cup (IF handler[r] # "answered" THEN {}
                                 ELSE {IF status[r] = 200 THEN "completed" ELSE "http_status"})
                 /\ result' = [result EXCEPT ![r] = k]
    BY <1>6, Zenon DEF Return
  <2>2. k \in Results /\ k # "none"
    BY <2>1 DEF Results
  <2>3. /\ task[r] = "sending" /\ task' = [task EXCEPT ![r] = "returned"] /\ main' = main
        /\ channel' = channel /\ summary' = summary
    BY <1>6, Zenon DEF Return
  <2>4. /\ task[r] # "sent" /\ "returned" \in TaskStates \ {"sent"} /\ main \notin {"collect", "done"}
        /\ result'[r] # "none" /\ result' \in [Own -> Results \cup {"none"}]
        /\ \A q \in Own \ {r} : result'[q] = result[q]
    BY <1>1, <2>1, <2>2, <2>3, Zenon DEF TaskStates
  <2> QED
    BY <2>3, <2>4, TaskMoves, Zenon
<1>7. ASSUME NEW r \in Own, Panic(r) PROVE BenchInv'
  <2>1. /\ task[r] = "sending" /\ task' = [task EXCEPT ![r] = "panicked"] /\ main' = main
        /\ result' = result /\ channel' = channel /\ summary' = summary
    BY <1>7, Zenon DEF Panic
  <2>2. /\ task[r] # "sent" /\ "panicked" \in TaskStates \ {"sent"} /\ main \notin {"collect", "done"}
        /\ result'[r] # "none" <=> "panicked" = "returned"
    BY <1>1, <2>1, Zenon DEF TaskStates
  <2> QED
    BY <1>1, <2>1, <2>2, TaskMoves, Zenon
<1>8. CASE IssueEnd \/ Expire \/ JoinFails
  <2>1. /\ task' = task /\ result' = result /\ channel' = channel /\ summary' = summary
        /\ main' \in {"join", "failed"} \/ main' = main
    BY <1>8, Zenon DEF IssueEnd, Expire, JoinFails
  <2>2. main' \in {"join", "failed"} => main' \notin {"collect", "done"} /\ main' # "done"
    OBVIOUS
  <2> QED
    BY <1>2, <2>1, <2>2, Zenon DEF BenchInv, BenchStages
<1>9. CASE Join
  <2>1. /\ task' = task /\ result' = result /\ channel' = channel /\ summary' = summary
        /\ main' = "collect" /\ InTask({"sending", "returned", "panicked"}) = {}
    BY <1>9, Zenon DEF Join
  <2>2. \A r \in Own : task[r] \in {"none", "sent"}
    BY <1>1, <2>1 DEF InTask, TaskStates
  <2> QED
    BY <1>2, <2>1, <2>2
<1>10. CASE Finish
  <2>1. /\ task' = task /\ result' = result /\ channel' = channel /\ summary' = summary
        /\ main = "collect" /\ channel = <<>>
    BY <1>10, Zenon DEF Finish
  <2> QED
    BY <1>1, <1>2, <2>1
<1>11. ASSUME NEW r \in Own, Reset(r) PROVE BenchInv'
  BY <1>3, <1>11, Zenon DEF Reset
<1>12. ASSUME NEW r \in Foreign, Others(r) PROVE BenchInv'
  BY <1>3, <1>12, Zenon DEF Others
<1>13. CASE UNCHANGED vars
  BY <1>3, <1>13, Zenon DEF vars
<1>14. CASE Done
  BY <1>13, <1>14, Zenon DEF Done
<1> QED
  BY <1>3, <1>4, <1>5, <1>6, <1>7, <1>8, <1>9, <1>10, <1>11, <1>12, <1>13, <1>14,
     PostView, CollectView, ZenonT(60) DEF Next

\* For any number of requests, in the open and in the closed loop: when stt-inferbench
\* has printed its report, every request it made is in it once, under the kind that
\* send_infer returned.
THEOREM ReportIsComplete == Spec => []ReportComplete
<1>1. BenchInv => ReportComplete
  <2> SUFFICES ASSUME BenchInv, main = "done"
               PROVE  /\ Attempted = Cardinality(Own) - Cardinality(InTask({"none"}))
                      /\ \A k \in Results : summary[k] = Cardinality({r \in Own : result[r] = k})
    BY DEF ReportComplete
  <2>1. /\ summary \in [Results -> Nat] /\ channel = <<>>
        /\ \A r \in Own : result[r] # "none" <=> task[r] \in {"returned", "sent"}
        /\ \A r \in Own : task[r] \in {"none", "sent"}
        /\ \A k \in Results : summary[k] + Cardinality(InChannel(channel, k)) = Cardinality(SentAs(k))
        /\ Attempted + Len(channel) = Cardinality(InTask({"sent"}))
    BY DEF BenchInv, BenchTypes, BenchStages, BenchTally
  <2>2. ASSUME NEW k \in Results PROVE summary[k] = Cardinality({r \in Own : result[r] = k})
    <3>1. InChannel(channel, k) = {}
      BY <2>1 DEF InChannel
    <3>2. k # "none"
      BY DEF Results
    <3>3. SentAs(k) = {r \in Own : result[r] = k}
      BY <2>1, <3>2, Zenon DEF SentAs
    <3>4. Cardinality(InChannel(channel, k)) = 0
      BY <3>1, FS_EmptySet, Zenon
    <3>5. summary[k] = Cardinality(SentAs(k))
      <4>1. summary[k] \in Nat /\ summary[k] + Cardinality(InChannel(channel, k)) = Cardinality(SentAs(k))
        BY <2>1
      <4> QED
        BY <3>4, <4>1
    <3> QED
      BY <3>3, <3>5, Zenon
  <2>3. Attempted = Cardinality(Own) - Cardinality(InTask({"none"}))
    <3>1. InTask({"sent"}) = Own \ InTask({"none"}) /\ Own \cap InTask({"none"}) = InTask({"none"})
      BY <2>1 DEF InTask
    <3>2. Cardinality(Own \ InTask({"none"})) = Cardinality(Own) - Cardinality(Own \cap InTask({"none"}))
      <4>1. IsFiniteSet(Own)
        BY OwnSets, Zenon
      <4> QED
        BY <4>1, FS_Difference, Zenon
    <3>3. Len(channel) = 0 /\ Attempted \in Nat
      BY <2>1 DEF Attempted, Results
    <3>4. Attempted = Cardinality(InTask({"sent"}))
      BY <2>1, <3>3
    <3> QED
      BY <3>1, <3>2, <3>4, Zenon
  <2> QED
    BY <2>2, <2>3, Zenon
<1> QED
  BY <1>1, BenchInitially, BenchInvStep, PTL DEF Spec
=============================================================================
