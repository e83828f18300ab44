------------------------ MODULE RustSyncHandoffProofs -----------------------
(***************************************************************************)
(* The hand-off between thread A and thread B of rust-sync, for any number *)
(* of connections and slots: a flush travels as a command, a slot and an   *)
(* answer, aborts overtake nothing, and each request is in exactly one of  *)
(* those places until it is answered.  From that follow the three hand-off *)
(* invariants, and that what a client sees is a behaviour of SttContract.  *)
(*                                                                         *)
(* The invariants are about the places of requests, so the inductive one,  *)
(* HandedOff, is about requests too: where a request of connection c with  *)
(* tag t can be, and that it is in no second place.                        *)
(*                                                                         *)
(* The last section is about what makes B drive a slot: that readiness is  *)
(* edge-triggered changes none of the above, and no event is ever missed.  *)
(***************************************************************************)
EXTENDS RustSyncProofs, RustSyncReadiness

\* More than the provers' default time, for slow machines.
USE SMTT(30)
-----------------------------------------------------------------------------
(* The requests of a connection. *)

\* A request of c is in one place only.
Once(c) ==
  \A t \in Nat :
    /\ \A i, j \in Nat : Sub(cmds, i, c, t) /\ Sub(cmds, j, c, t) => i = j
    /\ \A k, l \in Nat : Ans(dones, k, c, t) /\ Ans(dones, l, c, t) => k = l
    /\ \A i, k \in Nat : ~(Sub(cmds, i, c, t) /\ Ans(dones, k, c, t))
    /\ \A i \in Nat, s \in Slot : ~(Sub(cmds, i, c, t) /\ Own(slot, s, c, t))
    /\ \A k \in Nat, s \in Slot : ~(Ans(dones, k, c, t) /\ Own(slot, s, c, t))

\* Its tag is that of a frame that has left the buffer.
Spent(c) ==
  \A t \in Nat :
    \/ \E i \in Nat : Sub(cmds, i, c, t)
    \/ \E k \in Nat : Ans(dones, k, c, t)
    \/ \E s \in Slot : Own(slot, s, c, t)
    => 1 <= t /\ t <= Flushed(c)

\* Two requests of c in the channel have an abort between them; a request of c in the
\* channel has one before it when c still has a slot, and c has one slot at most.
Separated(c) ==
  \A t, u, i, j \in Nat : Sub(cmds, i, c, t) /\ Sub(cmds, j, c, u) /\ i < j =>
    \E k \in Nat : i < k /\ k < j /\ Abt(cmds, k, c)

Behind(c) ==
  \A t, u, j \in Nat, s \in Slot : Own(slot, s, c, t) /\ Sub(cmds, j, c, u) =>
    \E k \in Nat : k < j /\ Abt(cmds, k, c)

OneSlot(c) ==
  \A t, u \in Nat, s, r \in Slot : Own(slot, s, c, t) /\ Own(slot, r, c, u) => s = r

\* A request of c, in the channel or in the pool, is followed by an abort exactly when
\* c does not wait for it.
Wanted(c) ==
  /\ \A t, i \in Nat : Sub(cmds, i, c, t) =>
       (Live(c, t) <=> ~\E k \in Nat : i < k /\ Abt(cmds, k, c))
  /\ \A t \in Nat, s \in Slot : Own(slot, s, c, t) =>
       (Live(c, t) <=> ~\E k \in Nat : Abt(cmds, k, c))

\* The request for the batch c waits for is somewhere, and carries the audio of that
\* batch wherever it is.
Somewhere(c) ==
  pending[c] # NoBatch =>
    \/ \E i \in Nat : Sub(cmds, i, c, pending[c].oldest)
    \/ \E k \in Nat : Ans(dones, k, c, pending[c].oldest)
    \/ \E s \in Slot : Own(slot, s, c, pending[c].oldest)

RightAudio(c) ==
  pending[c] # NoBatch =>
    /\ \A i \in Nat : Sub(cmds, i, c, pending[c].oldest) =>
         cmds[i].body = AudioOf(c, pending[c])
    /\ \A k \in Nat : Ans(dones, k, c, pending[c].oldest) =>
         dones[k].audio = IF dones[k].ok THEN AudioOf(c, pending[c]) ELSE NoAudio
    /\ \A s \in Slot : Own(slot, s, c, pending[c].oldest) =>
         slot[s].req = AudioOf(c, pending[c])

HandoffInv ==
  \A c \in Conn : /\ Once(c) /\ Spent(c) /\ Separated(c) /\ Behind(c) /\ OneSlot(c)
                  /\ Wanted(c) /\ Somewhere(c) /\ RightAudio(c)

-----------------------------------------------------------------------------
(* Thread B. *)

\* Taking the first command leaves the order of the others as it was.
LEMMA PopOrder ==
  ASSUME TypeOK, HandoffInv, cmds # <<>>, cmds' = Tail(cmds), NEW d \in Conn
  PROVE  /\ Separated(d)'
         /\ \A t, i \in Nat : Sub(cmds', i, d, t) =>
              (Live(d, t) <=> ~\E k \in Nat : i < k /\ Abt(cmds', k, d))
         /\ \A t, u, j \in Nat, s \in Slot :
              Own(slot, s, d, t) /\ Sub(cmds', j, d, u) /\ ~Abt(cmds, 1, d) =>
                \E k \in Nat : k < j /\ Abt(cmds', k, d)
         /\ ~Abt(cmds, 1, d) =>
              ((\E k \in Nat : Abt(cmds, k, d)) <=> \E k \in Nat : Abt(cmds', k, d))
<1>1. /\ \A i \in Nat : \A t : Sub(cmds', i, d, t) <=> i >= 1 /\ Sub(cmds, i + 1, d, t)
      /\ \A i \in Nat : Abt(cmds', i, d) <=> i >= 1 /\ Abt(cmds, i + 1, d)
      /\ \A i \in Nat : \A t :
           Sub(cmds, i, d, t) => i = 1 \/ (i - 1 \in Nat \ {0} /\ Sub(cmds', i - 1, d, t))
      /\ \A i \in Nat :
           Abt(cmds, i, d) => i = 1 \/ (i - 1 \in Nat \ {0} /\ Abt(cmds', i - 1, d))
  BY PopView
<1>2. Separated(d)'
  <2> SUFFICES ASSUME NEW t \in Nat, NEW u \in Nat, NEW i \in Nat, NEW j \in Nat,
                      Sub(cmds', i, d, t), Sub(cmds', j, d, u), i < j
               PROVE  \E k \in Nat : i < k /\ k < j /\ Abt(cmds', k, d)
    BY DEF Separated
  <2>1. Sub(cmds, i + 1, d, t) /\ Sub(cmds, j + 1, d, u) /\ i + 1 \in Nat /\ j + 1 \in Nat
    BY <1>1
  <2>2. PICK k \in Nat : i + 1 < k /\ k < j + 1 /\ Abt(cmds, k, d)
    BY <2>1 DEF HandoffInv, Separated
  <2>3. k - 1 \in Nat /\ Abt(cmds', k - 1, d)
    BY <1>1, <2>2
  <2> QED
    BY <2>2, <2>3
<1>3. ASSUME NEW t \in Nat, NEW i \in Nat, Sub(cmds', i, d, t)
      PROVE  Live(d, t) <=> ~\E k \in Nat : i < k /\ Abt(cmds', k, d)
  <2>1. Sub(cmds, i + 1, d, t) /\ i + 1 \in Nat
    BY <1>1, <1>3
  <2>2. Live(d, t) <=> ~\E k \in Nat : i + 1 < k /\ Abt(cmds, k, d)
    BY <2>1 DEF HandoffInv, Wanted
  <2>3. ASSUME NEW k \in Nat, i < k, Abt(cmds', k, d)
        PROVE  i + 1 < k + 1 /\ k + 1 \in Nat /\ Abt(cmds, k + 1, d)
    BY <1>1, <2>3
  <2>4. ASSUME NEW k \in Nat, i + 1 < k, Abt(cmds, k, d)
        PROVE  i < k - 1 /\ k - 1 \in Nat /\ Abt(cmds', k - 1, d)
    BY <1>1, <2>4
  <2> QED
    BY <2>2, <2>3, <2>4
<1>4. ASSUME NEW t \in Nat, NEW u \in Nat, NEW j \in Nat, NEW s \in Slot,
             Own(slot, s, d, t), Sub(cmds', j, d, u), ~Abt(cmds, 1, d)
      PROVE  \E k \in Nat : k < j /\ Abt(cmds', k, d)
  <2>1. Sub(cmds, j + 1, d, u) /\ j + 1 \in Nat
    BY <1>1, <1>4
  <2>2. PICK k \in Nat : k < j + 1 /\ Abt(cmds, k, d)
    BY <1>4, <2>1 DEF HandoffInv, Behind
  <2>3. k - 1 \in Nat /\ Abt(cmds', k - 1, d)
    BY <1>1, <1>4, <2>2, Zenon
  <2> QED
    BY <2>2, <2>3
<1>5. ASSUME ~Abt(cmds, 1, d)
      PROVE  (\E k \in Nat : Abt(cmds, k, d)) <=> \E k \in Nat : Abt(cmds', k, d)
  <2>1. ASSUME NEW k \in Nat, Abt(cmds', k, d) PROVE k + 1 \in Nat /\ Abt(cmds, k + 1, d)
    BY <1>1, <2>1
  <2>2. ASSUME NEW k \in Nat, Abt(cmds, k, d) PROVE k - 1 \in Nat /\ Abt(cmds', k - 1, d)
    BY <1>1, <1>5, <2>2
  <2> QED
    BY <2>1, <2>2
<1> QED
  BY <1>2, <1>3, <1>4, <1>5

\* What a connection waits for is unchanged, so is what it has flushed.
LEMMA SameWaiting ==
  ASSUME UNCHANGED <<conns, pending>>, NEW d
  PROVE  \A t : Live(d, t)' <=> Live(d, t)
BY DEF Live

\* An abort leaves the channel and its connection loses its slot: no request that
\* somebody waits for is lost.
LEMMA HandoffAbort ==
  ASSUME TypeOK, BufferInv, HandoffInv, NEW c \in Conn, cmds # <<>>, Abt(cmds, 1, c),
         cmds' = Tail(cmds), dones' = dones, UNCHANGED aVars,
         \/ SameOwners /\ \A s \in Slot : slot[s].owner # c
         \/ \E s \in Slot : slot[s].owner = c /\ Returned(s)
  PROVE  HandoffInv'
<1>1. ASSUME NEW r \in Slot, NEW d \in Conn, NEW t \in Nat
      PROVE  /\ Own(slot', r, d, t) <=> Own(slot, r, d, t) /\ d # c
             /\ Own(slot', r, d, t) => slot'[r].req = slot[r].req
  <2>1. CASE SameOwners /\ \A s \in Slot : slot[s].owner # c
    BY <2>1 DEF SameOwners, Own
  <2>2. CASE \E s \in Slot : slot[s].owner = c /\ Returned(s)
    <3>1. PICK s \in Slot : slot[s].owner = c /\ Returned(s)
      BY <2>2
    <3>2. Own(slot, s, c, slot[s].tag) /\ slot[s].tag \in Nat
      BY <3>1 DEF Own, TypeOK, SlotRec
    <3>3. Own(slot, r, d, t) /\ d = c => r = s
      BY <3>2 DEF HandoffInv, OneSlot
    <3>4. Own(slot, r, d, t) /\ r = s => d = c
      BY <3>1 DEF Own
    <3>5. /\ Own(slot', r, d, t) <=> Own(slot, r, d, t) /\ r # s
          /\ Own(slot, r, d, t) => r = s \/ slot'[r].req = slot[r].req
      BY <3>1 DEF Returned
    <3> QED
      BY <3>3, <3>4, <3>5
  <2> QED
    BY <2>1, <2>2
<1>2. /\ \A i \in Nat : \A d, t : Sub(cmds', i, d, t) <=> i >= 1 /\ Sub(cmds, i + 1, d, t)
      /\ \A i \in DOMAIN cmds' : cmds'[i] = cmds[i + 1]
      /\ \A i \in Nat : \A d, t :
           Sub(cmds, i, d, t) => i = 1 \/ (i - 1 \in Nat \ {0} /\ Sub(cmds', i - 1, d, t))
  BY PopView
<1>3. \A d : Abt(cmds, 1, d) => d = c
  BY DEF Abt
<1>4. \A d, t : ~Sub(cmds, 1, d, t)
  BY DEF Abt, Sub
<1>5. /\ seq' = seq /\ meta' = meta /\ pending' = pending /\ conns' = conns
  BY DEF aVars
<1> SUFFICES ASSUME NEW d \in Conn
    PROVE (/\ Once(d) /\ Spent(d) /\ Separated(d) /\ Behind(d) /\ OneSlot(d)
           /\ Wanted(d) /\ Somewhere(d) /\ RightAudio(d))'
  BY DEF HandoffInv
<1>6. Once(d)'
  BY <1>1, <1>2 DEF HandoffInv, Once
<1>7. Spent(d)'
  BY <1>1, <1>2, <1>5 DEF HandoffInv, Spent, Flushed
<1>8. Separated(d)'
  BY PopOrder
<1>9. Behind(d)'
  BY <1>1, <1>3, PopOrder DEF Behind
<1>10. OneSlot(d)'
  BY <1>1 DEF HandoffInv, OneSlot
<1>11. Wanted(d)'
  <2>1. \A t \in Nat, s \in Slot : Own(slot', s, d, t) =>
          (Live(d, t) <=> ~\E k \in Nat : Abt(cmds', k, d))
    BY <1>1, <1>3, PopOrder DEF HandoffInv, Wanted
  <2> QED
    BY <1>5, <2>1, PopOrder, SameWaiting DEF Wanted
<1>12. ASSUME pending[d] # NoBatch
       PROVE  Somewhere(d)' /\ RightAudio(d)'
  <2>1. PICK t \in Nat : t = pending[d].oldest
    BY DEF TypeOK, Batch
  <2>2. Live(d, t)
    BY <1>12, <2>1 DEF BufferInv, Live
  <2>3. d = c => \A s \in Slot : ~Own(slot, s, d, t)
    BY <2>2 DEF HandoffInv, Wanted
  <2>4. \/ \E i \in Nat : Sub(cmds', i, d, t)
        \/ \E k \in Nat : Ans(dones, k, d, t)
        \/ \E s \in Slot : Own(slot', s, d, t)
    <3>1. \/ \E i \in Nat : Sub(cmds, i, d, t)
          \/ \E k \in Nat : Ans(dones, k, d, t)
          \/ \E s \in Slot : Own(slot, s, d, t)
      BY <1>12, <2>1, Zenon DEF HandoffInv, Somewhere
    <3> QED
      BY <1>1, <1>2, <1>4, <2>3, <3>1
  <2>5. \A i \in Nat : Sub(cmds', i, d, t) => cmds'[i].body = AudioOf(d, pending[d])
    <3>1. \A i \in Nat : Sub(cmds', i, d, t) => i \in DOMAIN cmds' /\ Sub(cmds, i + 1, d, t)
      BY <1>2 DEF Sub
    <3> QED
      BY <1>2, <1>12, <2>1, <3>1 DEF HandoffInv, RightAudio
  <2>6. \A s \in Slot : Own(slot', s, d, t) => slot'[s].req = AudioOf(d, pending[d])
    BY <1>1, <1>12, <2>1, Zenon DEF HandoffInv, RightAudio
  <2>7. Somewhere(d)'
    BY <1>5, <2>1, <2>4 DEF Somewhere
  <2>8. RightAudio(d)'
    BY <1>5, <1>12, <2>1, <2>5, <2>6, Zenon DEF HandoffInv, RightAudio
  <2> QED
    BY <2>7, <2>8
<1>13. Somewhere(d)' /\ RightAudio(d)'
  BY <1>5, <1>12, Zenon DEF Somewhere, RightAudio
<1> QED
  BY <1>6, <1>7, <1>8, <1>9, <1>10, <1>11, <1>13, Zenon

\* A request leaves the channel for the pool.
LEMMA HandoffLent ==
  ASSUME TypeOK, BufferInv, HandoffInv, NEW c \in Conn, NEW u \in Nat, NEW z \in Slot, cmds # <<>>,
         Sub(cmds, 1, c, u), cmds' = Tail(cmds), dones' = dones, UNCHANGED aVars,
         Lent(z, c, u, cmds[1].body)
  PROVE  HandoffInv'
<1>1. ASSUME NEW r \in Slot, NEW d \in Conn, NEW t \in Nat
      PROVE  /\ Own(slot', r, d, t) <=> Own(slot, r, d, t) \/ (r = z /\ d = c /\ t = u)
             /\ Own(slot, r, d, t) => slot'[r].req = slot[r].req
  BY DEF Lent
<1>2. /\ \A i \in Nat : \A d, t : Sub(cmds', i, d, t) <=> i >= 1 /\ Sub(cmds, i + 1, d, t)
      /\ \A i \in DOMAIN cmds' : cmds'[i] = cmds[i + 1]
      /\ \A i \in Nat : \A d, t :
           Sub(cmds, i, d, t) => i = 1 \/ (i - 1 \in Nat \ {0} /\ Sub(cmds', i - 1, d, t))
      /\ \A i \in Nat : \A d :
           Abt(cmds, i, d) => i = 1 \/ (i - 1 \in Nat \ {0} /\ Abt(cmds', i - 1, d))
      /\ \A i \in Nat : \A d : Abt(cmds', i, d) <=> i >= 1 /\ Abt(cmds, i + 1, d)
  BY PopView
<1>3. \A d : ~Abt(cmds, 1, d) /\ ~Abt(cmds, 0, d)
  BY DEF Abt, Sub, TypeOK
<1>4. \A d, t : Sub(cmds, 1, d, t) => d = c /\ t = u
  BY DEF Sub
<1>5. /\ seq' = seq /\ meta' = meta /\ pending' = pending /\ conns' = conns
  BY DEF aVars
<1>6. \A r \in Slot, t \in Nat : ~Own(slot, r, c, t)
  <2> SUFFICES ASSUME NEW r \in Slot, NEW t \in Nat, Own(slot, r, c, t) PROVE FALSE
    OBVIOUS
  <2>1. PICK k \in Nat : k < 1 /\ Abt(cmds, k, c)
    BY DEF HandoffInv, Behind
  <2> QED
    BY <1>3, <2>1
<1> SUFFICES ASSUME NEW d \in Conn
    PROVE (/\ Once(d) /\ Spent(d) /\ Separated(d) /\ Behind(d) /\ OneSlot(d)
           /\ Wanted(d) /\ Somewhere(d) /\ RightAudio(d))'
  BY DEF HandoffInv
<1>7. Once(d)'
  <2>1. Once(d)
    BY DEF HandoffInv
  <2>2. \A i \in Nat : ~Sub(cmds', i, c, u)
    BY <1>2, <2>1 DEF HandoffInv, Once
  <2>3. \A k \in Nat : ~Ans(dones, k, c, u)
    BY <2>1 DEF HandoffInv, Once
  <2> QED
    BY <1>1, <1>2, <2>1, <2>2, <2>3 DEF Once
<1>8. Spent(d)'
  BY <1>1, <1>2, <1>5 DEF HandoffInv, Spent, Flushed
<1>9. Separated(d)'
  BY PopOrder
<1>10. Behind(d)'
  <2>1. ASSUME d = c, NEW v \in Nat, NEW j \in Nat, Sub(cmds', j, d, v)
        PROVE  \E k \in Nat : k < j /\ Abt(cmds', k, d)
    <3>1. j >= 1 /\ j + 1 \in Nat /\ Sub(cmds, j + 1, d, v)
      BY <1>2, <2>1
    <3>2. PICK k \in Nat : 1 < k /\ k < j + 1 /\ Abt(cmds, k, d)
      BY <2>1, <3>1 DEF HandoffInv, Separated
    <3>3. k - 1 \in Nat /\ Abt(cmds', k - 1, d)
      BY <1>2, <3>2
    <3> QED
      BY <3>2, <3>3
  <2> QED
    BY <1>1, <1>3, <2>1, PopOrder DEF Behind
<1>11. OneSlot(d)'
  BY <1>1, <1>6 DEF HandoffInv, OneSlot
<1>12. Wanted(d)'
  <2>1. Live(c, u) <=> ~\E k \in Nat : Abt(cmds', k, c)
    <3>1. Live(c, u) <=> ~\E k \in Nat : 1 < k /\ Abt(cmds, k, c)
      BY DEF HandoffInv, Wanted
    <3>2. ASSUME NEW k \in Nat, Abt(cmds', k, c)
          PROVE  k + 1 \in Nat /\ 1 < k + 1 /\ Abt(cmds, k + 1, c)
      BY <1>2, <3>2
    <3>3. ASSUME NEW k \in Nat, 1 < k, Abt(cmds, k, c) PROVE k - 1 \in Nat /\ Abt(cmds', k - 1, c)
      BY <1>2, <3>3
    <3> QED
      BY <3>1, <3>2, <3>3
  <2>2. \A t \in Nat, s \in Slot : Own(slot', s, d, t) =>
          (Live(d, t) <=> ~\E k \in Nat : Abt(cmds', k, d))
    BY <1>1, <1>3, <2>1, PopOrder DEF HandoffInv, Wanted
  <2> QED
    BY <1>5, <2>2, PopOrder, SameWaiting DEF Wanted
<1>13. ASSUME pending[d] # NoBatch
       PROVE  Somewhere(d)' /\ RightAudio(d)'
  <2>1. PICK t \in Nat : t = pending[d].oldest
    BY DEF TypeOK, Batch
  <2>2. \/ \E i \in Nat : Sub(cmds', i, d, t)
        \/ \E k \in Nat : Ans(dones, k, d, t)
        \/ \E s \in Slot : Own(slot', s, d, t)
    <3>1. \/ \E i \in Nat : Sub(cmds, i, d, t)
          \/ \E k \in Nat : Ans(dones, k, d, t)
          \/ \E s \in Slot : Own(slot, s, d, t)
      BY <1>13, <2>1, Zenon DEF HandoffInv, Somewhere
    <3> QED
      BY <1>1, <1>2, <1>4, <3>1
  <2>3. \A i \in Nat : Sub(cmds', i, d, t) => cmds'[i].body = AudioOf(d, pending[d])
    <3>1. \A i \in Nat : Sub(cmds', i, d, t) => i \in DOMAIN cmds' /\ Sub(cmds, i + 1, d, t)
      BY <1>2, Zenon DEF Sub
    <3> QED
      BY <1>2, <1>13, <2>1, <3>1 DEF HandoffInv, RightAudio
  <2>4. \A s \in Slot : Own(slot', s, d, t) => slot'[s].req = AudioOf(d, pending[d])
    <3>1. d = c /\ t = u => cmds[1].body = AudioOf(d, pending[d])
      BY <1>13, <2>1, Zenon DEF HandoffInv, RightAudio
    <3> QED
      BY <1>1, <1>6, <1>13, <2>1, <3>1, ZenonT(60) DEF HandoffInv, RightAudio, Lent
  <2>5. Somewhere(d)'
    BY <1>5, <2>1, <2>2 DEF Somewhere
  <2>6. RightAudio(d)'
    BY <1>5, <1>13, <2>1, <2>3, <2>4, Zenon DEF HandoffInv, RightAudio
  <2> QED
    BY <2>5, <2>6
<1>14. Somewhere(d)' /\ RightAudio(d)'
  BY <1>5, <1>13, Zenon DEF Somewhere, RightAudio
<1> QED
  BY <1>7, <1>8, <1>9, <1>10, <1>11, <1>12, <1>14, Zenon

\* A request leaves the channel and is refused.
LEMMA HandoffRefused ==
  ASSUME TypeOK, BufferInv, HandoffInv, NEW c \in Conn, NEW u \in Nat, cmds # <<>>,
         Sub(cmds, 1, c, u), cmds' = Tail(cmds), SameOwners, UNCHANGED aVars,
         Reported(c, u, cmds[1].body)
  PROVE  HandoffInv'
<1>1. \A r \in Slot, d \in Conn, t \in Nat :
        /\ Own(slot', r, d, t) <=> Own(slot, r, d, t)
        /\ Own(slot, r, d, t) => slot'[r].req = slot[r].req
  BY DEF SameOwners
<1>2. /\ \A i \in Nat : \A d, t : Sub(cmds', i, d, t) <=> i >= 1 /\ Sub(cmds, i + 1, d, t)
      /\ \A i \in DOMAIN cmds' : cmds'[i] = cmds[i + 1]
      /\ \A i \in Nat : \A d, t :
           Sub(cmds, i, d, t) => i = 1 \/ (i - 1 \in Nat \ {0} /\ Sub(cmds', i - 1, d, t))
  BY PopView
<1>3. \A d : ~Abt(cmds, 1, d) /\ ~Abt(cmds, 0, d)
  BY DEF Abt, Sub, TypeOK
<1>4. \A d, t : Sub(cmds, 1, d, t) => d = c /\ t = u
  BY DEF Sub
<1>5. /\ seq' = seq /\ meta' = meta /\ pending' = pending /\ conns' = conns
  BY DEF aVars
<1>6. \A r \in Slot, t \in Nat : ~Own(slot, r, c, t)
  <2> SUFFICES ASSUME NEW r \in Slot, NEW t \in Nat, Own(slot, r, c, t) PROVE FALSE
    OBVIOUS
  <2>1. PICK k \in Nat : k < 1 /\ Abt(cmds, k, c)
    BY DEF HandoffInv, Behind
  <2> QED
    BY <1>3, <2>1
<1>7. PICK n \in Nat :
        /\ \A k \in Nat : \A d, t :
             Ans(dones', k, d, t) <=> Ans(dones, k, d, t) \/ (k = n /\ d = c /\ t = u)
        /\ \A k \in Nat : \A d, t : Ans(dones, k, d, t) => k # n /\ dones'[k] = dones[k]
        /\ dones'[n].audio = IF dones'[n].ok THEN cmds[1].body ELSE NoAudio
  BY DEF Reported
<1> SUFFICES ASSUME NEW d \in Conn
    PROVE (/\ Once(d) /\ Spent(d) /\ Separated(d) /\ Behind(d) /\ OneSlot(d)
           /\ Wanted(d) /\ Somewhere(d) /\ RightAudio(d))'
  BY DEF HandoffInv
<1>8. Once(d)'
  <2>1. Once(d) /\ Once(c)
    BY DEF HandoffInv
  <2>2. \A i \in Nat : ~Sub(cmds', i, c, u)
    BY <1>2, <2>1 DEF Once
  <2>3. \A k \in Nat : ~Ans(dones, k, c, u)
    BY <2>1 DEF Once
  <2> SUFFICES ASSUME NEW t \in Nat
      PROVE /\ \A i, j \in Nat : Sub(cmds', i, d, t) /\ Sub(cmds', j, d, t) => i = j
            /\ \A k, l \in Nat : Ans(dones', k, d, t) /\ Ans(dones', l, d, t) => k = l
            /\ \A j, k \in Nat : ~(Sub(cmds', j, d, t) /\ Ans(dones', k, d, t))
            /\ \A j \in Nat, s \in Slot : ~(Sub(cmds', j, d, t) /\ Own(slot', s, d, t))
            /\ \A k \in Nat, s \in Slot : ~(Ans(dones', k, d, t) /\ Own(slot', s, d, t))
    BY DEF Once
  <2>4. \A i, j \in Nat : Sub(cmds', i, d, t) /\ Sub(cmds', j, d, t) => i = j
    BY <1>2, <2>1 DEF Once
  <2>5. \A k, l \in Nat : Ans(dones', k, d, t) /\ Ans(dones', l, d, t) => k = l
    BY <1>7, <2>1, <2>3 DEF Once
  <2>6. \A j, k \in Nat : ~(Sub(cmds', j, d, t) /\ Ans(dones', k, d, t))
    <3>1. \A j \in Nat : Sub(cmds', j, d, t) => \E i \in Nat : Sub(cmds, i, d, t)
      BY <1>2
    <3>2. \A k \in Nat : Ans(dones', k, d, t) => Ans(dones, k, d, t) \/ (d = c /\ t = u)
      BY <1>7
    <3> QED
      BY <2>1, <2>2, <3>1, <3>2, Zenon DEF Once
  <2>7. \A j \in Nat, s \in Slot : ~(Sub(cmds', j, d, t) /\ Own(slot', s, d, t))
    BY <1>1, <1>2, <2>1 DEF Once
  <2>8. \A k \in Nat, s \in Slot : ~(Ans(dones', k, d, t) /\ Own(slot', s, d, t))
    BY <1>1, <1>6, <1>7, <2>1 DEF Once
  <2> QED
    BY <2>4, <2>5, <2>6, <2>7, <2>8
<1>9. Spent(d)'
  BY <1>1, <1>2, <1>5, <1>7 DEF HandoffInv, Spent, Flushed
<1>10. Separated(d)'
  BY PopOrder
<1>11. Behind(d)'
  BY <1>1, <1>3, PopOrder DEF Behind
<1>12. OneSlot(d)'
  BY <1>1 DEF HandoffInv, OneSlot
<1>13. Wanted(d)'
  <2>1. \A t \in Nat, s \in Slot : Own(slot', s, d, t) =>
          (Live(d, t) <=> ~\E k \in Nat : Abt(cmds', k, d))
    BY <1>1, <1>3, PopOrder, Zenon DEF HandoffInv, Wanted
  <2> QED
    BY <1>5, <2>1, PopOrder, SameWaiting, Zenon DEF Wanted
<1>14. ASSUME pending[d] # NoBatch
       PROVE  Somewhere(d)' /\ RightAudio(d)'
  <2>1. PICK t \in Nat : t = pending[d].oldest
    BY DEF TypeOK, Batch
  <2>2. \/ \E i \in Nat : Sub(cmds', i, d, t)
        \/ \E k \in Nat : Ans(dones', k, d, t)
        \/ \E s \in Slot : Own(slot', s, d, t)
    <3>1. \/ \E i \in Nat : Sub(cmds, i, d, t)
          \/ \E k \in Nat : Ans(dones, k, d, t)
          \/ \E s \in Slot : Own(slot, s, d, t)
      BY <1>14, <2>1, Zenon DEF HandoffInv, Somewhere
    <3>2. Ans(dones', n, c, u)
      BY <1>7, Zenon
    <3> QED
      BY <1>1, <1>2, <1>4, <1>7, <3>1, <3>2
  <2>3. \A i \in Nat : Sub(cmds', i, d, t) => cmds'[i].body = AudioOf(d, pending[d])
    <3>1. \A i \in Nat : Sub(cmds', i, d, t) => i \in DOMAIN cmds' /\ Sub(cmds, i + 1, d, t)
      BY <1>2, Zenon DEF Sub
    <3>2. \A i \in Nat : Sub(cmds, i, d, t) => cmds[i].body = AudioOf(d, pending[d])
      BY <1>14, <2>1, ZenonT(60) DEF HandoffInv, RightAudio
    <3>3. \A i \in Nat : i + 1 \in Nat
      OBVIOUS
    <3> QED
      BY <1>2, <3>1, <3>2, <3>3
  <2>4. \A s \in Slot : Own(slot', s, d, t) => slot'[s].req = AudioOf(d, pending[d])
    BY <1>1, <1>14, <2>1, ZenonT(60) DEF HandoffInv, RightAudio
  <2>5. \A k \in Nat : Ans(dones', k, d, t) =>
          dones'[k].audio = IF dones'[k].ok THEN AudioOf(d, pending[d]) ELSE NoAudio
    <3>1. d = c /\ t = u => cmds[1].body = AudioOf(d, pending[d])
      BY <1>14, <2>1, ZenonT(60) DEF HandoffInv, RightAudio
    <3>2. ASSUME NEW k \in Nat, Ans(dones, k, d, t)
          PROVE  dones'[k].audio = IF dones'[k].ok THEN AudioOf(d, pending[d]) ELSE NoAudio
      <4>1. dones'[k] = dones[k]
        BY <1>7, <3>2, Zenon
      <4>2. dones[k].audio = IF dones[k].ok THEN AudioOf(d, pending[d]) ELSE NoAudio
        BY <1>14, <2>1, <3>2, ZenonT(60) DEF HandoffInv, RightAudio
      <4> QED
        BY <4>1, <4>2, Zenon
    <3>3. d = c /\ t = u => dones'[n].audio = IF dones'[n].ok THEN AudioOf(d, pending[d]) ELSE NoAudio
      BY <1>7, <3>1, Zenon
    <3> QED
      BY <1>7, <3>2, <3>3, Zenon
  <2>6. Somewhere(d)'
    BY <1>5, <2>1, <2>2 DEF Somewhere
  <2>7. RightAudio(d)'
    BY <1>5, <2>1, <2>3, <2>4, <2>5, Zenon DEF RightAudio
  <2> QED
    BY <2>6, <2>7
<1>15. Somewhere(d)' /\ RightAudio(d)'
  BY <1>5, <1>14, Zenon DEF Somewhere, RightAudio
<1> QED
  BY <1>8, <1>9, <1>10, <1>11, <1>12, <1>13, <1>15, Zenon

\* A slot is given back and its result goes to the channel.
LEMMA HandoffFinish ==
  ASSUME TypeOK, BufferInv, HandoffInv, NEW z \in Slot, NEW c \in Conn, NEW u \in Nat,
         Own(slot, z, c, u), Returned(z), Reported(c, u, slot[z].req),
         cmds' = cmds, UNCHANGED aVars
  PROVE  HandoffInv'
<1>1. /\ seq' = seq /\ meta' = meta /\ pending' = pending /\ conns' = conns
  BY DEF aVars
<1>2. \A r \in Slot, d \in Conn, t \in Nat :
        /\ Own(slot', r, d, t) <=> Own(slot, r, d, t) /\ r # z
        /\ Own(slot, r, d, t) => r = z \/ slot'[r].req = slot[r].req
  BY Zenon DEF Returned
<1>3. PICK n \in Nat :
        /\ \A k \in Nat : \A d, t :
             Ans(dones', k, d, t) <=> Ans(dones, k, d, t) \/ (k = n /\ d = c /\ t = u)
        /\ \A k \in Nat : \A d, t : Ans(dones, k, d, t) => k # n /\ dones'[k] = dones[k]
        /\ dones'[n].audio = IF dones'[n].ok THEN slot[z].req ELSE NoAudio
  BY DEF Reported
<1>4. \A d, t : Own(slot, z, d, t) => d = c /\ t = u
  BY DEF Own
<1> SUFFICES ASSUME NEW d \in Conn
    PROVE (/\ Once(d) /\ Spent(d) /\ Separated(d) /\ Behind(d) /\ OneSlot(d)
           /\ Wanted(d) /\ Somewhere(d) /\ RightAudio(d))'
  BY Zenon DEF HandoffInv
<1>5. Once(d)'
  <2>1. Once(d) /\ Once(c) /\ OneSlot(d)
    BY DEF HandoffInv
  <2>2. \A k \in Nat : ~Ans(dones, k, c, u) /\ ~Sub(cmds, k, c, u)
    BY <2>1 DEF Once
  <2> SUFFICES ASSUME NEW t \in Nat
      PROVE /\ \A i, j \in Nat : Sub(cmds', i, d, t) /\ Sub(cmds', j, d, t) => i = j
            /\ \A k, l \in Nat : Ans(dones', k, d, t) /\ Ans(dones', l, d, t) => k = l
            /\ \A j, k \in Nat : ~(Sub(cmds', j, d, t) /\ Ans(dones', k, d, t))
            /\ \A j \in Nat, s \in Slot : ~(Sub(cmds', j, d, t) /\ Own(slot', s, d, t))
            /\ \A k \in Nat, s \in Slot : ~(Ans(dones', k, d, t) /\ Own(slot', s, d, t))
    BY Zenon DEF Once
  <2>3. \A k, l \in Nat : Ans(dones', k, d, t) /\ Ans(dones', l, d, t) => k = l
    BY <1>3, <2>1, <2>2 DEF Once
  <2>4. \A j, k \in Nat : ~(Sub(cmds', j, d, t) /\ Ans(dones', k, d, t))
    BY <1>3, <2>1, <2>2 DEF Once
  <2>5. \A k \in Nat, s \in Slot : ~(Ans(dones', k, d, t) /\ Own(slot', s, d, t))
    BY <1>2, <1>3, <2>1 DEF Once, OneSlot
  <2> QED
    BY <1>2, <2>1, <2>3, <2>4, <2>5, Zenon DEF Once
<1>6. Spent(d)'
  <2>1. Spent(d) /\ Flushed(d)' = Flushed(d)
    BY <1>1, Zenon DEF HandoffInv, Flushed
  <2>2. \A t \in Nat, k \in Nat :
          Ans(dones', k, d, t) => Ans(dones, k, d, t) \/ \E s \in Slot : Own(slot, s, d, t)
    BY <1>3
  <2>3. \A t \in Nat, s \in Slot : Own(slot', s, d, t) => Own(slot, s, d, t)
    BY <1>2
  <2> QED
    BY <2>1, <2>2, <2>3, Zenon DEF Spent
<1>7. Separated(d)' /\ Behind(d)' /\ OneSlot(d)'
  BY <1>2 DEF HandoffInv, Separated, Behind, OneSlot
<1>8. Wanted(d)'
  BY <1>1, <1>2, SameWaiting DEF HandoffInv, Wanted
<1>9. ASSUME pending[d] # NoBatch
      PROVE  Somewhere(d)' /\ RightAudio(d)'
  <2>1. PICK t \in Nat : t = pending[d].oldest
    BY DEF TypeOK, Batch
  <2>2. \/ \E i \in Nat : Sub(cmds', i, d, t)
        \/ \E k \in Nat : Ans(dones', k, d, t)
        \/ \E s \in Slot : Own(slot', s, d, t)
    <3>1. \/ \E i \in Nat : Sub(cmds, i, d, t)
          \/ \E k \in Nat : Ans(dones, k, d, t)
          \/ \E s \in Slot : Own(slot, s, d, t)
      BY <1>9, <2>1, ZenonT(60) DEF HandoffInv, Somewhere
    <3>2. Ans(dones', n, c, u)
      BY <1>3, Zenon
    <3> QED
      BY <1>2, <1>3, <1>4, <3>1, <3>2
  <2>3. \A s \in Slot : Own(slot', s, d, t) => slot'[s].req = AudioOf(d, pending[d])
    BY <1>2, <1>9, <2>1, Zenon DEF HandoffInv, RightAudio
  <2>4. \A k \in Nat : Ans(dones', k, d, t) =>
          dones'[k].audio = IF dones'[k].ok THEN AudioOf(d, pending[d]) ELSE NoAudio
    <3>1. d = c /\ t = u => slot[z].req = AudioOf(d, pending[d])
      BY <1>9, <2>1, Zenon DEF HandoffInv, RightAudio
    <3>2. \A k \in Nat : Ans(dones, k, d, t) =>
            dones[k].audio = IF dones[k].ok THEN AudioOf(d, pending[d]) ELSE NoAudio
      BY <1>9, <2>1, ZenonT(60) DEF HandoffInv, RightAudio
    <3> QED
      BY <1>3, <3>1, <3>2
  <2>5. Somewhere(d)'
    BY <1>1, <2>1, <2>2 DEF Somewhere
  <2>6. RightAudio(d)'
    BY <1>1, <1>9, <2>1, <2>3, <2>4, ZenonT(60) DEF HandoffInv, RightAudio
  <2> QED
    BY <2>5, <2>6
<1>10. Somewhere(d)' /\ RightAudio(d)'
  BY <1>1, <1>9 DEF Somewhere, RightAudio
<1> QED
  BY <1>5, <1>6, <1>7, <1>8, <1>10, Zenon

\* Steps that move no request: the socket events of a slot, and what thread A does
\* with a connection short of starting, answering or dropping a batch.
LEMMA HandoffSame ==
  ASSUME TypeOK, BufferInv, HandoffInv, SameOwners, UNCHANGED <<cmds, dones, pending>>,
         \A c \in Conn : Flushed(c)' = Flushed(c),
         \A c \in Conn : c \in conns /\ c \notin conns' => pending[c] = NoBatch
         ,\A c \in Conn : c \in conns' /\ c \notin conns => pending[c] = NoBatch
  PROVE  HandoffInv'
<1>1. \A r \in Slot, d \in Conn, t \in Nat :
        /\ Own(slot', r, d, t) <=> Own(slot, r, d, t)
        /\ Own(slot, r, d, t) => slot'[r].req = slot[r].req
  BY DEF SameOwners
<1> SUFFICES ASSUME NEW d \in Conn
    PROVE (/\ Once(d) /\ Spent(d) /\ Separated(d) /\ Behind(d) /\ OneSlot(d)
           /\ Wanted(d) /\ Somewhere(d) /\ RightAudio(d))'
  BY DEF HandoffInv
<1>2. Once(d)'
  BY <1>1 DEF HandoffInv, Once
<1>3. Spent(d)'
  BY <1>1 DEF HandoffInv, Spent
<1>4. Separated(d)' /\ Behind(d)' /\ OneSlot(d)'
  BY <1>1 DEF HandoffInv, Separated, Behind, OneSlot
<1>5. Wanted(d)'
  <2>1. \A t \in Nat : 1 <= t => (Live(d, t)' <=> Live(d, t))
    BY DEF Live, NoBatch
  <2>2. \A t, i \in Nat : Sub(cmds, i, d, t) => 1 <= t
    BY DEF HandoffInv, Spent
  <2>3. \A t \in Nat, s \in Slot : Own(slot, s, d, t) => 1 <= t
    BY DEF HandoffInv, Spent
  <2> QED
    BY <1>1, <2>1, <2>2, <2>3, Zenon DEF HandoffInv, Wanted
<1>6. ASSUME pending[d] # NoBatch PROVE Somewhere(d)' /\ RightAudio(d)'
  <2>1. PICK t \in Nat : t = pending[d].oldest
    <3>1. pending \in [Conn -> Batch]
      BY Zenon DEF TypeOK
    <3> QED
      BY <3>1 DEF Batch
  <2>2. Somewhere(d)'
    BY <1>1, <1>6, <2>1, Zenon DEF HandoffInv, Somewhere
  <2>3. RightAudio(d)'
    BY <1>1, <1>6, <2>1, ZenonT(60) DEF HandoffInv, RightAudio
  <2> QED
    BY <2>2, <2>3
<1>7. Somewhere(d)' /\ RightAudio(d)'
  BY <1>6 DEF Somewhere, RightAudio
<1> QED
  BY <1>2, <1>3, <1>4, <1>5, <1>7, Zenon
-----------------------------------------------------------------------------
(* Thread A. *)

\* A batch is submitted: its tag is new, and whatever its connection had in the channel
\* or in the pool has been aborted.
LEMMA HandoffFlush ==
  ASSUME TypeOK, BufferInv, HandoffInv, NEW c \in Conn, NEW b \in Batch,
         c \in conns, pending[c] = NoBatch, b.oldest = Flushed(c) + 1,
         cmds' = Append(cmds, Submit(c, b)), pending' = [pending EXCEPT ![c] = b],
         Flushed(c)' \in Nat, Flushed(c)' >= b.oldest, \A d \in Conn : d # c => Flushed(d)' = Flushed(d),
         UNCHANGED <<conns, dones, slot>>
  PROVE  HandoffInv'
<1>3. PICK f \in Nat : f = Flushed(c)
  BY DEF TypeOK, BufferInv, Flushed
<1>4. PICK v \in Nat : v = b.oldest /\ v = f + 1
  BY <1>3
<1>5. /\ pending'[c] = b /\ \A d \in Conn : d # c => pending'[d] = pending[d]
  BY DEF TypeOK
<1>6. /\ \A k \in Nat : ~Ans(dones, k, c, v) /\ ~Sub(cmds, k, c, v)
      /\ \A s \in Slot : ~Own(slot, s, c, v)
  BY <1>3, <1>4 DEF HandoffInv, Spent
<1>7. \A t \in Nat : 1 <= t => ~Live(c, t)
  BY DEF Live, NoBatch
<1>8. /\ \A t, i \in Nat : Sub(cmds, i, c, t) => \E k \in Nat : i < k /\ Abt(cmds, k, c)
      /\ \A t \in Nat, s \in Slot : Own(slot, s, c, t) => \E k \in Nat : Abt(cmds, k, c)
  BY <1>7 DEF HandoffInv, Spent, Wanted
<1>9. PICK n \in Nat :
        /\ \A i \in Nat : \A d, t : Sub(cmds', i, d, t) <=>
             Sub(cmds, i, d, t) \/ (i = n /\ d = c /\ t = v)
        /\ \A i \in Nat : \A d : Abt(cmds', i, d) <=> Abt(cmds, i, d)
        /\ \A i \in Nat : \A d, t : Sub(cmds, i, d, t) => i < n /\ cmds'[i] = cmds[i]
        /\ \A i \in Nat : \A d : Abt(cmds, i, d) => i < n
        /\ cmds'[n].body = AudioOf(c, b)
  <2>1. Submitted(c, b.oldest, AudioOf(c, b))
    BY SubmitView
  <2>2. Submitted(c, v, AudioOf(c, b))
    BY <1>4, <2>1
  <2> QED
    BY <2>2, Zenon DEF Submitted
<1> SUFFICES ASSUME NEW d \in Conn
    PROVE (/\ Once(d) /\ Spent(d) /\ Separated(d) /\ Behind(d) /\ OneSlot(d)
           /\ Wanted(d) /\ Somewhere(d) /\ RightAudio(d))'
  BY Zenon DEF HandoffInv
<1>10. Once(d)'
  BY <1>6, <1>9 DEF HandoffInv, Once
<1>11. Spent(d)'
  <2>1. CASE d = c
    <3>2. \A t \in Nat : \/ \E i \in Nat : Sub(cmds, i, c, t)
                         \/ \E k \in Nat : Ans(dones, k, c, t)
                         \/ \E s \in Slot : Own(slot, s, c, t)
                         => 1 <= t /\ t <= f
      BY <1>3 DEF HandoffInv, Spent
    <3>3. PICK g \in Int : g = Flushed(c)' /\ g >= v
      BY <1>4
    <3> QED
      BY <1>4, <1>9, <2>1, <3>2, <3>3 DEF Spent
  <2>2. CASE d # c
    BY <1>9, <2>2, Zenon DEF HandoffInv, Spent
  <2> QED
    BY <2>1, <2>2, Zenon
<1>12. Separated(d)'
  BY <1>8, <1>9 DEF HandoffInv, Separated
<1>13. Behind(d)'
  BY <1>8, <1>9 DEF HandoffInv, Behind
<1>14. OneSlot(d)'
  BY Zenon DEF HandoffInv, OneSlot
<1>15. Wanted(d)'
  <2>1. CASE d = c
    <3>1. \A t \in Nat : Live(c, t)' <=> t = v
      BY <1>4, <1>5, Zenon DEF Live
    <3>2. \A k \in Nat : Abt(cmds', k, c) => k < n
      BY <1>9, Zenon
    <3> QED
      BY <1>6, <1>8, <1>9, <2>1, <3>1, <3>2 DEF Wanted
  <2>2. CASE d # c
    <3>1. \A t \in Nat : Live(d, t)' <=> Live(d, t)
      BY <1>5, <2>2, Zenon DEF Live
    <3> QED
      BY <1>9, <2>2, <3>1, ZenonT(60) DEF HandoffInv, Wanted
  <2> QED
    BY <2>1, <2>2
<1>16. Somewhere(d)'
  BY <1>4, <1>5, <1>9 DEF HandoffInv, Somewhere
<1>17. RightAudio(d)'
  <2>1. CASE d = c
    BY <1>4, <1>5, <1>6, <1>9, <2>1, Zenon DEF RightAudio
  <2>2. CASE d # c
    BY <1>5, <1>9, <2>2, ZenonT(60) DEF HandoffInv, RightAudio
  <2> QED
    BY <2>1, <2>2
<1> QED
  BY <1>10, <1>11, <1>12, <1>13, <1>14, <1>15, <1>16, <1>17, Zenon

\* A batch is given up: an abort follows its request.
LEMMA HandoffDrop ==
  ASSUME TypeOK, BufferInv, HandoffInv, NEW c \in Conn, cmds' = Append(cmds, Abort(c)),
         pending' = [pending EXCEPT ![c] = NoBatch],
         \A d \in Conn : d # c => (d \in conns' <=> d \in conns),
         \A d \in Conn : Flushed(d)' = Flushed(d),
         UNCHANGED <<dones, slot>>
  PROVE  HandoffInv'
<1>1. PICK n \in Nat :
        /\ \A i \in Nat : \A d, t : Sub(cmds', i, d, t) <=> Sub(cmds, i, d, t)
        /\ \A i \in Nat : \A d : Abt(cmds', i, d) <=> Abt(cmds, i, d) \/ (i = n /\ d = c)
        /\ \A i \in Nat : \A d, t : Sub(cmds, i, d, t) => i < n /\ cmds'[i] = cmds[i]
  BY AbortView, Zenon
<1>2. /\ pending'[c] = NoBatch /\ \A d \in Conn : d # c => pending'[d] = pending[d]
  BY DEF TypeOK
<1>3. \A t \in Nat : 1 <= t => ~Live(c, t)'
  BY <1>2 DEF Live, NoBatch
<1> SUFFICES ASSUME NEW d \in Conn
    PROVE (/\ Once(d) /\ Spent(d) /\ Separated(d) /\ Behind(d) /\ OneSlot(d)
           /\ Wanted(d) /\ Somewhere(d) /\ RightAudio(d))'
  BY DEF HandoffInv
<1>4. Once(d)'
  BY <1>1 DEF HandoffInv, Once
<1>5. Spent(d)'
  BY <1>1 DEF HandoffInv, Spent
<1>6. Separated(d)' /\ Behind(d)' /\ OneSlot(d)'
  BY <1>1 DEF HandoffInv, Separated, Behind, OneSlot
<1>7. Wanted(d)'
  <2>1. CASE d = c
    <3>1. \A t, i \in Nat : Sub(cmds, i, c, t) => 1 <= t
      BY DEF HandoffInv, Spent
    <3>2. \A t \in Nat, s \in Slot : Own(slot, s, c, t) => 1 <= t
      BY Zenon DEF HandoffInv, Spent
    <3> QED
      BY <1>1, <1>3, <2>1, <3>1, <3>2, Zenon DEF Wanted
  <2>2. CASE d # c
    <3>1. \A t \in Nat : Live(d, t)' <=> Live(d, t)
      BY <1>2, <2>2, Zenon DEF Live
    <3> QED
      BY <1>1, <2>2, <3>1 DEF HandoffInv, Wanted
  <2> QED
    BY <2>1, <2>2, Zenon
<1>8. Somewhere(d)'
  BY <1>1, <1>2 DEF HandoffInv, Somewhere
<1>9. RightAudio(d)'
  BY <1>1, <1>2, ZenonT(60) DEF HandoffInv, RightAudio
<1> QED
  BY <1>4, <1>5, <1>6, <1>7, <1>8, <1>9

\* A result is read: it answers the batch its connection waits for, or nobody waits
\* for it.
LEMMA HandoffTake ==
  ASSUME TypeOK, BufferInv, HandoffInv, dones # <<>>, dones' = Tail(dones),
         NEW c \in Conn, c = Head(dones).conn, NEW u \in Nat, u = Head(dones).tag,
         IF Matches(c, u) THEN pending' = [pending EXCEPT ![c] = NoBatch] ELSE pending' = pending,
         \A d \in Conn : Flushed(d)' = Flushed(d),
         UNCHANGED <<conns, cmds, slot>>
  PROVE  HandoffInv'
<1>1. /\ \A k \in Nat : \A d, t : Ans(dones', k, d, t) <=> k >= 1 /\ Ans(dones, k + 1, d, t)
      /\ \A k \in DOMAIN dones' : dones'[k] = dones[k + 1]
      /\ \A k \in Nat : \A d, t :
           Ans(dones, k, d, t) => k = 1 \/ (k - 1 \in Nat \ {0} /\ Ans(dones', k - 1, d, t))
      /\ Ans(dones, 1, c, u)
  BY TakeView, Zenon
<1>2. \A d, t : Ans(dones, 1, d, t) => d = c /\ t = u
  BY <1>1, Zenon DEF Ans
<1>3. \A d \in Conn : pending'[d] = IF d = c /\ Matches(c, u) THEN NoBatch ELSE pending[d]
  BY DEF TypeOK
<1>4. Matches(c, u) <=> pending[c] # NoBatch /\ pending[c].oldest = u
  BY Zenon DEF Matches, BufferInv, Tag
<1>5. /\ \A i \in Nat : ~Sub(cmds, i, c, u)
      /\ \A s \in Slot : ~Own(slot, s, c, u)
      /\ 1 <= u
  BY <1>1 DEF HandoffInv, Once, Spent
<1> SUFFICES ASSUME NEW d \in Conn
    PROVE (/\ Once(d) /\ Spent(d) /\ Separated(d) /\ Behind(d) /\ OneSlot(d)
           /\ Wanted(d) /\ Somewhere(d) /\ RightAudio(d))'
  BY Zenon DEF HandoffInv
<1>6. Once(d)'
  BY <1>1 DEF HandoffInv, Once
<1>7. Spent(d)'
  BY <1>1 DEF HandoffInv, Spent
<1>8. Separated(d)' /\ Behind(d)' /\ OneSlot(d)'
  BY Zenon DEF HandoffInv, Separated, Behind, OneSlot
<1>9. Wanted(d)'
  <2>1. \A t \in Nat : 1 <= t /\ ~(d = c /\ t = u) => (Live(d, t)' <=> Live(d, t))
    BY <1>3, <1>4 DEF Live, NoBatch
  <2>2. \A t, i \in Nat : Sub(cmds, i, d, t) => 1 <= t
    BY DEF HandoffInv, Spent
  <2>3. \A t \in Nat, s \in Slot : Own(slot, s, d, t) => 1 <= t
    BY DEF HandoffInv, Spent
  <2> QED
    BY <1>5, <2>1, <2>2, <2>3, Zenon DEF HandoffInv, Wanted
<1>10. ASSUME pending'[d] # NoBatch PROVE Somewhere(d)' /\ RightAudio(d)'
  <2>1. pending'[d] = pending[d] /\ pending[d] # NoBatch
    BY <1>3, <1>10, Zenon
  <2>2. PICK t \in Nat : t = pending[d].oldest
    BY DEF TypeOK, Batch
  <2>3. ~(d = c /\ t = u)
    BY <1>3, <1>4, <1>10, <2>1, <2>2, Zenon
  <2>4. \/ \E i \in Nat : Sub(cmds, i, d, t)
        \/ \E k \in Nat : Ans(dones', k, d, t)
        \/ \E s \in Slot : Own(slot, s, d, t)
    <3>1. \/ \E i \in Nat : Sub(cmds, i, d, t)
          \/ \E k \in Nat : Ans(dones, k, d, t)
          \/ \E s \in Slot : Own(slot, s, d, t)
      BY <2>1, <2>2, Zenon DEF HandoffInv, Somewhere
    <3> QED
      BY <1>1, <1>2, <2>3, <3>1
  <2>5. \A k \in Nat : Ans(dones', k, d, t) =>
          dones'[k].audio = IF dones'[k].ok THEN AudioOf(d, pending[d]) ELSE NoAudio
    <3>1. \A k \in Nat : Ans(dones', k, d, t) => k \in DOMAIN dones' /\ Ans(dones, k + 1, d, t)
      BY <1>1 DEF Ans
    <3>2. \A k \in Nat : Ans(dones, k, d, t) =>
            dones[k].audio = IF dones[k].ok THEN AudioOf(d, pending[d]) ELSE NoAudio
      BY <2>1, <2>2, Zenon DEF HandoffInv, RightAudio
    <3>3. \A k \in Nat : k + 1 \in Nat
      OBVIOUS
    <3> QED
      BY <1>1, <3>1, <3>2, <3>3
  <2>6. Somewhere(d)'
    BY <2>1, <2>2, <2>4 DEF Somewhere
  <2>7. RightAudio(d)'
    BY <2>1, <2>2, <2>5, ZenonT(60) DEF HandoffInv, RightAudio
  <2> QED
    BY <2>6, <2>7
<1>11. Somewhere(d)' /\ RightAudio(d)'
  BY <1>10, Zenon DEF Somewhere, RightAudio
<1> QED
  BY <1>6, <1>7, <1>8, <1>9, <1>11
-----------------------------------------------------------------------------
(* Every step keeps the hand-off. *)

\* No slot, channel or batch is touched.
LEMMA HandoffQuiet ==
  ASSUME TypeOK, BufferInv, HandoffInv, UNCHANGED <<slot, cmds, dones, pending>>,
         \A c \in Conn : Flushed(c)' = Flushed(c),
         \A c \in Conn : (c \in conns) # (c \in conns') => pending[c] = NoBatch
  PROVE  HandoffInv'
<1>1. SameOwners
  BY DEF SameOwners
<1> QED
  BY <1>1, HandoffSame

\* Every step of thread B keeps the places of the requests in order.
LEMMA HandoffB ==
  ASSUME TypeOK, PoolInv, BufferInv, HandoffInv, ThreadB
  PROVE  HandoffInv'
<1>0. /\ UNCHANGED aVars
      /\ \A c \in Conn : Flushed(c)' = Flushed(c)
      /\ pending' = pending /\ conns' = conns
  <2>1. UNCHANGED aVars
    BY Zenon DEF ThreadB, EventsEnd, Command, CommandsEnd, SlotAdvance, SlotRespond, SlotError,
                 SlotProbe
  <2> QED
    BY <2>1 DEF aVars, Flushed
<1>1. CASE EventsEnd \/ CommandsEnd
  BY <1>0, <1>1, HandoffQuiet, Zenon DEF EventsEnd, CommandsEnd
<1>2. CASE Command
  <2> DEFINE m == Head(cmds)
  <2>1. cmds # <<>> /\ cmds' = Tail(cmds) /\ m = cmds[1] /\ 1 \in DOMAIN cmds
    BY <1>2 DEF Command, TypeOK
  <2>2. m \in Cmd
    BY <2>1 DEF TypeOK
  <2>3. m.conn \in Conn /\ m.tag \in Nat
    BY <2>2, Zenon DEF Cmd
  <2>4. CASE m.op = "submit" /\ PoolSubmit(m)
    <3>1. Sub(cmds, 1, m.conn, m.tag)
      BY <2>1, <2>4, Zenon DEF Sub
    <3>2. CASE SameOwners /\ dones' = Append(dones, [conn |-> m.conn, tag |-> m.tag, ok |-> FALSE,
                                                     audio |-> NoAudio])
      <4> DEFINE r == [conn |-> m.conn, tag |-> m.tag, ok |-> FALSE, audio |-> NoAudio]
      <4>1. Reported(r.conn, r.tag, m.body)
        BY <3>2, ReportView, Zenon
      <4>2. Reported(m.conn, m.tag, cmds[1].body)
        BY <2>1, <4>1
      <4> QED
        BY <1>0, <2>1, <2>3, <3>1, <3>2, <4>2, HandoffRefused, Zenon
    <3>3. ASSUME NEW s \in Slot, Lent(s, m.conn, m.tag, m.body), dones' = dones
          PROVE  HandoffInv'
      BY <1>0, <2>1, <2>3, <3>1, <3>3, HandoffLent, Zenon
    <3> QED
      BY <2>2, <2>4, <3>2, <3>3, SubmitOutcome, Zenon
  <2>5. CASE m.op = "abort" /\ PoolAbort(m.conn)
    <3>1. Abt(cmds, 1, m.conn)
      BY <2>1, <2>5 DEF Abt
    <3> QED
      BY <1>0, <2>1, <2>3, <2>5, <3>1, AbortOutcome, HandoffAbort, Zenon
  <2> QED
    BY <1>2, <2>4, <2>5, Zenon DEF Command
<1>3. ASSUME NEW s \in Slot, NEW r \in SlotRec, slot' = [slot EXCEPT ![s] = r],
             \/ r.owner = slot[s].owner /\ r.tag = slot[s].tag /\ r.req = slot[s].req
             \/ r.owner = NoConn /\ slot[s].owner = NoConn,
             UNCHANGED <<cmds, dones>>
      PROVE  HandoffInv'
  BY <1>0, <1>3, UpdateOwners, HandoffSame, Zenon
<1>4. ASSUME NEW s \in Slot, SlotAdvance(s) PROVE HandoffInv'
  <2>0. slot[s] \in SlotRec
    BY DEF TypeOK
  <2>a. slot[s].wire \in Seq(Audio) /\ slot[s].req \in Audio
    BY <2>0 DEF SlotRec
  <2>1. slot[s] \in SlotRec /\ Written(s) \in Seq(Audio) /\ UNCHANGED <<cmds, dones>>
    BY <1>4, <2>0, <2>a DEF Written, SlotAdvance
  <2> DEFINE r1 == Sending(slot[s])
             r2 == Receiving(slot[s], Written(s))
             r3 == ReadPart(slot[s])
  <2>2. \/ slot' = [slot EXCEPT ![s] = r1] \/ slot' = [slot EXCEPT ![s] = r2]
        \/ slot' = [slot EXCEPT ![s] = r3]
    BY <1>4, ZenonT(60) DEF SlotAdvance
  <2>3. /\ r1 \in SlotRec /\ r1.owner = slot[s].owner /\ r1.tag = slot[s].tag /\ r1.req = slot[s].req
        /\ r2 \in SlotRec /\ r2.owner = slot[s].owner /\ r2.tag = slot[s].tag /\ r2.req = slot[s].req
    BY <2>1, SlotUpdates
  <2>4. r3 \in SlotRec /\ r3.owner = slot[s].owner /\ r3.tag = slot[s].tag /\ r3.req = slot[s].req
    BY <2>1, ReadPartFields, Zenon
  <2> HIDE DEF r1, r2, r3
  <2> QED
    BY <1>3, <2>1, <2>2, <2>3, <2>4, Zenon
<1>5. ASSUME NEW s \in Slot, NEW rec \in SlotRec, NEW ok, NEW audio, Driving(s),
             Finish(s, rec, ok, audio), audio = IF ok THEN slot[s].req ELSE NoAudio, cmds' = cmds
      PROVE  HandoffInv'
  <2> DEFINE m == [conn |-> slot[s].owner, tag |-> slot[s].tag, ok |-> ok, audio |-> audio]
  <2>1. /\ slot[s].owner \in Conn /\ slot[s].tag \in Nat
        /\ Returned(s) /\ dones' = Append(dones, m)
    BY <1>5, FinishOutcome, Zenon
  <2>2. m.audio = IF m.ok THEN slot[s].req ELSE NoAudio
    BY <1>5, Zenon
  <2>3. Reported(m.conn, m.tag, slot[s].req)
    <3> HIDE DEF m
    <3> QED
      BY <2>1, <2>2, ReportView, Zenon
  <2>4. Reported(slot[s].owner, slot[s].tag, slot[s].req)
    BY <2>3
  <2>5. Own(slot, s, slot[s].owner, slot[s].tag)
    BY Zenon DEF Own
  <2> QED
    BY <1>0, <1>5, <2>1, <2>4, <2>5, HandoffFinish, Zenon
<1>6. ASSUME NEW s \in Slot PROVE /\ slot[s] \in SlotRec /\ slot[s].wire \in Seq(Audio)
                                  /\ slot[s].req \in Audio /\ <<>> \in Seq(Audio)
  <2>1. slot[s] \in SlotRec
    BY DEF TypeOK
  <2> QED
    BY <2>1, NothingType DEF SlotRec
<1>7. ASSUME NEW s \in Slot, SlotRespond(s) PROVE HandoffInv'
  <2>1. Driving(s) /\ cmds' = cmds
    BY <1>7, Zenon DEF SlotRespond
  <2>2. PICK ok \in BOOLEAN :
          Finish(s, Answered(slot[s], Tail(Written(s))), ok,
                 IF ok /\ slot[s].resp # "old" THEN Head(Written(s)) ELSE NoAudio)
    BY <1>7, Zenon DEF SlotRespond
  <2>3. Written(s) = <<slot[s].req>> /\ slot[s].resp # "old"
    BY <2>1, DrivenIsOwned DEF PoolInv
  <2>4. Head(Written(s)) = slot[s].req /\ Tail(Written(s)) = <<>>
    BY <2>3
  <2>5. Answered(slot[s], <<>>) \in SlotRec
    BY <1>6, AnsweredFields, Zenon
  <2>6. Finish(s, Answered(slot[s], <<>>), ok, IF ok THEN slot[s].req ELSE NoAudio)
    BY <2>2, <2>3, <2>4, Zenon
  <2> QED
    BY <1>5, <2>1, <2>5, <2>6, Zenon
<1>8. ASSUME NEW s \in Slot, SlotError(s) PROVE HandoffInv'
  <2>1. /\ Redialed(slot[s]) \in SlotRec /\ Undialed(slot[s]) \in SlotRec
        /\ Dropped(slot[s]) \in SlotRec
        /\ Redialed(slot[s]).owner = slot[s].owner /\ Redialed(slot[s]).tag = slot[s].tag
        /\ Redialed(slot[s]).req = slot[s].req
    BY <1>6, SlotUpdates
  <2>2. Driving(s) /\ cmds' = cmds
    BY <1>8, Zenon DEF SlotError
  <2>3. \/ slot' = [slot EXCEPT ![s] = Redialed(slot[s])] /\ dones' = dones
        \/ Finish(s, Undialed(slot[s]), FALSE, NoAudio)
        \/ Finish(s, Dropped(slot[s]), FALSE, NoAudio)
    BY <1>8, Zenon DEF SlotError
  <2>4. NoAudio = IF FALSE THEN slot[s].req ELSE NoAudio
    OBVIOUS
  <2> QED
    BY <1>3, <1>5, <2>1, <2>2, <2>3, <2>4, ZenonT(60)
<1>9. ASSUME NEW s \in Slot, SlotProbe(s) PROVE HandoffInv'
  <2>1. slot' = [slot EXCEPT ![s] = Dropped(slot[s])] /\ cmds' = cmds /\ dones' = dones
    BY <1>9 DEF SlotProbe
  <2>2. slot[s].owner = NoConn
    BY <1>9, ZenonT(60) DEF SlotProbe, PoolInv, SocketClean
  <2>3. Dropped(slot[s]) \in SlotRec /\ Dropped(slot[s]).owner = slot[s].owner
    BY <1>6, SlotUpdates
  <2> QED
    BY <1>3, <2>1, <2>2, <2>3, Zenon
<1> QED
  BY <1>1, <1>2, <1>4, <1>7, <1>8, <1>9, Zenon DEF ThreadB

\* Every step of thread A keeps the places of the requests in order.
LEMMA HandoffA ==
  ASSUME TypeOK, BufferInv, HandoffInv, ThreadA
  PROVE  HandoffInv'
<1>1. CASE UNCHANGED <<slot, cmds, dones, pending, seq, meta, conns>>
  BY <1>1, HandoffQuiet, Zenon DEF Flushed
<1>2. CASE Poll \/ DrainBegin \/ DrainEnd \/ TimersBegin \/ TimersEnd \/ ClosingEnd
  BY <1>1, <1>2, Zenon DEF Poll, DrainBegin, DrainEnd, TimersBegin, TimersEnd, ClosingEnd, bVars
<1>3. CASE DrainOne
  <2> DEFINE d == Head(dones)
  <2>1. d \in Done /\ dones # <<>> /\ dones' = Tail(dones)
    BY <1>3 DEF DrainOne, TypeOK
  <2>2. d.conn \in Conn /\ d.tag \in Nat
    BY <2>1 DEF Done
  <2>3. UNCHANGED <<conns, cmds, slot>> /\ \A c \in Conn : Flushed(c)' = Flushed(c)
    BY <1>3 DEF DrainOne, bVars, Flushed
  <2>4. IF Matches(d.conn, d.tag) THEN pending' = [pending EXCEPT ![d.conn] = NoBatch]
                                  ELSE pending' = pending
    BY <1>3, Zenon DEF DrainOne, Deliver
  <2> QED
    BY <2>1, <2>2, <2>3, <2>4, HandoffTake, Zenon
<1>4. ASSUME NEW c \in Conn, Accept(c) PROVE HandoffInv'
  <2>1. /\ phase[c] = "none" /\ conns' \subseteq conns \cup {c} /\ conns \subseteq conns'
        /\ UNCHANGED <<slot, cmds, dones, pending>> /\ \A d \in Conn : Flushed(d)' = Flushed(d)
    BY <1>4, Zenon DEF Accept, bVars, Flushed
  <2>2. pending[c] = NoBatch
    BY <2>1 DEF BufferInv
  <2> QED
    BY <2>1, <2>2, HandoffQuiet
<1>5. ASSUME NEW c \in Conn, Handshake(c) \/ OnWritable(c) PROVE HandoffInv'
  BY <1>1, <1>5, Zenon DEF Handshake, OnWritable, bVars
<1>6. ASSUME NEW c \in Conn, NEW m \in Inbound, OnReadable(c, m) PROVE HandoffInv'
  <2>1. /\ UNCHANGED <<pending, conns, cmds, dones, slot>>
        /\ UNCHANGED <<seq, meta>> \/ Buffered(c)
    BY <1>6, ReadView, Zenon
  <2>2. \A d \in Conn : Flushed(d)' = Flushed(d)
    BY <2>1, FrameView DEF Flushed
  <2> QED
    BY <2>1, <2>2, HandoffQuiet, Zenon
<1>7. ASSUME NEW c \in Conn, TimerFlush(c) PROVE HandoffInv'
  <2>1. PICK b \in Batch :
          /\ b.oldest = Flushed(c) + 1 /\ b.newest = seq[c] /\ b.oldest <= b.newest
          /\ cmds' = Append(cmds, Submit(c, b))
          /\ pending' = [pending EXCEPT ![c] = b]
          /\ Flushed(c)' = seq[c] /\ Flushed(c) \in Nat
          /\ \A d \in Conn : d # c => Flushed(d)' = Flushed(d)
    BY <1>7, FlushView, Zenon
  <2>2. c \in conns /\ pending[c] = NoBatch /\ UNCHANGED <<conns, dones, slot>>
    BY <1>7, Zenon DEF TimerFlush, bVars
  <2>3. Flushed(c)' \in Nat /\ Flushed(c)' >= b.oldest
    BY <2>1 DEF TypeOK, Batch
  <2> QED
    BY <2>1, <2>2, <2>3, HandoffFlush, Zenon
<1>8. ASSUME NEW c \in Conn, TimerTimeout(c) PROVE HandoffInv'
  <2>1. /\ pending' = [pending EXCEPT ![c] = NoBatch] /\ cmds' = Append(cmds, Abort(c))
        /\ UNCHANGED <<seq, meta, conns, dones, slot>>
    BY <1>8 DEF TimerTimeout, Deliver, bVars
  <2>2. \A d \in Conn : Flushed(d)' = Flushed(d)
    BY <2>1 DEF Flushed
  <2> QED
    BY <2>1, <2>2, HandoffDrop, Zenon
<1>9. ASSUME NEW c \in Conn, Remove(c) PROVE HandoffInv'
  <2>1. /\ pending' = [pending EXCEPT ![c] = NoBatch] /\ conns' = conns \ {c}
        /\ UNCHANGED <<seq, meta, dones, slot>>
    BY <1>9 DEF Remove, bVars
  <2>2. \A d \in Conn : Flushed(d)' = Flushed(d)
    BY <2>1 DEF Flushed
  <2>3. CASE pending[c] # NoBatch
    <3>1. cmds' = Append(cmds, Abort(c))
      BY <1>9, <2>3, Zenon DEF Remove
    <3> QED
      BY <2>1, <2>2, <3>1, HandoffDrop, Zenon
  <2>4. CASE pending[c] = NoBatch
    <3>1. cmds' = cmds /\ pending' = pending
      BY <1>9, <2>1, <2>4 DEF Remove, TypeOK
    <3> QED
      BY <2>1, <2>2, <2>4, <3>1, HandoffQuiet
  <2> QED
    BY <2>3, <2>4
<1> QED
  BY <1>2, <1>3, <1>4, <1>5, <1>6, <1>7, <1>8, <1>9, Zenon DEF ThreadA

\* Every step keeps the places of the requests in order.
LEMMA HandoffStep ==
  ASSUME TypeOK, PoolInv, BufferInv, HandoffInv, [Next]_vars
  PROVE  HandoffInv'
<1>1. CASE UNCHANGED vars
  BY <1>1, HandoffQuiet, Zenon DEF vars, Flushed
<1> QED
  BY <1>1, HandoffA, HandoffB DEF Next

\* There are no requests initially.
LEMMA HandoffInit == Init => HandoffInv
<1> SUFFICES ASSUME Init, NEW c \in Conn
             PROVE  /\ Once(c) /\ Spent(c) /\ Separated(c) /\ Behind(c) /\ OneSlot(c)
                    /\ Wanted(c) /\ Somewhere(c) /\ RightAudio(c)
  BY DEF HandoffInv
<1>1. /\ \A i, t : ~Sub(cmds, i, c, t)
      /\ \A i : ~Abt(cmds, i, c)
      /\ \A k, t : ~Ans(dones, k, c, t)
      /\ \A s, t : ~Own(slot, s, c, t)
      /\ pending[c] = NoBatch
  <2>1. cmds = <<>> /\ dones = <<>> /\ pending[c] = NoBatch
    BY Zenon DEF Init
  <2>2. \A s \in Slot : slot[s].owner # c
    BY ConnAssumption DEF Init, NewSlot
  <2>3. /\ \A i, t : ~Sub(cmds, i, c, t)
        /\ \A i : ~Abt(cmds, i, c)
        /\ \A k, t : ~Ans(dones, k, c, t)
    BY <2>1 DEF Sub, Abt, Ans
  <2>4. \A s, t : ~Own(slot, s, c, t)
    BY <2>2 DEF Own
  <2> QED
    BY <2>1, <2>3, <2>4, Zenon
<1> QED
  BY <1>1, Zenon DEF Once, Spent, Separated, Behind, OneSlot, Wanted, Somewhere, RightAudio

\* The inductive invariant of the hand-off.
HandedOff == TypeOK /\ PoolInv /\ BufferInv /\ HandoffInv

\* The inductive invariant of the hand-off.
LEMMA HandedOffAlways == Spec => []HandedOff
<1>1. Init => PoolInv /\ BufferInv /\ HandoffInv
  BY PoolInit, BufferInit, HandoffInit
<1>2. TypeOK /\ PoolInv /\ [Next]_vars => PoolInv'
  BY PoolStep
<1>3. TypeOK /\ BufferInv /\ [Next]_vars => BufferInv'
  BY BufferStep
<1>4. TypeOK /\ PoolInv /\ BufferInv /\ HandoffInv /\ [Next]_vars => HandoffInv'
  BY HandoffStep
<1> QED
  BY <1>1, <1>2, <1>3, <1>4, TypeCorrect, PTL DEF Spec, HandedOff

\* InferencePool: a connection never has two inferences in the pool, whatever it timed
\* out or started again meanwhile: its abort travels ahead of its next submit.
THEOREM OneSlotEach == Spec => []OneSlotPerConn
<1>1. HandedOff => OneSlotPerConn
  <2> SUFFICES ASSUME HandedOff, NEW s \in Slot, NEW r \in Slot,
                      slot[s].owner = slot[r].owner, slot[s].owner # NoConn
               PROVE  s = r
    BY Zenon DEF OneSlotPerConn
  <2>1. slot[s].owner \in Conn /\ slot[s].tag \in Nat /\ slot[r].tag \in Nat
    BY DEF HandedOff, TypeOK, SlotRec
  <2>2. Own(slot, s, slot[s].owner, slot[s].tag) /\ Own(slot, r, slot[s].owner, slot[r].tag)
    BY Zenon DEF Own
  <2> QED
    BY <2>1, <2>2, Zenon DEF HandedOff, HandoffInv, OneSlot
<1> QED
  BY <1>1, HandedOffAlways, PTL

\* A timeout or a close never leaks a slot of the pool: a slot works for the batch its
\* connection waits for, or the abort that takes it back is in the channel.
THEOREM NoSlotIsOrphan == Spec => []NoOrphanSlot
<1>1. HandedOff => NoOrphanSlot
  <2> SUFFICES ASSUME HandedOff, NEW s \in Slot, slot[s].owner # NoConn
               PROVE  \/ slot[s].owner \in conns /\ Tag(pending[slot[s].owner]) = slot[s].tag
                      \/ AbortQueued(slot[s].owner)
    BY Zenon DEF NoOrphanSlot
  <2>1. slot[s].owner \in Conn /\ slot[s].tag \in Nat
    BY DEF HandedOff, TypeOK, SlotRec
  <2>2. Own(slot, s, slot[s].owner, slot[s].tag)
    BY DEF Own
  <2>3. Live(slot[s].owner, slot[s].tag) \/ \E k \in Nat : Abt(cmds, k, slot[s].owner)
    BY <2>1, <2>2, ZenonT(60) DEF HandedOff, HandoffInv, Wanted
  <2> QED
    BY <2>3, Zenon DEF Live, Abt, AbortQueued, Tag
<1> QED
  BY <1>1, HandedOffAlways, PTL

\* The two channels and the pool neither lose nor duplicate a request or its result:
\* the batch a connection waits for is in exactly one of them.
THEOREM PendingIsInOnePlace == Spec => []PendingInOnePlace
<1>1. HandedOff => PendingInOnePlace
  <2> SUFFICES ASSUME HandedOff, NEW c \in conns, pending[c] # NoBatch
               PROVE  \E p \in Places(c, pending[c].oldest) : Places(c, pending[c].oldest) = {p}
    BY Zenon DEF PendingInOnePlace
  <2>0. c \in Conn
    BY DEF HandedOff, TypeOK
  <2>1. PICK t \in Nat : t = pending[c].oldest
    BY <2>0 DEF HandedOff, TypeOK, Batch
  <2>2. \A p : p \in Places(c, t) <=>
          \/ \E i \in Nat : Sub(cmds, i, c, t) /\ p = <<"cmd", i>>
          \/ \E s \in Slot : Own(slot, s, c, t) /\ p = <<"slot", s>>
          \/ \E k \in Nat : Ans(dones, k, c, t) /\ p = <<"done", k>>
    <3>1. DOMAIN cmds \subseteq Nat /\ DOMAIN dones \subseteq Nat
      BY DEF HandedOff, TypeOK
    <3> QED
      BY <3>1 DEF Places, Sub, Own, Ans
  <2>3. Once(c) /\ OneSlot(c) /\ Somewhere(c)
    BY <2>0 DEF HandedOff, HandoffInv
  <2>4. PICK p : p \in Places(c, t)
    BY <2>1, <2>2, <2>3, Zenon DEF Somewhere
  <2>5. \A q \in Places(c, t) : q = p
    BY <2>2, <2>3, <2>4 DEF Once, OneSlot
  <2>6. Places(c, t) = {p}
    BY <2>4, <2>5
  <2> QED
    BY <2>1, <2>4, <2>6, Zenon
<1> QED
  BY <1>1, HandedOffAlways, PTL
-----------------------------------------------------------------------------
(* The contract. *)

\* While a session runs, its answers and its batch tile the frames that have left the
\* buffer; before, there are none; and no close code precedes the close,
\* nor does a place among the connections to remove.
SessionOk(c) ==
  /\ phase[c] = "started" =>
       IF pending[c] = NoBatch
       THEN Contract!LastAnswered(out[c]) = Flushed(c)
       ELSE Contract!LastAnswered(out[c]) + 1 = pending[c].oldest
  /\ phase[c] \in {"none", "http", "ws"} => out[c] = <<>>
  /\ phase[c] # "closed" => code[c] = 0 /\ c \notin closing

SessionInv == \A c \in Conn : SessionOk(c)

\* What closing a connection is to its client.
LEMMA CloseView ==
  ASSUME TypeOK, NEW c \in Conn, phase' = [phase EXCEPT ![c] = "closed"],
         \A d \in Conn : d # c => pending'[d] = pending[d]
  PROVE  /\ ClientPhase' = [ClientPhase EXCEPT ![c] = "closed"]
         /\ Awaited' = [Awaited EXCEPT ![c] = NoBatch]
<1>1. phase'[c] = "closed" /\ \A d \in Conn : d # c => phase'[d] = phase[d]
  BY DEF TypeOK
<1> QED
  BY <1>1, Zenon DEF ClientPhase, Awaited

\* The connection is closed with code k.
Ended(c, k) == phase' = [phase EXCEPT ![c] = "closed"] /\ code' = [code EXCEPT ![c] = k]

\* To the client, that is an end of the session.
LEMMA EndView ==
  ASSUME TypeOK, NEW c \in Conn, NEW k \in {0, 1002, 1003}, phase[c] # "closed",
         k = 1002 => phase[c] \in {"ws", "started"}, k = 1003 => phase[c] = "started",
         Ended(c, k), UNCHANGED <<seq, out, pending>>
  PROVE  Contract!Next
<1>1. /\ ClientPhase' = [ClientPhase EXCEPT ![c] = "closed"]
      /\ Awaited' = [Awaited EXCEPT ![c] = NoBatch]
  BY CloseView, ZenonT(60) DEF Ended
<1>2. Sent' = Sent
  BY DEF Sent
<1>3. /\ ClientPhase[c] # "closed" /\ (k = 1002 => ClientPhase[c] # "idle")
      /\ k = 1003 => ClientPhase[c] = "streaming"
  BY DEF ClientPhase, TypeOK
<1>4. Contract!End(c, k)
  BY <1>1, <1>2, <1>3 DEF Contract!End, Contract!NoBatch, NoBatch, Ended
<1>5. k \in Contract!Codes
  BY DEF Contract!Codes
<1> QED
  BY <1>4, <1>5 DEF Contract!Next

\* What going on in phase p is.
LEMMA KeepView ==
  ASSUME TypeOK, NEW c \in Conn, NEW p \in {"ws", "started"}, Keep(c, p),
         phase[c] # "closed"
  PROVE  /\ code' = code
         /\ ClientPhase' = [ClientPhase EXCEPT ![c] = IF p = "ws" THEN "connected" ELSE "streaming"]
         /\ pending' = pending => Awaited' = Awaited
<1>1. phase'[c] = p /\ \A d \in Conn : d # c => phase'[d] = phase[d]
  BY DEF TypeOK, Keep
<1>2. code' = code
  BY DEF Keep
<1>3. ClientPhase' = [ClientPhase EXCEPT ![c] = IF p = "ws" THEN "connected" ELSE "streaming"]
  BY <1>1, ZenonT(60) DEF ClientPhase
<1>4. pending' = pending => Awaited' = Awaited
  BY <1>1, Zenon DEF Awaited
<1> QED
  BY <1>2, <1>3, <1>4

\* The client sees nothing of a step that leaves these alone.
LEMMA UnseenView ==
  ASSUME TypeOK, UNCHANGED <<code, seq, out>>,
         \A c \in Conn : \/ phase'[c] = phase[c] /\ (pending'[c] = pending[c] \/ phase[c] = "closed")
                         \/ phase[c] = "none" /\ phase'[c] = "http" /\ pending'[c] = pending[c]
  PROVE  UNCHANGED Contract!vars
<1>1. ClientPhase' = ClientPhase
  BY Zenon DEF ClientPhase
<1>2. Awaited' = Awaited
  BY ZenonT(60) DEF Awaited
<1>3. Sent' = Sent
  BY DEF Sent
<1> QED
  BY <1>1, <1>2, <1>3, Zenon DEF Contract!vars

\* What thread A does with a message of the client is a step of the contract.
LEMMA ReadContract ==
  ASSUME TypeOK, SessionInv, NEW c \in Conn, NEW m \in Inbound, OnReadable(c, m)
  PROVE  Contract!Next
<1>1. UNCHANGED <<out, pending>> /\ Sent' = Sent
  BY DEF OnReadable, Sent
<1>2. ASSUME NEW k \in {0, 1002, 1003}, Shut(c, k), UNCHANGED <<seq, meta>>,
             phase[c] \in {"ws", "started"}, k = 1003 => phase[c] = "started"
      PROVE  Contract!Next
  <2>1. Ended(c, k)
    BY <1>2 DEF Shut, Ended
  <2>2. /\ phase[c] # "closed" /\ (k = 1002 => phase[c] \in {"ws", "started"})
        /\ k = 1003 => phase[c] = "started"
        /\ UNCHANGED <<seq, out, pending>>
    BY <1>1, <1>2
  <2> QED
    BY <2>1, <2>2, EndView
<1>3. CASE phase[c] = "ws" /\ Keep(c, "started") /\ seq' = seq
  <2>1. /\ code' = code /\ Awaited' = Awaited
        /\ ClientPhase' = [ClientPhase EXCEPT ![c] = "streaming"]
    BY <1>1, <1>3, KeepView, Zenon
  <2>2. ClientPhase[c] = "connected"
    BY <1>3 DEF ClientPhase
  <2>3. Contract!Start(c)
    BY <1>1, <1>3, <2>1, <2>2, Zenon DEF Contract!Start
  <2> QED
    BY <2>3, Zenon DEF Contract!Next
<1>4. CASE phase[c] = "started" /\ seq' = [seq EXCEPT ![c] = @ + 1] /\ FlushWs(c, "started")
  <2>1. ClientPhase[c] = "streaming"
    BY <1>4 DEF ClientPhase
  <2>2. CASE Keep(c, "started")
    <3>1. /\ code' = code /\ Awaited' = Awaited
          /\ ClientPhase' = [ClientPhase EXCEPT ![c] = "streaming"]
      BY <1>1, <1>4, <2>2, KeepView
    <3>2. ClientPhase' = ClientPhase
      BY <2>1, <3>1, Zenon DEF ClientPhase
    <3>3. Contract!Frame(c, FALSE)
      BY <1>1, <1>4, <2>1, <3>1, <3>2, Zenon DEF Contract!Frame, Contract!After
    <3> QED
      BY <3>3, Zenon DEF Contract!Next
  <2>3. CASE Shut(c, 0)
    <3>1. phase' = [phase EXCEPT ![c] = "closed"] /\ code' = [code EXCEPT ![c] = 0]
      BY <2>3, Zenon DEF Shut
    <3>2. code' = code
      BY <1>4, <3>1 DEF SessionInv, SessionOk, TypeOK
    <3>3. /\ ClientPhase' = [ClientPhase EXCEPT ![c] = "closed"]
          /\ Awaited' = [Awaited EXCEPT ![c] = NoBatch]
      BY <1>1, <3>1, CloseView, Zenon
    <3>4. Contract!Frame(c, TRUE)
      BY <1>1, <1>4, <2>1, <3>2, <3>3, Zenon DEF Contract!Frame, Contract!After, Contract!NoBatch, NoBatch
    <3> QED
      BY <3>4, Zenon DEF Contract!Next
  <2> QED
    BY <1>4, <2>2, <2>3, Zenon DEF FlushWs
<1>5. \/ \E k \in {0, 1002, 1003} :
           /\ Shut(c, k) /\ UNCHANGED <<seq, meta>>
           /\ phase[c] \in {"ws", "started"} /\ (k = 1003 => phase[c] = "started")
      \/ phase[c] = "ws" /\ Keep(c, "started") /\ seq' = seq
      \/ phase[c] = "started" /\ seq' = [seq EXCEPT ![c] = @ + 1] /\ FlushWs(c, "started")
  BY DEF OnReadable, FlushWs
<1> QED
  BY <1>2, <1>3, <1>4, <1>5

\* What an answer is: partial or error, about the batch; the flush may find the peer lost.
LEMMA DeliverContract ==
  ASSUME TypeOK, SessionInv, NEW c \in Conn, NEW ok \in BOOLEAN, NEW audio,
         Deliver(c, ok, audio), phase[c] = "started", pending[c] # NoBatch, seq' = seq,
         audio = IF ok THEN AudioOf(c, pending[c]) ELSE NoAudio
  PROVE  Contract!Next
<1> DEFINE kind == IF ok THEN "partial" ELSE "error"
           m == [kind |-> kind, oldest |-> pending[c].oldest, newest |-> pending[c].newest,
                 audio |-> audio]
<1>1. ClientPhase[c] = "streaming" /\ Awaited[c] = pending[c] /\ Sent[c] = Len(out[c])
  BY Zenon DEF ClientPhase, Awaited, Sent
<1>2. out' = [out EXCEPT ![c] = Append(@, m)] /\ (Keep(c, "started") \/ Shut(c, 0))
  BY Zenon DEF Deliver, FlushWs
<1>3. pending'[c] = NoBatch /\ \A d \in Conn : d # c => pending'[d] = pending[d]
  BY DEF Deliver, TypeOK
<1>4. kind \in {"partial", "error"}
  BY ZenonT(60)
<1>5. m = [kind |-> kind, oldest |-> Awaited[c].oldest, newest |-> Awaited[c].newest,
           audio |-> IF kind = "partial" THEN Contract!AudioOf(c, Awaited[c]) ELSE Contract!NoAudio]
  <2>1. AudioOf(c, pending[c]) = Contract!AudioOf(c, Awaited[c]) /\ NoAudio = Contract!NoAudio
    BY <1>1, Zenon DEF AudioOf, NoAudio, Contract!AudioOf, Contract!NoAudio
  <2>2. kind = "partial" <=> ok
    BY Zenon
  <2>3. audio = IF kind = "partial" THEN Contract!AudioOf(c, Awaited[c]) ELSE Contract!NoAudio
    BY <2>1, <2>2, Zenon
  <2> QED
    BY <1>1, <2>3, Zenon
<1> HIDE DEF m
<1>6. Sent' = [Sent EXCEPT ![c] = @ + 1]
  <2>1. Len(out'[c]) = Len(out[c]) + 1 /\ \A d \in Conn : d # c => out'[d] = out[d]
    BY <1>2 DEF TypeOK
  <2> QED
    BY <2>1, Zenon DEF Sent
<1>7. ASSUME NEW lost \in BOOLEAN, Contract!After(c, lost), code' = code,
             Awaited' = [Awaited EXCEPT ![c] = NoBatch]
      PROVE  Contract!Next
  <2>1. Contract!Respond(c, kind, FALSE, lost)
    <3> HIDE DEF kind
    <3> QED
      BY <1>1, <1>2, <1>5, <1>6, <1>7, Zenon DEF Contract!Respond, Contract!NoBatch, NoBatch
  <2> QED
    BY <1>4, <2>1, Zenon DEF Contract!Next
<1>8. CASE Keep(c, "started")
  <2>1. phase' = phase /\ code' = code
    BY <1>8 DEF Keep, TypeOK
  <2>2. Awaited' = [Awaited EXCEPT ![c] = NoBatch]
    BY <1>3, <2>1, ZenonT(60) DEF Awaited
  <2>3. Contract!After(c, FALSE)
    BY <2>1 DEF Contract!After, ClientPhase
  <2> QED
    BY <1>7, <2>1, <2>2, <2>3, Zenon
<1>9. CASE Shut(c, 0)
  <2>1. phase' = [phase EXCEPT ![c] = "closed"] /\ code' = [code EXCEPT ![c] = 0]
    BY <1>9, Zenon DEF Shut
  <2>2. code' = code
    BY <2>1 DEF SessionInv, SessionOk, TypeOK
  <2>3. /\ ClientPhase' = [ClientPhase EXCEPT ![c] = "closed"]
        /\ Awaited' = [Awaited EXCEPT ![c] = NoBatch]
    BY <1>3, <2>1, CloseView, Zenon
  <2>4. Contract!After(c, TRUE)
    BY <2>3, Zenon DEF Contract!After
  <2> QED
    BY <1>7, <2>2, <2>3, <2>4, Zenon
<1> QED
  BY <1>2, <1>8, <1>9, Zenon

\* A batch that is taken out of a closed connection is nothing to its client.
LEMMA DeliverUnseen ==
  ASSUME TypeOK, BufferInv, NEW c \in Conn, NEW ok, NEW audio, Deliver(c, ok, audio),
         phase[c] # "started", pending[c] # NoBatch, seq' = seq
  PROVE  UNCHANGED Contract!vars
<1>1. phase[c] = "closed"
  BY DEF BufferInv, TypeOK
<1>2. /\ \A d \in Conn : d # c => pending'[d] = pending[d]
      /\ UNCHANGED <<out, phase, code>>
  BY DEF Deliver, TypeOK
<1> QED
  BY <1>1, <1>2, UnseenView, Zenon

\* A flush is a flush of the contract, unless the session is over.
LEMMA FlushContract ==
  ASSUME TypeOK, BufferInv, SessionInv, NEW c \in Conn, TimerFlush(c)
  PROVE  Contract!Next \/ UNCHANGED Contract!vars
<1>1. PICK b \in Batch :
        /\ b.oldest = Flushed(c) + 1 /\ b.newest = seq[c] /\ b.oldest <= b.newest
        /\ pending' = [pending EXCEPT ![c] = b] /\ Flushed(c) \in Nat
  BY FlushView, Zenon
<1>2. /\ UNCHANGED <<phase, code, seq, out>> /\ pending[c] = NoBatch /\ meta[c] # <<>>
  BY Zenon DEF TimerFlush
<1>3. pending'[c] = b /\ \A d \in Conn : d # c => pending'[d] = pending[d]
  BY <1>1 DEF TypeOK
<1>4. CASE phase[c] = "closed"
  BY <1>2, <1>3, <1>4, UnseenView, Zenon
<1>5. CASE phase[c] = "started"
  <2>1. ClientPhase[c] = "streaming" /\ Awaited[c] = NoBatch
    BY <1>2, <1>5, Zenon DEF ClientPhase, Awaited
  <2>2. Contract!LastAnswered(out[c]) = Flushed(c)
    BY <1>2, <1>5, Zenon DEF SessionInv, SessionOk
  <2>3. b = [oldest |-> Contract!LastAnswered(out[c]) + 1, newest |-> seq[c]]
    BY <1>1, <2>2 DEF Batch
  <2>4. Awaited' = [Awaited EXCEPT ![c] = b]
    BY <1>2, <1>3, <1>5, Zenon DEF Awaited
  <2>5. ClientPhase' = ClientPhase /\ Sent' = Sent
    BY <1>2, Zenon DEF ClientPhase, Sent
  <2>6. Contract!LastAnswered(out[c]) < seq[c]
    BY <1>1, <2>2 DEF TypeOK
  <2>7. Contract!Flush(c)
    BY <1>2, <2>1, <2>3, <2>4, <2>5, <2>6, Zenon DEF Contract!Flush, Contract!NoBatch, NoBatch
  <2> QED
    BY <2>7, Zenon DEF Contract!Next
<1>6. CASE phase[c] \in {"none", "http", "ws"}
  <2>1. seq[c] = 0 /\ Len(meta[c]) <= seq[c] /\ meta[c] \in Seq(Nat)
    BY <1>6 DEF BufferInv, TypeOK
  <2> QED
    BY <1>2, <2>1
<1> QED
  BY <1>4, <1>5, <1>6 DEF TypeOK

\* Every step of the two threads is a step of the contract, or none.
LEMMA ContractStep ==
  ASSUME HandedOff, SessionInv, [Next]_vars
  PROVE  [Contract!Next]_(Contract!vars)
<1> USE DEF HandedOff
<1>1. CASE UNCHANGED <<phase, code, seq, pending, out>>
  BY <1>1, UnseenView, Zenon
<1>2. CASE UNCHANGED vars
  BY <1>1, <1>2 DEF vars
<1>3. CASE ThreadB
  BY <1>1, <1>3, Zenon
    DEF ThreadB, EventsEnd, Command, CommandsEnd, SlotAdvance, SlotRespond, SlotError, SlotProbe,
        aVars
<1>4. CASE Poll \/ DrainBegin \/ DrainEnd \/ TimersBegin \/ TimersEnd \/ ClosingEnd
  BY <1>1, <1>4, Zenon DEF Poll, DrainBegin, DrainEnd, TimersBegin, TimersEnd, ClosingEnd
<1>5. CASE DrainOne
  <2> DEFINE d == Head(dones)
  <2>1. d \in Done /\ d = dones[1] /\ 1 \in DOMAIN dones
    BY <1>5 DEF DrainOne, TypeOK
  <2>2. d.conn \in Conn /\ d.tag \in Nat /\ d.ok \in BOOLEAN
    BY <2>1 DEF Done
  <2>3. CASE Matches(d.conn, d.tag)
    <3>1. Deliver(d.conn, d.ok, d.audio) /\ seq' = seq /\ pending[d.conn] # NoBatch
      BY <1>5, <2>3, Zenon DEF DrainOne, Matches
    <3>2. Ans(dones, 1, d.conn, pending[d.conn].oldest)
      BY <2>1, <2>3 DEF Matches, Ans, Tag
    <3>3. d.audio = IF d.ok THEN AudioOf(d.conn, pending[d.conn]) ELSE NoAudio
      BY <2>1, <2>2, <3>1, <3>2, ZenonT(60) DEF HandoffInv, RightAudio
    <3> QED
      BY <2>2, <3>1, <3>3, DeliverContract, DeliverUnseen, ZenonT(60)
  <2>4. CASE ~Matches(d.conn, d.tag)
    BY <1>1, <1>5, <2>4, Zenon DEF DrainOne
  <2> QED
    BY <2>3, <2>4, Zenon
<1>6. ASSUME NEW c \in Conn, Accept(c) PROVE [Contract!Next]_(Contract!vars)
  <2>1. phase[c] = "none" /\ UNCHANGED <<code, seq, pending, out>>
    BY <1>6, Zenon DEF Accept
  <2>2. CASE phase' = [phase EXCEPT ![c] = "http"]
    <3>1. phase'[c] = "http" /\ \A d \in Conn : d # c => phase'[d] = phase[d]
      BY <2>2 DEF TypeOK
    <3> QED
      BY <2>1, <3>1, UnseenView, Zenon
  <2>3. CASE phase' = [phase EXCEPT ![c] = "closed"]
    <3>1. Ended(c, 0)
      BY <2>1, <2>3 DEF SessionInv, SessionOk, TypeOK, Ended
    <3> QED
      BY <2>1, <3>1, EndView
  <2> QED
    BY <1>6, <2>2, <2>3, Zenon DEF Accept
<1>7. ASSUME NEW c \in Conn, Handshake(c) PROVE [Contract!Next]_(Contract!vars)
  <2>1. phase[c] = "http" /\ UNCHANGED <<seq, out, pending>>
    BY <1>7 DEF Handshake
  <2>2. CASE Keep(c, "ws")
    <3>1. /\ code' = code /\ Awaited' = Awaited
          /\ ClientPhase' = [ClientPhase EXCEPT ![c] = "connected"]
      BY <2>1, <2>2, KeepView, Zenon
    <3>2. ClientPhase[c] = "idle" /\ Sent' = Sent
      BY <2>1 DEF ClientPhase, Sent
    <3>3. Contract!Open(c)
      BY <2>1, <3>1, <3>2, Zenon DEF Contract!Open
    <3> QED
      BY <3>3, Zenon DEF Contract!Next
  <2>3. CASE Shut(c, 0)
    <3>1. Ended(c, 0)
      BY <2>3 DEF Shut, Ended
    <3> QED
      BY <2>1, <3>1, EndView
  <2> QED
    BY <1>7, <2>2, <2>3, Zenon DEF Handshake
<1>8. ASSUME NEW c \in Conn, OnWritable(c) PROVE [Contract!Next]_(Contract!vars)
  <2>1. phase[c] # "closed" /\ UNCHANGED <<seq, out, pending>> /\ Ended(c, 0)
    BY <1>8 DEF OnWritable, Shut, Ended
  <2> QED
    BY <2>1, EndView
<1>9. ASSUME NEW c \in Conn, TimerTimeout(c) PROVE [Contract!Next]_(Contract!vars)
  <2>1. Deliver(c, FALSE, NoAudio) /\ seq' = seq /\ pending[c] # NoBatch
    BY <1>9, Zenon DEF TimerTimeout
  <2>2. NoAudio = IF FALSE THEN AudioOf(c, pending[c]) ELSE NoAudio
    BY Zenon
  <2> QED
    BY <2>1, <2>2, DeliverContract, DeliverUnseen, Zenon
<1>10. ASSUME NEW c \in Conn, Remove(c) PROVE [Contract!Next]_(Contract!vars)
  <2>1. /\ UNCHANGED <<phase, code, seq, out>> /\ c \in closing
        /\ \A d \in Conn : d # c => pending'[d] = pending[d]
    BY <1>10 DEF Remove, TypeOK
  <2>2. phase[c] = "closed"
    BY <2>1, Zenon DEF SessionInv, SessionOk
  <2> QED
    BY <2>1, <2>2, UnseenView, Zenon
<1> QED
  BY <1>2, <1>3, <1>4, <1>5, <1>6, <1>7, <1>8, <1>9, <1>10, ReadContract, FlushContract, ZenonT(60)
     DEF Next, ThreadA

\* A session that is over, and one that nothing happens to.
LEMMA SessionOver ==
  ASSUME NEW c, phase'[c] = "closed"
  PROVE  SessionOk(c)'
BY Zenon DEF SessionOk

\* A session that a step leaves alone stays as it is.
LEMMA SessionSame ==
  ASSUME NEW c, SessionOk(c), phase'[c] = phase[c], pending'[c] = pending[c], out'[c] = out[c],
         code'[c] = code[c], Flushed(c)' = Flushed(c), c \in closing' => c \in closing
  PROVE  SessionOk(c)'
BY DEF SessionOk, Contract!LastAnswered

\* An answer consumes its batch.
LEMMA SessionDeliver ==
  ASSUME TypeOK, BufferInv, SessionInv, NEW c \in Conn, NEW ok \in BOOLEAN, NEW audio \in Audio,
         Deliver(c, ok, audio), pending[c] # NoBatch, UNCHANGED <<seq, meta>>
  PROVE  SessionInv'
<1>0. \A d \in Conn : Flushed(d)' = Flushed(d)
  BY DEF Flushed
<1>1. CASE phase[c] # "started"
  <2>1. phase[c] = "closed"
    BY <1>1 DEF BufferInv, TypeOK
  <2>2. UNCHANGED <<out, phase, code, closing>> /\ \A d \in Conn : d # c => pending'[d] = pending[d]
    BY <1>1 DEF Deliver, TypeOK
  <2> QED
    BY <1>0, <2>1, <2>2, SessionOver, SessionSame, ZenonT(60) DEF SessionInv
<1>2. CASE phase[c] = "started"
  <2> DEFINE m == [kind |-> IF ok THEN "partial" ELSE "error", oldest |-> pending[c].oldest,
                   newest |-> pending[c].newest, audio |-> audio]
  <2>1. /\ out' = [out EXCEPT ![c] = Append(@, m)] /\ (Keep(c, "started") \/ Shut(c, 0))
        /\ pending' = [pending EXCEPT ![c] = NoBatch]
    BY <1>2, Zenon DEF Deliver, FlushWs
  <2>2. /\ \A d \in Conn : d # c => /\ out'[d] = out[d] /\ pending'[d] = pending[d]
                                    /\ phase'[d] = phase[d] /\ code'[d] = code[d]
                                    /\ d \in closing' => d \in closing
        /\ pending'[c] = NoBatch
    BY <2>1 DEF TypeOK, Keep, Shut
  <2>3. m.newest = Flushed(c)
    BY Zenon DEF BufferInv
  <2> HIDE DEF m
  <2>4. out'[c] = Append(out[c], m) /\ out[c] \in Seq(Message)
    BY <2>1 DEF TypeOK
  <2>5. out'[c] # <<>> /\ out'[c][Len(out'[c])] = m
    BY <2>4
  <2>6. Contract!LastAnswered(out'[c]) = Flushed(c)'
    BY <1>0, <2>3, <2>5, Zenon DEF Contract!LastAnswered
  <2>7. SessionOk(c)'
    <3>1. CASE Keep(c, "started")
      <4>1. phase'[c] = "started" /\ code' = code /\ closing' = closing
        BY <3>1 DEF Keep, TypeOK
      <4> QED
        BY <1>2, <2>2, <2>6, <4>1, Zenon DEF SessionInv, SessionOk
    <3>2. CASE Shut(c, 0)
      BY <3>2, SessionOver DEF Shut, TypeOK
    <3> QED
      BY <2>1, <3>1, <3>2
  <2>8. \A d \in Conn : d # c => SessionOk(d)'
    BY <1>0, <2>2, SessionSame, Zenon DEF SessionInv
  <2> QED
    BY <2>7, <2>8, Zenon DEF SessionInv
<1> QED
  BY <1>1, <1>2, Zenon

\* SessionInv holds after every step.
LEMMA SessionStep == ASSUME HandedOff, SessionInv, [Next]_vars PROVE SessionInv'
<1> USE DEF HandedOff
<1>1. CASE /\ UNCHANGED <<phase, code, seq, meta, pending, out>> /\ closing' \subseteq closing
  <2>1. \A c \in Conn : Flushed(c)' = Flushed(c)
    BY <1>1, Zenon DEF Flushed
  <2> QED
    BY <1>1, <2>1, SessionSame, Zenon DEF SessionInv
<1>2. CASE UNCHANGED vars
  BY <1>1, <1>2, Zenon DEF vars
<1>3. CASE ThreadB
  <2>1. UNCHANGED aVars
    BY <1>3, ZenonT(60) DEF ThreadB, EventsEnd, Command, CommandsEnd, SlotAdvance, SlotRespond, SlotError,
                 SlotProbe
  <2> QED
    BY <1>1, <2>1 DEF aVars
<1>4. CASE Poll \/ DrainBegin \/ DrainEnd \/ TimersBegin \/ TimersEnd \/ ClosingEnd
  BY <1>1, <1>4, Zenon DEF Poll, DrainBegin, DrainEnd, TimersBegin, TimersEnd, ClosingEnd
<1>5. CASE DrainOne
  <2> DEFINE d == Head(dones)
  <2>1. d \in Done
    BY <1>5 DEF DrainOne, TypeOK
  <2>2. d.conn \in Conn /\ d.ok \in BOOLEAN /\ d.audio \in Audio
    BY <2>1, Zenon DEF Done
  <2>3. CASE Matches(d.conn, d.tag)
    <3>1. /\ Deliver(d.conn, d.ok, d.audio) /\ UNCHANGED <<seq, meta>>
          /\ pending[d.conn] # NoBatch
      BY <1>5, <2>3, Zenon DEF DrainOne, Matches
    <3> QED
      BY <2>2, <3>1, SessionDeliver, Zenon
  <2>4. CASE ~Matches(d.conn, d.tag)
    BY <1>1, <1>5, <2>4, Zenon DEF DrainOne
  <2> QED
    BY <2>3, <2>4, Zenon
<1>6. ASSUME NEW c \in Conn, NEW p, NEW k, Keep(c, p) \/ Shut(c, k), UNCHANGED <<pending, out>>,
             \A d \in Conn : Flushed(d)' = Flushed(d), Keep(c, p) => SessionOk(c)'
      PROVE  SessionInv'
  <2>1. \A d \in Conn : d # c => /\ phase'[d] = phase[d] /\ code'[d] = code[d]
                                 /\ d \in closing' => d \in closing
    BY <1>6 DEF Keep, Shut, TypeOK
  <2>2. \A d \in Conn : d # c => SessionOk(d)'
    BY <1>6, <2>1, SessionSame, Zenon DEF SessionInv
  <2>3. Shut(c, k) => SessionOk(c)'
    BY SessionOver DEF Shut, TypeOK
  <2> QED
    BY <1>6, <2>2, <2>3, Zenon DEF SessionInv
<1>7. ASSUME NEW c \in Conn, Accept(c) PROVE SessionInv'
  <2>1. /\ phase[c] = "none" /\ UNCHANGED <<code, pending, out, closing>>
        /\ phase'[c] = "http" \/ phase'[c] = "closed"
        /\ \A d \in Conn : d # c => phase'[d] = phase[d]
        /\ \A d \in Conn : Flushed(d)' = Flushed(d)
    BY <1>7 DEF Accept, TypeOK, Flushed
  <2>2. SessionOk(c)'
    BY <2>1 DEF SessionInv, SessionOk
  <2>3. \A d \in Conn : d # c => SessionOk(d)'
    BY <2>1, SessionSame, Zenon DEF SessionInv
  <2> QED
    BY <2>2, <2>3, Zenon DEF SessionInv
<1>8. ASSUME NEW c \in Conn, Handshake(c) PROVE SessionInv'
  <2>1. /\ phase[c] = "http" /\ UNCHANGED <<seq, meta, pending, out>>
        /\ Keep(c, "ws") \/ Shut(c, 0)
    BY <1>8, Zenon DEF Handshake
  <2>2. \A d \in Conn : Flushed(d)' = Flushed(d)
    BY <2>1 DEF Flushed
  <2>3. ASSUME Keep(c, "ws") PROVE SessionOk(c)'
    <3>1. phase'[c] = "ws" /\ code' = code /\ closing' = closing
      BY <2>3 DEF Keep, TypeOK
    <3> QED
      BY <2>1, <3>1, Zenon DEF SessionInv, SessionOk
  <2> QED
    BY <1>6, <2>1, <2>2, <2>3, Zenon
<1>9. ASSUME NEW c \in Conn, OnWritable(c) PROVE SessionInv'
  <2>1. UNCHANGED <<seq, meta, pending, out>> /\ Shut(c, 0)
    BY <1>9 DEF OnWritable
  <2>2. \A d \in Conn : Flushed(d)' = Flushed(d)
    BY <2>1, Zenon DEF Flushed
  <2>3. SessionOk(c)' 
    BY <2>1, SessionOver DEF Shut, TypeOK
  <2> QED
    BY <1>6, <2>1, <2>2, <2>3, Zenon
<1>10. ASSUME NEW c \in Conn, NEW m \in Inbound, OnReadable(c, m) PROVE SessionInv'
  <2>1. /\ UNCHANGED <<pending, out>> /\ phase[c] \in {"ws", "started"}
        /\ Keep(c, "started") \/ \E k \in {0, 1002, 1003} : Shut(c, k)
    BY <1>10 DEF OnReadable, FlushWs
  <2>2. UNCHANGED <<seq, meta>> \/ (phase[c] = "started" /\ Buffered(c))
    BY <1>10, ReadView, Zenon
  <2>3. \A d \in Conn : Flushed(d)' = Flushed(d)
    BY <2>2, FrameView, Zenon DEF Flushed
  <2>4. ASSUME Keep(c, "started") PROVE SessionOk(c)'
    <3>1. phase'[c] = "started" /\ code' = code /\ closing' = closing
      BY <2>4 DEF Keep, TypeOK
    <3>2. CASE phase[c] = "started"
      <4>1. SessionOk(c)
        BY Zenon DEF SessionInv
      <4> QED
        BY <2>1, <2>3, <3>1, <3>2, <4>1, SessionSame
    <3>3. CASE phase[c] = "ws"
      <4>1. seq[c] = 0 /\ pending[c] = NoBatch /\ Len(meta[c]) <= 0 /\ meta[c] \in Seq(Nat)
        BY <3>3 DEF BufferInv, TypeOK
      <4>2. Flushed(c) = 0
        BY <4>1 DEF Flushed
      <4>3. out[c] = <<>> /\ code[c] = 0 /\ c \notin closing
        BY <3>3, Zenon DEF SessionInv, SessionOk
      <4>4. Contract!LastAnswered(out'[c]) = 0
        BY <2>1, <4>3 DEF Contract!LastAnswered
      <4> QED
        BY <2>1, <2>3, <3>1, <4>1, <4>2, <4>3, <4>4 DEF SessionOk
    <3> QED
      BY <2>1, <3>2, <3>3
  <2> QED
    BY <1>6, <2>1, <2>3, <2>4
<1>11. ASSUME NEW c \in Conn, TimerFlush(c) PROVE SessionInv'
  <2>1. PICK b \in Batch :
          /\ b.oldest = Flushed(c) + 1 /\ Flushed(c) \in Nat
          /\ pending' = [pending EXCEPT ![c] = b]
          /\ \A d \in Conn : d # c => Flushed(d)' = Flushed(d)
    BY <1>11, FlushView, Zenon
  <2>2. UNCHANGED <<phase, code, out, closing>> /\ pending[c] = NoBatch
    BY <1>11, Zenon DEF TimerFlush
  <2>3. pending'[c] = b /\ \A d \in Conn : d # c => pending'[d] = pending[d]
    BY <2>1 DEF TypeOK
  <2>4. b # NoBatch
    BY <2>1 DEF NoBatch
  <2>5. SessionOk(c)'
    BY <2>1, <2>2, <2>3, <2>4, Zenon DEF SessionInv, SessionOk
  <2>6. \A d \in Conn : d # c => SessionOk(d)'
    BY <2>1, <2>2, <2>3, SessionSame, Zenon DEF SessionInv
  <2> QED
    BY <2>5, <2>6, Zenon DEF SessionInv
<1>12. ASSUME NEW c \in Conn, TimerTimeout(c) PROVE SessionInv'
  <2>1. /\ Deliver(c, FALSE, NoAudio) /\ UNCHANGED <<seq, meta>> /\ pending[c] # NoBatch
    BY <1>12, ZenonT(60) DEF TimerTimeout
  <2> QED
    BY <2>1, NothingType, SessionDeliver, Zenon
<1>13. ASSUME NEW c \in Conn, Remove(c) PROVE SessionInv'
  <2>1. /\ UNCHANGED <<phase, code, out>> /\ c \in closing /\ closing' \subseteq closing
        /\ \A d \in Conn : d # c => pending'[d] = pending[d]
        /\ \A d \in Conn : Flushed(d)' = Flushed(d)
    <3>1. /\ UNCHANGED <<phase, code, out, seq, meta>> /\ c \in closing
          /\ closing' = closing \ {c} /\ pending' = [pending EXCEPT ![c] = NoBatch]
      BY <1>13, Zenon DEF Remove
    <3>2. pending \in [Conn -> Batch]
      BY Zenon DEF TypeOK
    <3> QED
      BY <3>1, <3>2 DEF Flushed
  <2>2. phase'[c] = "closed"
    BY <2>1 DEF SessionInv, SessionOk
  <2>3. SessionOk(c)' 
    BY <2>2, SessionOver, Zenon
  <2>4. \A d \in Conn : d # c => SessionOk(d)'
    BY <2>1, SessionSame DEF SessionInv
  <2> QED
    BY <2>3, <2>4 DEF SessionInv
<1> QED
  BY <1>2, <1>3, <1>4, <1>5, <1>7, <1>8, <1>9, <1>10, <1>11, <1>12, <1>13, ZenonT(60) DEF Next, ThreadA

\* Thread A, thread B, the channels and the pool together implement the contract of a
\* session, for any number of connections, slots and frames: answers tile the frames in
\* order, a partial is computed from its own audio however many results arrive late,
\* one batch is in flight, the close code fits its cause, and silence follows the close.
THEOREM RustSyncImplementsContract == Spec => ImplementsContract
<1>1. Init => SessionInv
  BY DEF Init, SessionInv, SessionOk
<1>2. Init => Contract!Init
  <2> SUFFICES ASSUME Init PROVE Contract!Init
    BY Zenon
  <2>1. /\ ClientPhase = [c \in Conn |-> "idle"] /\ Awaited = [c \in Conn |-> NoBatch]
        /\ Sent = [c \in Conn |-> 0]
    BY DEF Init, ClientPhase, Awaited, Sent
  <2> QED
    BY <2>1 DEF Init, Contract!Init, Contract!NoBatch, NoBatch
<1>3. HandedOff /\ SessionInv /\ [Next]_vars => SessionInv'
  BY SessionStep
<1>4. HandedOff /\ SessionInv /\ [Next]_vars => [Contract!Next]_(Contract!vars)
  BY ContractStep
<1> QED
  BY <1>1, <1>2, <1>3, <1>4, HandedOffAlways, PTL DEF Spec, ImplementsContract, Contract!Spec
-----------------------------------------------------------------------------
(***************************************************************************)
(* Readiness: which slots thread B drives, and that it misses none.        *)
(***************************************************************************)
\* Readiness only delays thread B: every step of the composition is one of RustSync, or
\* leaves the variables of RustSync alone.
LEMMA ReadyStep == [ReadyNext]_readyVars => [Next]_vars
<1>1. ASSUME NEW s \in Slot, OnEvent(s) PROVE [Next]_vars
  <2>1. Drive(s)
    BY <1>1, Zenon DEF OnEvent
  <2>2. SlotAdvance(s) \/ SlotRespond(s) \/ SlotError(s) \/ SlotProbe(s) \/ UNCHANGED vars
    BY <2>1, ZenonT(60) DEF Drive
  <2> QED
    BY <2>2, Zenon DEF Next, ThreadB
<1>2. ASSUME NEW s \in Slot, Arm(s) \/ Connects(s) \/ Drains(s) \/ Answers(s) \/ Breaks(s)
      PROVE UNCHANGED vars
  BY <1>2, ZenonT(60) DEF Arm, Connects, Drains, Answers, Breaks, Becomes
<1>3. ASSUME PollReturns \/ EventsHandled \/ CommandHandled \/ CommandsHandled
      PROVE [Next]_vars
  BY <1>3, Zenon DEF PollReturns, EventsHandled, CommandHandled, CommandsHandled, Next, ThreadB
<1>4. ASSUME UNCHANGED readyVars PROVE UNCHANGED vars
  BY <1>4, Zenon DEF readyVars
<1>5. ASSUME ThreadA PROVE [Next]_vars
  BY <1>5, Zenon DEF Next
<1> QED
  BY <1>1, <1>2, <1>3, <1>4, <1>5, Zenon DEF ReadyNext

\* Driving slots on their events is a way of driving them: what RustSync promises holds
\* whichever events mio reports, and whenever.
THEOREM ReadinessRefines == ReadySpec => Spec
<1>1. ReadyInit => Init
  BY DEF ReadyInit
<1> QED
  BY <1>1, ReadyStep, PTL DEF ReadySpec, Spec

\* What makes NoMissedEdge inductive: but for the slots about to be registered again, the
\* interest is what the slot waits for, and poll finds B without events to handle.
ReadyInv ==
  /\ ReadyTypeOK
  /\ NoMissedEdge
  /\ \A s \in Slot : s \in arming \/ interest[s] = Want(slot[s])
  /\ polled \/ events = {}

\* Thread A does not touch the slots.
LEMMA SlotsAreB == ThreadA => slot' = slot
<1> SUFFICES ASSUME ThreadA PROVE slot' = slot
  OBVIOUS
<1>1. ASSUME NEW c \in Conn, \/ Accept(c) \/ Handshake(c) \/ (\E m \in Inbound : OnReadable(c, m))
                             \/ OnWritable(c) \/ TimerFlush(c) \/ TimerTimeout(c) \/ Remove(c)
      PROVE  slot' = slot
  BY <1>1, ZenonT(60) DEF Accept, Handshake, OnReadable, OnWritable, TimerFlush, TimerTimeout, Remove,
     bVars
<1>2. ASSUME Poll \/ DrainBegin \/ DrainOne \/ DrainEnd \/ TimersBegin \/ TimersEnd \/ ClosingEnd
      PROVE  slot' = slot
  BY <1>2, ZenonT(60) DEF Poll, DrainBegin, DrainOne, DrainEnd, TimersBegin, TimersEnd, ClosingEnd, bVars
<1> QED
  BY <1>1, <1>2, Zenon DEF ThreadA

\* A driven slot is the only one that changes.
LEMMA DriveOne ==
  ASSUME TypeOK, ReadyTypeOK, NEW s \in Slot, Drive(s)
  PROVE  /\ net' \in [Slot -> {"none", "dialing", "open", "blocked", "room", "half", "whole", "dead"}]
         /\ \A q \in Slot \ {s} : slot'[q] = slot[q] /\ net'[q] = net[q]
<1>1. \E r : slot' = [slot EXCEPT ![s] = r]
  <2>1. UNCHANGED vars => slot' = [slot EXCEPT ![s] = slot[s]]
    BY DEF vars, bVars, TypeOK
  <2>2. SlotAdvance(s) \/ SlotRespond(s) \/ SlotError(s) \/ SlotProbe(s) \/ UNCHANGED vars
    BY ZenonT(60) DEF Drive
  <2>3. SlotAdvance(s) \/ SlotRespond(s) => \E r : slot' = [slot EXCEPT ![s] = r]
    BY ZenonT(60) DEF SlotAdvance, SlotRespond, Finish
  <2>4. SlotError(s) \/ SlotProbe(s) => \E r : slot' = [slot EXCEPT ![s] = r]
    BY ZenonT(60) DEF SlotError, SlotProbe, Finish
  <2> QED
    BY <2>1, <2>2, <2>3, <2>4, Zenon
<1>2. \E n \in {"none", "dialing", "open", "blocked", "dead"} : net' = [net EXCEPT ![s] = n]
  <2>1. net = [net EXCEPT ![s] = net[s]]
    BY DEF ReadyTypeOK
  <2>2. \/ net' = [net EXCEPT ![s] = "open"] \/ net' = [net EXCEPT ![s] = "blocked"]
        \/ net' = [net EXCEPT ![s] = IF slot'[s].sock THEN "dialing" ELSE "none"]
        \/ net[s] = "dead" /\ net' = net
    BY ZenonT(60) DEF Drive
  <2>3. (IF slot'[s].sock THEN "dialing" ELSE "none") \in {"none", "dialing"}
    BY Zenon
  <2> QED
    BY <2>1, <2>2, <2>3, Zenon
<1>3. PICK r : slot' = [slot EXCEPT ![s] = r]
  BY <1>1, Zenon
<1>4. PICK n \in {"none", "dialing", "open", "blocked", "dead"} : net' = [net EXCEPT ![s] = n]
  BY <1>2, Zenon
<1>5. \A q \in Slot \ {s} : slot'[q] = slot[q]
  <2>1. slot \in [Slot -> SlotRec]
    BY DEF TypeOK
  <2> QED
    BY <1>3, <2>1, Zenon
<1>6. \A q \in Slot \ {s} : net'[q] = net[q]
  BY <1>4, Zenon DEF ReadyTypeOK
<1>7. net' \in [Slot -> {"none", "dialing", "open", "blocked", "room", "half", "whole", "dead"}]
  BY <1>4 DEF ReadyTypeOK
<1> QED
  BY <1>5, <1>6, <1>7, Zenon

\* The socket of s changes by itself: it was waited for before, or its event is raised.
LEMMA BecomesKeeps ==
  ASSUME ReadyInv, NEW s \in Slot, NEW n \in {"open", "room", "half", "whole", "dead"}, Becomes(s, n),
         n \in {"half", "whole"} => net[s] \in {"open", "half"}
  PROVE  ReadyInv'
<1>1. /\ net' = [net EXCEPT ![s] = n] /\ slot' = slot /\ interest' = interest
      /\ edge' = (IF Signals(n, interest[s]) THEN edge \cup {s} ELSE edge)
      /\ events' = events /\ polled' = polled /\ arming' = arming
  BY Zenon DEF Becomes, vars, bVars
<1>2. edge \subseteq edge' /\ edge' \subseteq Slot
  BY <1>1, Zenon DEF ReadyInv, ReadyTypeOK
<1>3. ReadyTypeOK'
  BY <1>1, <1>2 DEF ReadyInv, ReadyTypeOK
<1>4. ASSUME NEW q \in Slot, Ready(net'[q], Want(slot[q])) PROVE q \in edge' \cup events \cup arming
  <2>1. CASE q # s
    <3>1. net'[q] = net[q]
      BY <1>1, <2>1, Zenon DEF ReadyInv, ReadyTypeOK
    <3> QED
      BY <1>2, <1>4, <3>1, Zenon DEF ReadyInv, NoMissedEdge
  <2>2. CASE q = s
    <3>1. net'[s] = n
      BY <1>1, Zenon DEF ReadyInv, ReadyTypeOK
    <3>2. CASE s \in arming
      BY <2>2, <3>2, Zenon
    <3>3. CASE interest[s] = Want(slot[s])
      <4>1. CASE Signals(n, interest[s])
        BY <1>1, <2>2, <4>1, Zenon
      <4>2. CASE ~Signals(n, interest[s])
        <5>1. Ready(net[s], Want(slot[s]))
          BY <1>4, <2>2, <3>1, <3>3, <4>2 DEF Ready, Signals
        <5> QED
          BY <1>2, <2>2, <5>1, Zenon DEF ReadyInv, NoMissedEdge
      <4> QED
        BY <4>1, <4>2, Zenon
    <3> QED
      BY <3>2, <3>3, Zenon DEF ReadyInv
  <2> QED
    BY <2>1, <2>2, Zenon
<1>5. NoMissedEdge'
  BY <1>1, <1>4, Zenon DEF NoMissedEdge
<1> QED
  BY <1>1, <1>3, <1>5, Zenon DEF ReadyInv

LEMMA ReadyKept ==
  ASSUME TypeOK, ReadyInv, [ReadyNext]_readyVars
  PROVE  ReadyInv'
<1>0. ReadyTypeOK /\ NoMissedEdge
  BY DEF ReadyInv
<1>1. CASE UNCHANGED <<slot, io>>
  <2>1. slot' = slot /\ net' = net /\ interest' = interest /\ edge' = edge /\ events' = events
        /\ polled' = polled /\ arming' = arming
    BY <1>1, Zenon DEF io
  <2> QED
    BY <2>1, Zenon DEF ReadyInv, ReadyTypeOK, NoMissedEdge
<1>2. CASE ThreadA /\ UNCHANGED io
  BY <1>1, <1>2, SlotsAreB, Zenon
<1>3. CASE UNCHANGED readyVars
  BY <1>1, <1>3, Zenon DEF readyVars, vars, bVars
<1>4. CASE CommandsHandled
  BY <1>1, <1>4, Zenon DEF CommandsHandled, CommandsEnd
<1>5. CASE EventsHandled
  <2>1. /\ slot' = slot /\ net' = net /\ interest' = interest /\ edge' = edge /\ events' = events
        /\ polled' = FALSE /\ arming' = arming /\ events = {}
    BY <1>5, Zenon DEF EventsHandled, EventsEnd
  <2> QED
    BY <2>1, Zenon DEF ReadyInv, ReadyTypeOK, NoMissedEdge
<1>6. CASE PollReturns
  <2>1. /\ slot' = slot /\ net' = net /\ interest' = interest /\ arming' = arming /\ polled' = TRUE
        /\ events' = {s \in edge : Ready(net[s], interest[s])} /\ edge' = {} /\ events = {}
    BY <1>6, Zenon DEF PollReturns, vars, bVars, ReadyInv
  <2>2. ReadyTypeOK'
    BY <1>0, <2>1 DEF ReadyTypeOK
  <2>3. ASSUME NEW s \in Slot, Ready(net[s], Want(slot[s])) PROVE s \in events' \cup arming
    BY <2>1, <2>3, Zenon DEF ReadyInv, NoMissedEdge
  <2> QED
    BY <2>1, <2>2, <2>3, Zenon DEF ReadyInv, NoMissedEdge
<1>7. ASSUME NEW s \in Slot, OnEvent(s) PROVE ReadyInv'
  <2>1. /\ Drive(s) /\ NewSockets /\ events' = events \ {s} /\ arming' = {s} /\ polled' = polled
        /\ polled /\ arming = {}
    BY <1>7, Zenon DEF OnEvent
  <2>2. /\ net' \in [Slot -> {"none", "dialing", "open", "blocked", "room", "half", "whole", "dead"}]
        /\ \A q \in Slot \ {s} : slot'[q] = slot[q] /\ net'[q] = net[q]
    BY <1>0, <2>1, DriveOne
  <2>3. /\ interest' \in [Slot -> {"none", "readable", "writable"}] /\ edge' \subseteq edge
        /\ \A q \in Slot \ {s} : interest'[q] = interest[q] /\ (q \in edge => q \in edge')
    <3> DEFINE new == {q \in Slot : net'[q] # net[q] /\ net'[q] \in {"none", "dialing"}}
    <3>1. /\ interest' = [q \in Slot |-> IF q \in new THEN "none" ELSE interest[q]]
          /\ edge' = edge \ new
      BY <2>1, Zenon DEF NewSockets
    <3>2. \A q \in Slot \ {s} : q \notin new
      BY <2>2, Zenon
    <3> HIDE DEF new
    <3>3. interest' \in [Slot -> {"none", "readable", "writable"}]
      BY <1>0, <3>1 DEF ReadyTypeOK
    <3> QED
      BY <3>1, <3>2, <3>3, Zenon
  <2>4. ReadyTypeOK'
    BY <1>0, <2>1, <2>2, <2>3 DEF ReadyTypeOK
  <2>5. \A q \in Slot \ {s} : q \in edge \cup events => q \in edge' \cup events'
    BY <2>1, <2>3, Zenon
  <2>6. ASSUME NEW q \in Slot, Ready(net'[q], Want(slot'[q])), q # s
        PROVE  q \in edge' \cup events'
    <3>1. Ready(net[q], Want(slot[q]))
      BY <2>2, <2>6, Zenon
    <3> QED
      BY <1>0, <2>1, <2>5, <2>6, <3>1, Zenon DEF NoMissedEdge
  <2>7. NoMissedEdge'
    BY <2>1, <2>6, Zenon DEF NoMissedEdge
  <2>8. ASSUME NEW q \in Slot PROVE q \in arming' \/ interest'[q] = Want(slot'[q])
    BY <2>1, <2>2, <2>3, Zenon DEF ReadyInv
  <2> QED
    BY <2>1, <2>4, <2>7, <2>8, Zenon DEF ReadyInv
<1>8. ASSUME NEW s \in Slot, Arm(s) PROVE ReadyInv'
  <2>1. /\ slot' = slot /\ net' = net /\ events' = events /\ polled' = polled
        /\ arming' = arming \ {s} /\ interest' = [interest EXCEPT ![s] = Want(slot[s])]
        /\ edge' = (IF Ready(net[s], Want(slot[s])) THEN edge \cup {s} ELSE edge \ {s})
    BY <1>8, Zenon DEF Arm, vars, bVars
  <2>2. Want(slot[s]) \in {"none", "readable", "writable"}
    BY Zenon DEF Want
  <2>3. interest' \in [Slot -> {"none", "readable", "writable"}]
    BY <1>0, <2>1, <2>2 DEF ReadyTypeOK
  <2>4. ReadyTypeOK'
    BY <1>0, <2>1, <2>3 DEF ReadyTypeOK
  <2>5. ASSUME NEW q \in Slot, Ready(net[q], Want(slot[q])) PROVE q \in edge' \cup events \cup arming'
    <3>1. CASE q = s
      BY <2>1, <2>5, <3>1, Zenon
    <3>2. CASE q # s
      BY <1>0, <2>1, <2>5, <3>2, Zenon DEF NoMissedEdge
    <3> QED
      BY <3>1, <3>2, Zenon
  <2>6. NoMissedEdge'
    BY <2>1, <2>5, Zenon DEF NoMissedEdge
  <2>7. interest'[s] = Want(slot[s]) /\ \A q \in Slot \ {s} : interest'[q] = interest[q]
    BY <1>0, <2>1, Zenon DEF ReadyTypeOK
  <2>8. ASSUME NEW q \in Slot PROVE q \in arming' \/ interest'[q] = Want(slot'[q])
    BY <2>1, <2>7, Zenon DEF ReadyInv
  <2> QED
    BY <2>1, <2>4, <2>6, <2>8, Zenon DEF ReadyInv
<1>9. CASE CommandHandled
  <2>1. /\ NewSockets /\ events' = events /\ polled' = polled /\ arming = {}
        /\ arming' = {s \in Slot : slot'[s] # slot[s]}
        /\ net' = [s \in Slot |-> IF slot'[s].sock = slot[s].sock THEN net[s]
                                  ELSE IF slot'[s].sock THEN "dialing" ELSE "none"]
    BY <1>9, Zenon DEF CommandHandled
  <2>2. net' \in [Slot -> {"none", "dialing", "open", "blocked", "room", "half", "whole", "dead"}]
    BY <1>0, <2>1 DEF ReadyTypeOK
  <2>3. \A q \in Slot \ arming' : slot'[q] = slot[q] /\ net'[q] = net[q]
    BY <2>1, Zenon
  <2>4. /\ interest' \in [Slot -> {"none", "readable", "writable"}] /\ edge' \subseteq edge
        /\ \A q \in Slot \ arming' : interest'[q] = interest[q] /\ (q \in edge => q \in edge')
    <3> DEFINE new == {q \in Slot : net'[q] # net[q] /\ net'[q] \in {"none", "dialing"}}
    <3>1. /\ interest' = [q \in Slot |-> IF q \in new THEN "none" ELSE interest[q]]
          /\ edge' = edge \ new
      BY <2>1, Zenon DEF NewSockets
    <3>2. \A q \in Slot \ arming' : q \notin new
      BY <2>3, Zenon
    <3> HIDE DEF new
    <3>3. interest' \in [Slot -> {"none", "readable", "writable"}]
      BY <1>0, <3>1 DEF ReadyTypeOK
    <3> QED
      BY <3>1, <3>2, <3>3, Zenon
  <2>5. ReadyTypeOK'
    BY <1>0, <2>1, <2>2, <2>4 DEF ReadyTypeOK
  <2>6. ASSUME NEW q \in Slot, Ready(net'[q], Want(slot'[q])), q \notin arming'
        PROVE  q \in edge' \cup events'
    <3>1. Ready(net[q], Want(slot[q]))
      BY <2>3, <2>6, Zenon
    <3> QED
      BY <1>0, <2>1, <2>4, <2>6, <3>1, Zenon DEF NoMissedEdge
  <2>7. NoMissedEdge'
    BY <2>6, Zenon DEF NoMissedEdge
  <2>8. ASSUME NEW q \in Slot PROVE q \in arming' \/ interest'[q] = Want(slot'[q])
    BY <2>1, <2>3, <2>4, Zenon DEF ReadyInv
  <2> QED
    BY <2>1, <2>5, <2>7, <2>8, Zenon DEF ReadyInv
<1>10. ASSUME NEW s \in Slot, Connects(s) \/ Drains(s) \/ Answers(s) \/ Breaks(s) PROVE ReadyInv'
  <2>1. \E n \in {"open", "room", "half", "whole", "dead"} :
          Becomes(s, n) /\ (n \in {"half", "whole"} => net[s] \in {"open", "half"})
    BY <1>10, ZenonT(60) DEF Connects, Drains, Answers, Breaks
  <2> QED
    BY <2>1, BecomesKeeps, Zenon
<1> QED
  BY <1>2, <1>3, <1>4, <1>5, <1>6, <1>7, <1>8, <1>9, <1>10, Zenon DEF ReadyNext

LEMMA ReadyInvInit == Init /\ ReadyInit => ReadyInv
<1> SUFFICES ASSUME Init, ReadyInit PROVE ReadyInv
  OBVIOUS
<1>1. /\ net = [s \in Slot |-> "none"] /\ interest = [s \in Slot |-> "none"]
      /\ edge = {} /\ events = {} /\ arming = {} /\ polled = FALSE
  BY Zenon DEF ReadyInit
<1>2. ReadyTypeOK
  <2>1. /\ "none" \in {"none", "dialing", "open", "blocked", "room", "half", "whole", "dead"}
        /\ "none" \in {"none", "readable", "writable"}
    BY Zenon
  <2>2. {} \in SUBSET Slot /\ FALSE \in BOOLEAN
    BY Zenon
  <2> QED
    BY <1>1, <2>1, <2>2, Zenon DEF ReadyTypeOK
<1>3. \A s \in Slot : ~slot[s].sock
  <2>1. slot = [s \in Slot |-> NewSlot]
    BY Zenon DEF Init
  <2>2. ~NewSlot.sock
    BY DEF NewSlot
  <2> QED
    BY <2>1, <2>2, Zenon
<1>4. \A s \in Slot : Want(slot[s]) = "none" /\ interest[s] = "none"
  BY <1>1, <1>3, Zenon DEF Want
<1>5. NoMissedEdge
  BY <1>4 DEF NoMissedEdge, Ready
<1> QED
  BY <1>1, <1>2, <1>4, <1>5, Zenon DEF ReadyInv

\* No readiness of a socket is missed, for any number of connections and slots: the
\* registration after every step of a slot raises the event that the edge-triggered poll
\* would otherwise have lost.
THEOREM NoEdgeMissed == ReadySpec => []NoMissedEdge
<1>1. ReadyInit => ReadyInv
  BY ReadyInvInit, Zenon DEF ReadyInit
<1>2. TypeOK /\ ReadyInv /\ [ReadyNext]_readyVars => ReadyInv'
  BY ReadyKept
<1>3. ReadyInv => NoMissedEdge
  BY DEF ReadyInv
<1> QED
  BY <1>1, <1>2, <1>3, ReadinessRefines, TypeCorrect, PTL DEF ReadySpec
=============================================================================
