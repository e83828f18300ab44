---------------------------- MODULE SttContract ----------------------------
(***************************************************************************)
(* What every gateway promises a client, whatever its runtime: one         *)
(* WebSocket session is a stream of numbered frames, answered by messages  *)
(* that tile the sequence 1, 2, 3, ... in order, one batch at a time.      *)
(*                                                                         *)
(* A batch is the range of frames handed to inference together.  Every     *)
(* answer is a "partial" computed from exactly that audio, or an "error"   *)
(* that consumes the range: gateways do not retry.  At most one batch of a *)
(* connection is in flight.  An answer is sent at once or queued, and sent *)
(* in order.  After the session has ended nothing is said on it any more,  *)
(* and it ends with the code its cause calls for.                          *)
(*                                                                         *)
(* The detailed modules show that they implement this one.                 *)
(***************************************************************************)
EXTENDS Integers, Sequences

CONSTANTS Conn,     \* connection ids, never reused
          NoConn    \* not a connection

VARIABLES phase,     \* "idle", "connected", "streaming" or "closed"
          received,  \* frames accepted so far: the last sequence number given
          inflight,  \* the batch at inference, or NoBatch
          out,       \* answers produced, in order
          sent,      \* how many of them have been sent to the client
          code       \* close code sent to the client, 0 if none

vars == <<phase, received, inflight, out, sent, code>>

NoBatch == [oldest |-> 0, newest |-> 0]
NoAudio == [conn |-> NoConn, first |-> 0, last |-> 0]

Phases == {"idle", "connected", "streaming", "closed"}
Codes  == {0, 1002, 1003, 1011, 1013}
Batch  == [oldest : Nat, newest : Nat]
Audio  == [conn : Conn \cup {NoConn}, first : Nat, last : Nat]
Answer == [kind : {"partial", "error"}, oldest : Nat, newest : Nat, audio : Audio]

\* The last frame that the answers in s are about.
LastAnswered(s) == IF s = <<>> THEN 0 ELSE s[Len(s)].newest

AudioOf(c, b) == [conn |-> c, first |-> b.oldest, last |-> b.newest]

TypeOK ==
  /\ phase    \in [Conn -> Phases]
  /\ received \in [Conn -> Nat]
  /\ inflight \in [Conn -> Batch]
  /\ out      \in [Conn -> Seq(Answer)]
  /\ sent     \in [Conn -> Nat]
  /\ code     \in [Conn -> Codes]

Init ==
  /\ phase    = [c \in Conn |-> "idle"]
  /\ received = [c \in Conn |-> 0]
  /\ inflight = [c \in Conn |-> NoBatch]
  /\ out      = [c \in Conn |-> <<>>]
  /\ sent     = [c \in Conn |-> 0]
  /\ code     = [c \in Conn |-> 0]

Open(c) ==
  /\ phase[c] = "idle"
  /\ phase' = [phase EXCEPT ![c] = "connected"]
  /\ UNCHANGED <<received, inflight, out, sent, code>>

Start(c) ==
  /\ phase[c] = "connected"
  /\ phase' = [phase EXCEPT ![c] = "streaming"]
  /\ UNCHANGED <<received, inflight, out, sent, code>>

\* A handler that accepts a frame or gives an answer may find, when it flushes
\* the socket, that the peer is lost; then the session is over as well.
After(c, lost) == phase' = IF lost THEN [phase EXCEPT ![c] = "closed"] ELSE phase

Frame(c, lost) ==
  /\ phase[c] = "streaming"
  /\ received' = [received EXCEPT ![c] = @ + 1]
  /\ After(c, lost)
  /\ inflight' = IF lost THEN [inflight EXCEPT ![c] = NoBatch] ELSE inflight
  /\ UNCHANGED <<out, sent, code>>

\* Everything buffered goes into one batch.
Flush(c) ==
  /\ phase[c] = "streaming"
  /\ inflight[c] = NoBatch
  /\ LastAnswered(out[c]) < received[c]
  /\ inflight' = [inflight EXCEPT ![c] = [oldest |-> LastAnswered(out[c]) + 1,
                                          newest |-> received[c]]]
  /\ UNCHANGED <<phase, received, out, sent, code>>

\* The batch is answered; the answer is sent now, unless it is queued.
Respond(c, kind, queued, lost) ==
  /\ phase[c] = "streaming"
  /\ queued \/ sent[c] = Len(out[c])
  /\ inflight[c] # NoBatch
  /\ out' = [out EXCEPT ![c] = Append(@,
        [kind   |-> kind,
         oldest |-> inflight[c].oldest,
         newest |-> inflight[c].newest,
         audio  |-> IF kind = "partial" THEN AudioOf(c, inflight[c]) ELSE NoAudio])]
  /\ inflight' = [inflight EXCEPT ![c] = NoBatch]
  /\ sent' = IF queued THEN sent ELSE [sent EXCEPT ![c] = @ + 1]
  /\ After(c, lost)
  /\ UNCHANGED <<received, code>>

\* The oldest queued answer is sent.
Send(c) ==
  /\ phase[c] = "streaming"
  /\ sent[c] < Len(out[c])
  /\ sent' = [sent EXCEPT ![c] = @ + 1]
  /\ UNCHANGED <<phase, received, inflight, out, code>>

\* The session ends: 1002 for a protocol error, 1003 for a bad frame and 1013
\* for a full backlog once it is streaming, 1011 for an answer that cannot be
\* sent, 0 when the peer leaves or is lost.  A batch still at inference is
\* abandoned.
End(c, k) ==
  /\ phase[c] # "closed"
  /\ k = 1002 => phase[c] # "idle"
  /\ k \in {1003, 1011, 1013} => phase[c] = "streaming"
  /\ k = 1011 => sent[c] < Len(out[c])
  /\ phase' = [phase EXCEPT ![c] = "closed"]
  /\ inflight' = [inflight EXCEPT ![c] = NoBatch]
  /\ code' = [code EXCEPT ![c] = k]
  /\ UNCHANGED <<received, out, sent>>

Next ==
  \E c \in Conn :
    \/ Open(c)
    \/ Start(c)
    \/ Flush(c)
    \/ Send(c)
    \/ \E lost \in BOOLEAN :
         \/ Frame(c, lost)
         \/ \E kind \in {"partial", "error"}, queued \in BOOLEAN : Respond(c, kind, queued, lost)
    \/ \E k \in Codes : End(c, k)

Spec == Init /\ [][Next]_vars
-----------------------------------------------------------------------------
\* The answers produced are consecutive ranges starting at frame 1, each about at
\* least one frame.
Consecutive(s) ==
  /\ \A i \in DOMAIN s : s[i].oldest <= s[i].newest
  /\ s # <<>> => s[1].oldest = 1
  /\ \A i \in 2 .. Len(s) : s[i].oldest = s[i-1].newest + 1

\* No frame is answered twice, skipped or answered out of order, and what is in
\* flight starts right after what was answered: a client that counts (the load
\* generator's continuity check) has seen the first of these answers, without gap.
Tiling ==
  \A c \in Conn :
    /\ Consecutive(out[c])
    /\ inflight[c] # NoBatch =>
         /\ inflight[c].oldest = LastAnswered(out[c]) + 1
         /\ inflight[c].oldest <= inflight[c].newest
         /\ inflight[c].newest <= received[c]
    /\ LastAnswered(out[c]) <= received[c]
    /\ sent[c] <= Len(out[c])

\* A partial is computed from the audio of its own connection and its own range.
AudioMatches ==
  \A c \in Conn : \A i \in DOMAIN out[c] :
    LET m == out[c][i] IN m.kind = "partial" => m.audio = AudioOf(c, m)

Silent ==
  \A c \in Conn : phase[c] = "closed" => sent'[c] = sent[c] /\ out'[c] = out[c] /\ phase'[c] = "closed"

\* Nothing is said on a session that has ended, and it never resumes.
SilentAfterEnd == [][Silent]_vars
=============================================================================
