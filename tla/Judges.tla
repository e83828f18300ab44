------------------------------- MODULE Judges -------------------------------
(***************************************************************************)
(* The clients that judge a gateway, against any gateway that implements   *)
(* SttContract: the conformance tool's paced stream, on several            *)
(* connections at once, and a load generator session.  Both feed every     *)
(* response to the continuity tracker and compare its values with those    *)
(* of the frames they sent.                                                *)
(***************************************************************************)
EXTENDS SttContract, Verify

CONSTANTS MaxFrames,    \* bound: frames a client sends
          MinPartials   \* partials a paced stream waits for

ASSUME RangesVerifiable == MaxFrames \in Nat /\ MaxVerify \in Nat /\ MaxFrames <= MaxVerify

VARIABLES tool,        \* which client speaks on the connection
          framesSent,  \* frames the client has counted as sent
          posted,      \* frames the client has handed to its socket
          sending,     \* the client is in the send arm of its select, at the await
          got,         \* answers the client has read
          last,        \* Continuity::last_newest
          outcome      \* what the client makes of the session

judge == <<tool, framesSent, posted, sending, got, last, outcome>>
allVars == <<vars, judge>>

Outcomes == {"streaming", "passed", "mismatch", "error", "closed", "deadline", "failed"}

\* The client's variables keep their types.
JudgeTypeOK ==
  /\ tool \in [Conn -> {"conformance", "loadgen"}]
  /\ framesSent \in [Conn -> Nat]
  /\ posted \in [Conn -> 0 .. MaxFrames]
  /\ sending \in [Conn -> BOOLEAN]
  /\ got \in [Conn -> Nat]
  /\ last \in [Conn -> Nat]
  /\ outcome \in [Conn -> Outcomes]

JudgeInit ==
  /\ Init
  /\ tool \in [Conn -> {"conformance", "loadgen"}]
  /\ framesSent = [c \in Conn |-> 0]
  /\ posted = [c \in Conn |-> 0]
  /\ sending = [c \in Conn |-> FALSE]
  /\ got = [c \in Conn |-> 0]
  /\ last = [c \in Conn |-> 0]
  /\ outcome = [c \in Conn |-> "streaming"]

\* The gateway takes a step; it can only accept a frame that is on its socket,
\* which it may do before the client's send returns.
GatewayStep ==
  /\ Next
  /\ \A c \in Conn : received'[c] <= posted[c]
  /\ UNCHANGED judge

\* Does the client count a frame before it sends it?  The load generator does; the
\* conformance tool counts it when the send has returned.
CountsFirst(c) == tool[c] = "loadgen"

Counted(c) == [framesSent EXCEPT ![c] = @ + 1]

\* The send arm of the select, to its await: no message is read before it is over.
SendFrame(c) ==
  /\ outcome[c] = "streaming" /\ ~sending[c] /\ phase[c] # "idle" /\ posted[c] < MaxFrames
  /\ posted' = [posted EXCEPT ![c] = @ + 1]
  /\ sending' = [sending EXCEPT ![c] = TRUE]
  /\ framesSent' = IF CountsFirst(c) THEN Counted(c) ELSE framesSent
  /\ UNCHANGED <<vars, tool, got, last, outcome>>

\* The send returns.
FrameSent(c) ==
  /\ outcome[c] = "streaming" /\ sending[c]
  /\ sending' = [sending EXCEPT ![c] = FALSE]
  /\ framesSent' = IF CountsFirst(c) THEN framesSent ELSE Counted(c)
  /\ UNCHANGED <<vars, tool, posted, got, last, outcome>>

\* The send fails, or takes the load generator too long.
SendFails(c) ==
  /\ outcome[c] = "streaming" /\ sending[c]
  /\ outcome' = [outcome EXCEPT ![c] = "failed"]
  /\ UNCHANGED <<vars, tool, framesSent, posted, sending, got, last>>

\* The counts of a partial are those of the audio it was computed from.
AsPartial(m) ==
  [oldest |-> m.oldest, newest |-> m.newest, audio |-> m.audio, config |-> TRUE, sane |-> TRUE,
   frames |-> m.audio.last - m.audio.first + 1, bytes |-> m.audio.last - m.audio.first + 1]

\* PartialChecker::check; process_inbound and the verifier make the same checks.
Check(c, p) ==
  Gap(last[c], p.oldest, p.newest)
  \cup When(~Valid(p), "invalid_partial")
  \cup Unsent(p, framesSent[c])
  \cup VerifyPartial(c, p)

\* An error frame ends a conformance stream; for the load generator it tiles the
\* sequence as a partial does.
Verdict(c, m) ==
  LET wrong == IF m.kind = "error" THEN Gap(last[c], m.oldest, m.newest)
                                   ELSE Check(c, AsPartial(m))
  IN CASE m.kind = "error" /\ tool[c] = "conformance" -> "error"
       [] wrong # {} /\ ~(m.kind = "error" /\ tool[c] = "conformance") -> "mismatch"
       [] OTHER -> "streaming"

\* A bug: messages are read by a task of their own, also while a frame is being sent.
ReadAside(c) ==
  LET m == out[c][got[c] + 1] IN
  /\ outcome[c] = "streaming" /\ got[c] < sent[c]
  /\ got' = [got EXCEPT ![c] = @ + 1]
  /\ last' = [last EXCEPT ![c] = Advance(@, m.oldest, m.newest)]
  /\ outcome' = [outcome EXCEPT ![c] = Verdict(c, m)]
  /\ UNCHANGED <<vars, tool, framesSent, posted, sending>>

Read(c) ==
  LET m == out[c][got[c] + 1] IN
  /\ outcome[c] = "streaming" /\ ~sending[c] /\ got[c] < sent[c]
  /\ got' = [got EXCEPT ![c] = @ + 1]
  /\ last' = [last EXCEPT ![c] = Advance(@, m.oldest, m.newest)]
  /\ outcome' = [outcome EXCEPT ![c] = Verdict(c, m)]
  /\ UNCHANGED <<vars, tool, framesSent, posted, sending>>

\* The gateway's close is read; what it sent before may be lost with the socket.
ReadClose(c) ==
  /\ outcome[c] = "streaming" /\ ~sending[c] /\ phase[c] = "closed"
  /\ outcome' = [outcome EXCEPT ![c] = "closed"]
  /\ UNCHANGED <<vars, tool, framesSent, posted, sending, got, last>>

Deadline(c) ==
  /\ outcome[c] = "streaming" /\ ~sending[c]
  /\ outcome' = [outcome EXCEPT ![c] = "deadline"]
  /\ UNCHANGED <<vars, tool, framesSent, posted, sending, got, last>>

Pass(c) ==
  /\ outcome[c] = "streaming" /\ ~sending[c] /\ got[c] >= MinPartials
  /\ outcome' = [outcome EXCEPT ![c] = "passed"]
  /\ UNCHANGED <<vars, tool, framesSent, posted, sending, got, last>>

JudgeNext ==
  \/ GatewayStep
  \/ \E c \in Conn : \/ SendFrame(c) \/ FrameSent(c) \/ SendFails(c)
                      \/ Read(c) \/ ReadClose(c) \/ Deadline(c) \/ Pass(c)

JudgeSpec == JudgeInit /\ [][JudgeNext]_allVars
-----------------------------------------------------------------------------
\* No client ever finds fault with the ranges or the values of a gateway that keeps
\* the contract, however its answers, frames and closes interleave with the client's
\* sends, also when a frame is answered before its send has returned.
NeverAccused == \A c \in Conn : outcome[c] # "mismatch"

\* The client has read a prefix of what was sent and its tracker stands at the last
\* frame of that prefix.  The gateway has only seen frames that were sent, and the
\* client's count misses at most the one it is sending: whenever it reads, the count
\* is exact.  This makes NeverAccused inductive.
InStep ==
  \A c \in Conn :
    /\ got[c] <= sent[c]
    /\ last[c] = IF got[c] = 0 THEN 0 ELSE out[c][got[c]].newest
    /\ received[c] <= posted[c]
    /\ posted[c] = framesSent[c] + (IF sending[c] /\ ~CountsFirst(c) THEN 1 ELSE 0)
    /\ \A i \in DOMAIN out[c] : out[c][i].newest <= received[c]
=============================================================================
