------------------------------- MODULE Verify -------------------------------
(***************************************************************************)
(* The load generator's checks of one response: continuity of the ranges,  *)
(* validity, recomputed values, and the unreported tail of a session.      *)
(* A check returns the set of mismatch kinds it finds.                     *)
(*                                                                         *)
(* A response carries its range, its counts (frames, and audio in frames), *)
(* the audio its values were computed from, the configuration it echoes,   *)
(* and whether its other fields are sane.  Distinct audio has a distinct   *)
(* checksum: samples, zero crossings, rms and transcript differ with it.   *)
(***************************************************************************)
EXTENDS Integers, Sequences

CONSTANTS MaxVerify,   \* MAX_VERIFY_FRAMES
          Tolerance    \* TAIL_TOLERANCE_FRAMES

Larger(a, b) == IF a > b THEN a ELSE b

Malformed(oldest, newest) == oldest = 0 \/ newest < oldest

\* A bug: the first frame not yet covered is taken to be last itself.
GapOffByOne(last, oldest, newest) ==
  CASE Malformed(oldest, newest) -> {"invalid_range"}
    [] ~Malformed(oldest, newest) /\ oldest > last -> {"continuity_gap"}
    [] OTHER -> {}

\* A bug: a range that starts before the expected frame is accepted.
GapIgnoresOverlap(last, oldest, newest) ==
  CASE Malformed(oldest, newest) -> {"invalid_range"}
    [] ~Malformed(oldest, newest) /\ oldest > last + 1 -> {"continuity_gap"}
    [] OTHER -> {}

\* Continuity::observe: what it reports ...
Gap(last, oldest, newest) ==
  CASE Malformed(oldest, newest) -> {"invalid_range"}
    [] ~Malformed(oldest, newest) /\ oldest > last + 1 -> {"continuity_gap"}
    [] ~Malformed(oldest, newest) /\ oldest < last + 1 -> {"continuity_overlap"}
    [] OTHER -> {}

\* A bug: the tracker follows the latest response, even backwards.
AdvanceToLatest(last, oldest, newest) == IF Malformed(oldest, newest) THEN last ELSE newest

\* A bug: the tracker advances to the start of the range.
AdvanceToOldest(last, oldest, newest) ==
  IF Malformed(oldest, newest) THEN last ELSE Larger(last, oldest)

\* ... and the last frame it has covered afterwards.
Advance(last, oldest, newest) ==
  IF Malformed(oldest, newest) THEN last ELSE Larger(last, newest)

\* PartialMessage::validate
Valid(p) ==
  ~Malformed(p.oldest, p.newest) /\ p.frames > 0 /\ p.bytes > 0 /\ p.sane

When(condition, kind) == IF condition THEN {kind} ELSE {}

\* verify_partial, for the frames the client sent as session s.
VerifyPartial(s, p) ==
  LET range == p.newest - p.oldest + 1 IN
  IF Malformed(p.oldest, p.newest) THEN {"invalid_range"}
  ELSE When(p.frames # range, "frames")
       \cup When(p.bytes # range, "audio_bytes")
       \cup When(~p.config, "config")
       \cup IF range > MaxVerify THEN {"range_too_large"}
            ELSE When(p.audio # [conn |-> s, first |-> p.oldest, last |-> p.newest], "checksum")

\* A partial may only cover frames the client has sent.
Unsent(p, framesSent) == When(p.newest > framesSent, "unsent_frame")

\* check_tail, at the end of a session.
CheckTail(framesSent, reported) == When(framesSent - reported > Tolerance, "missing_tail")
=============================================================================
