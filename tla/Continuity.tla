----------------------------- MODULE Continuity -----------------------------
(***************************************************************************)
(* The continuity tracker fed with an arbitrary stream of ranges, against  *)
(* what a reader of the whole stream would say.                            *)
(***************************************************************************)
EXTENDS Verify

CONSTANTS MaxSeq,     \* bound: largest sequence number in a response
          MaxLength   \* bound: responses in the stream

ASSUME TrackerAssumption == MaxSeq \in Nat /\ MaxLength \in Nat

VARIABLES stream,       \* the ranges received
          lastNewest,   \* Continuity::last_newest
          reports       \* what was reported for each of them

tracker == <<stream, lastNewest, reports>>

Ranges == [oldest : 0 .. MaxSeq, newest : 0 .. MaxSeq]

TrackerInit == stream = <<>> /\ lastNewest = 0 /\ reports = <<>>

Observe(r) ==
  /\ Len(stream) < MaxLength
  /\ stream' = Append(stream, r)
  /\ reports' = Append(reports, Gap(lastNewest, r.oldest, r.newest))
  /\ lastNewest' = Advance(lastNewest, r.oldest, r.newest)

TrackerNext == \E r \in Ranges : Observe(r)

TrackerSpec == TrackerInit /\ [][TrackerNext]_tracker
-----------------------------------------------------------------------------
Tiles(s) ==
  /\ \A i \in DOMAIN s : s[i].oldest <= s[i].newest
  /\ s # <<>> => s[1].oldest = 1
  /\ \A i \in 2 .. Len(s) : s[i].oldest = s[i-1].newest + 1

Reported == {i \in DOMAIN reports : reports[i] # {}}

Without(s, i) == SubSeq(s, 1, i - 1) \o SubSeq(s, i + 1, Len(s))

\* observe stays silent for a whole stream exactly when the stream tiles the frames
\* 1, 2, 3, ... from the first to the last it covers.
SilentIffTiling == Reported = {} <=> Tiles(stream)

\* A response that only repeats frames already covered, or whose range is malformed,
\* in a stream that tiles otherwise, is reported, and it is the only one reported:
\* it does not poison the later checks.
StaleReportedOnce ==
  \A i \in DOMAIN stream :
    LET before == SubSeq(stream, 1, i - 1) IN
    /\ Tiles(Without(stream, i))
    /\ \/ Malformed(stream[i].oldest, stream[i].newest)
       \/ before # <<>> /\ stream[i].newest <= before[i-1].newest
    => Reported = {i}

\* When a response is lost from a stream that tiles, exactly the one after it is
\* reported, as a gap.
LossReportedOnce ==
  \A i \in DOMAIN stream : \A r \in Ranges :
    Tiles(SubSeq(stream, 1, i - 1) \o <<r>> \o SubSeq(stream, i, Len(stream)))
      => Reported = {i} /\ reports[i] = {"continuity_gap"}
=============================================================================
