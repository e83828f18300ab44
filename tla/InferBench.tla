----------------------------- MODULE InferBench -----------------------------
(***************************************************************************)
(* The inference benchmark and the server it loads, together: open loop (a *)
(* request per tick, at most Concurrency at a time) or closed loop         *)
(* (Concurrency workers until the deadline).  Results travel over an       *)
(* unbounded channel that main drains once every task has been joined.     *)
(* The server has other clients too, the gateways among them.              *)
(***************************************************************************)
EXTENDS InferenceServer

CONSTANTS Concurrency,   \* --concurrency
          Foreign        \* requests of other clients of the same server

ASSUME ForeignRequests == Foreign \subseteq Request

VARIABLES mode,       \* "open" when --rps is given, else "closed"
          task,       \* where the task of each request is
          result,     \* what send_infer returned for it
          channel,    \* results sent, not yet collected
          expired,    \* closed loop: the deadline has passed
          main,       \* where main is
          summary     \* BenchSummary: completed, and errors by kind

bench == <<mode, task, result, channel, expired, main, summary>>
vars == <<server, bench>>

Own == Request \ Foreign

Results == {"completed", "http_status", "timeout", "connect", "request"}

\* The closed loop spawns its workers at once and goes on to join them.
Init ==
  /\ ServerInit
  /\ mode \in {"open", "closed"}
  /\ task = [r \in Own |-> "none"]
  /\ result = [r \in Own |-> "none"]
  /\ channel = <<>>
  /\ expired = FALSE
  /\ main = IF mode = "open" THEN "issue" ELSE "join"
  /\ summary = [k \in Results |-> 0]

InTask(at) == {r \in Own : task[r] \in at}

\* Open loop: acquire_owned; the permit is dropped when send_infer has returned.
\* Closed loop: a worker is free once its last result is in the channel.
CanIssue ==
  \/ mode = "open" /\ main = "issue" /\ Cardinality(InTask({"sending"})) < Concurrency
  \/ mode = "closed" /\ ~expired /\ Cardinality(InTask({"sending", "returned", "panicked"})) < Concurrency

\* The request is sent and reaches the server.
Issue(r) ==
  /\ main \in {"issue", "join"}
  /\ task[r] = "none"
  /\ CanIssue
  /\ task' = [task EXCEPT ![r] = "sending"]
  /\ Arrive(r, TRUE)
  /\ UNCHANGED <<mode, result, channel, expired, main, summary>>

\* The request does not reach the server: no connection, in time or at all, or one
\* that breaks.
IssueFails(r) ==
  /\ main \in {"issue", "join"}
  /\ task[r] = "none"
  /\ CanIssue
  /\ task' = [task EXCEPT ![r] = "returned"]
  /\ \E k \in {"timeout", "connect", "request"} : result' = [result EXCEPT ![r] = k]
  /\ UNCHANGED <<server, mode, channel, expired, main, summary>>

\* All requests of the open loop have been spawned.
IssueEnd ==
  /\ main = "issue"
  /\ InTask({"none"}) = {}
  /\ main' = "join"
  /\ UNCHANGED <<server, mode, task, result, channel, expired, summary>>

Expire ==
  /\ mode = "closed" /\ ~expired
  /\ expired' = TRUE
  /\ UNCHANGED <<server, mode, task, result, channel, main, summary>>

\* send_infer returns: the answer, a timeout, or a stream that breaks, which it may do
\* after the server has answered.
Return(r) ==
  /\ main # "failed" /\ task[r] = "sending"
  /\ \E k \in {"timeout", "request"}
               \cup (IF handler[r] # "answered" THEN {}
                     ELSE {IF status[r] = 200 THEN "completed" ELSE "http_status"}) :
       result' = [result EXCEPT ![r] = k]
  /\ task' = [task EXCEPT ![r] = "returned"]
  /\ UNCHANGED <<server, mode, channel, expired, main, summary>>

\* The server learns that the client has gone, some time after it has.
Reset(r) ==
  /\ task[r] # "sending" \/ main = "failed"
  /\ ClientGone(r)
  /\ UNCHANGED bench

\* Other clients send requests of any length and leave whenever they like.
Others(r) ==
  /\ (\E even \in BOOLEAN : Arrive(r, even)) \/ ClientGone(r)
  /\ UNCHANGED bench

Post(r) ==
  /\ main # "failed" /\ task[r] = "returned"
  /\ task' = [task EXCEPT ![r] = "sent"]
  /\ channel' = Append(channel, result[r])
  /\ UNCHANGED <<server, mode, result, expired, main, summary>>

Panic(r) ==
  /\ main # "failed" /\ task[r] = "sending"
  /\ task' = [task EXCEPT ![r] = "panicked"]
  /\ UNCHANGED <<server, mode, result, channel, expired, main, summary>>

\* A bug: main goes on when the last request has been sent.
JoinIssued ==
  /\ main = "join"
  /\ mode = "closed" => expired
  /\ main' = "collect"
  /\ UNCHANGED <<server, mode, task, result, channel, expired, summary>>

\* Every task has finished, and none has panicked.
Join ==
  /\ main = "join"
  /\ mode = "closed" => expired
  /\ InTask({"sending", "returned", "panicked"}) = {}
  /\ main' = "collect"
  /\ UNCHANGED <<server, mode, task, result, channel, expired, summary>>

\* A bug: a panicked task is waited for again.
JoinForgives == main = "join" /\ InTask({"panicked"}) # {} /\ UNCHANGED vars

JoinFails ==
  /\ main = "join" /\ InTask({"panicked"}) # {}
  /\ main' = "failed"
  /\ UNCHANGED <<server, mode, task, result, channel, expired, summary>>

\* BenchSummary::record
Collect ==
  /\ main = "collect" /\ channel # <<>>
  /\ summary' = [summary EXCEPT ![Head(channel)] = @ + 1]
  /\ channel' = Tail(channel)
  /\ UNCHANGED <<server, mode, task, result, expired, main>>

Finish ==
  /\ main = "collect" /\ channel = <<>>
  /\ main' = "done"
  /\ UNCHANGED <<server, mode, task, result, channel, expired, summary>>

Done == main \in {"done", "failed"} /\ UNCHANGED vars

Next ==
  \/ \E r \in Own : Issue(r) \/ IssueFails(r) \/ Return(r) \/ Reset(r) \/ Post(r) \/ Panic(r)
  \/ \E r \in Foreign : Others(r)
  \/ \E r \in Request : ServerStep(r) /\ UNCHANGED bench
  \/ IssueEnd \/ Expire \/ Join \/ JoinFails \/ Collect \/ Finish \/ Done

Spec == Init /\ [][Next]_vars

\* Computations end, sleeps and client timeouts elapse, resets arrive, and both
\* runtimes poll what is ready.
Fairness ==
  /\ \A r \in Request :
       /\ WF_vars(Resume(r) /\ UNCHANGED bench)
       /\ WF_vars(Computed(r) /\ UNCHANGED bench)
       /\ WF_vars(Slept(r) /\ UNCHANGED bench)
  /\ \A r \in Own :
       /\ WF_vars(Reset(r)) /\ WF_vars(Return(r)) /\ WF_vars(Post(r)) /\ WF_vars(Issue(r))
  /\ WF_vars(IssueEnd) /\ WF_vars(Expire) /\ WF_vars(Join) /\ WF_vars(JoinFails)
  /\ WF_vars(Collect) /\ WF_vars(Finish)

FairSpec == Spec /\ Fairness
-----------------------------------------------------------------------------
\* BenchSummary::attempted, with BenchErrorCounts::total
Attempted == LET n == summary IN
  n["completed"] + n["http_status"] + n["timeout"] + n["connect"] + n["request"]

\* The report is about every request made: attempted is their number, and each kind
\* counts exactly the tasks that returned it.
ReportComplete ==
  main = "done" =>
    /\ Attempted = Cardinality(Own) - Cardinality(InTask({"none"}))
    /\ \A k \in Results : summary[k] = Cardinality({r \in Own : result[r] = k})

\* The benchmark ends.
BenchEnds == <>(main \in {"done", "failed"})
=============================================================================
